----------------------- MODULE ControlPlaneReplicasProofs -----------------------
(***************************************************************************)
(* Proofs about the CK8sControlPlane reconciler: type correctness, and     *)
(* what holds of the machines it creates and deletes for any number of     *)
(* machines, edits, failed calls, lost replies and crashes.  The argument  *)
(* rests on one reconcile at a time: from the list it takes to the call it *)
(* decides on, nobody else creates a machine or starts a deletion.         *)
(***************************************************************************)
EXTENDS ControlPlaneReplicas, NumberLemmas

USE NoDomainAssumption, ReplicasAssumption, RollingUpdateAssumption, PeriodsAssumption,
    LostRepliesAssumption, BoundsAssumption, FlagsAssumption

-----------------------------------------------------------------------------
(***************************************************************************)
(* The inductive invariant.                                                *)
(***************************************************************************)
\* Lists of machines, and the type of the reconcile in progress.
Lists == UNION {[D -> MachineData] : D \in SUBSET Machine}

Reconciles ==
    [pc : Steps, kcp : ControlPlane, seen : Lists, target : 0..MaxMachines,
     why : {"none", "remediate", "scaleDown"}, domain : FailureDomains \cup {NoDomain},
     data : RemediationData, parts : SUBSET {"infra", "config"}]

TypeInv ==
    /\ kcp \in ControlPlane /\ machines \in Lists /\ cache \in Lists /\ rc \in Reconciles
    /\ DOMAIN machines \subseteq 1..last /\ infra \subseteq 1..last /\ config \subseteq 1..last
    /\ workers \in BOOLEAN /\ formed \in BOOLEAN
    /\ last \in 0..MaxMachines /\ now \in 0..MaxClock /\ edits \in 0..MaxEdits
    /\ kcp.revision <= edits
    /\ rc.pc \in {"config", "machine"} => rc.target \in 1..last

\* The machine being cloned does not exist before its parts do.
PartsInv ==
    /\ MachineHasParts
    /\ rc.pc = "config" => rc.target \in infra
    /\ rc.pc = "machine" => rc.target \in infra \cap config
    /\ rc.pc \in {"config", "machine", "cleanup"} => rc.target \notin DOMAIN machines

\* The steps that look at the list, and the steps that clone a machine.
Listing  == {"sync", "conditions", "decide"}
Creating == {"infra", "config", "machine"}

\* There are machines, and reconciles, only under the finalizer.
FinalizerInv ==
    /\ kcp.state = "gone" => ~kcp.finalizer
    /\ ~kcp.finalizer => rc.pc = "idle" /\ DOMAIN machines = {}
    /\ rc.pc # "idle" /\ ~rc.kcp.finalizer => rc.pc = "patch" /\ DOMAIN machines = {}

\* The list the reconcile decides from still shows every machine, which of them
\* are being deleted or outdated, where they are and what they replaced, and no
\* mark that is not there; only machines being deleted have gone.
Agrees(ms, seen) ==
    /\ DOMAIN ms \subseteq DOMAIN seen
    /\ \A m \in DOMAIN ms : /\ seen[m].deleting = ms[m].deleting
                            /\ seen[m].revision = ms[m].revision
                            /\ seen[m].domain = ms[m].domain
                            /\ seen[m].remediationFor = ms[m].remediationFor
                            /\ seen[m].deleteFirst => ms[m].deleteFirst
                            /\ seen[m].node # "none" => ms[m].node # "none"
    /\ \A m \in DOMAIN seen \ DOMAIN ms : seen[m].deleting

ListInv == rc.pc \in Listing => Agrees(machines, rc.seen)

\* At most one machine is being deleted.
OneOut(ms) == \A m, n \in DOMAIN ms : ms[m].deleting /\ ms[n].deleting => m = n

\* Machines being deleted: none but the reconcile's own while it takes one out,
\* none while it clones one, and one at most in between.
DeletionInv ==
    /\ rc.pc \in {"remove", "delete"} => \A m \in DOMAIN machines : machines[m].deleting => m = rc.target
    /\ rc.pc \in Creating => \A m \in DOMAIN machines : ~machines[m].deleting
    /\ kcp.state = "live" => OneOut(machines)
    /\ rc.pc # "idle" /\ rc.kcp.state # "live" => kcp.state # "live"
    /\ rc.pc = "deleteAll" => rc.kcp.state # "live"

\* Room for one more machine than ms, by the spec k that was read.
Room(ms, k) ==
    LET n == Cardinality(DOMAIN ms) + 1
    IN  \/ n <= k.replicas
        \/ /\ \E m \in DOMAIN ms : ms[m].revision # k.revision
           /\ \A surge \in MaxSurge : n <= k.replicas + surge

RoomInv == rc.pc \in Creating => Room(machines, rc.kcp)

\* Before the control plane is initialised it has one machine, of which nothing
\* is known.
First(ms) ==
    /\ \A m, n \in DOMAIN ms : m = n
    /\ \A m \in DOMAIN ms : ~ms[m].agentHealthy

InitializedInv ==
    /\ rc.pc # "idle" => rc.kcp.initialized = kcp.initialized
    /\ ~kcp.initialized => First(machines)
    /\ ~kcp.initialized /\ rc.pc \in Listing => First(rc.seen)
    /\ ~kcp.initialized /\ rc.pc \in Creating => DOMAIN machines = {}

\* AgentHealthy is a condition of machines that had a node.
Known(ms) == \A m \in DOMAIN ms : ms[m].agentHealthy => ms[m].node # "none"

\* Nodes that can be reached, or went unnoticed.
Reachable(m) == machines[m].node \in {"ready", "notReady"}

HealthInv ==
    /\ Known(machines)
    /\ rc.pc \in Listing => Known(rc.seen)
    /\ rc.pc = "decide" /\ ~downSince /\ kcp.initialized =>
           \A m \in DOMAIN machines : rc.seen[m].agentHealthy => Reachable(m)
    /\ rc.pc = "remove" /\ rc.why = "scaleDown" /\ ~downSince =>
           \A m \in DOMAIN machines \ {rc.target} : Reachable(m)

Inv ==
    /\ FinalizerInv
    /\ ListInv
    /\ DeletionInv
    /\ RoomInv
    /\ InitializedInv
    /\ HealthInv

-----------------------------------------------------------------------------
(***************************************************************************)
(* Lists of machines, and the decisions made from them.                    *)
(***************************************************************************)
\* A list is a function from some machines to their data.
LEMMA ListFacts ==
  ASSUME NEW ms \in Lists
  PROVE  /\ ms = [m \in DOMAIN ms |-> ms[m]]
         /\ DOMAIN ms \subseteq Machine /\ DOMAIN ms \subseteq Nat
         /\ \A m \in DOMAIN ms : ms[m] \in MachineData
<1>1. PICK D \in SUBSET Machine : ms \in [D -> MachineData]
  BY DEF Lists
<1>2. DOMAIN ms = D
  BY <1>1
<1>3. Machine \subseteq Nat
  BY DEF Machine
<1>4. QED
  BY <1>1, <1>2, <1>3

LEMMA ListOf ==
  ASSUME NEW ms, ms = [m \in DOMAIN ms |-> ms[m]], DOMAIN ms \subseteq Machine,
         \A m \in DOMAIN ms : ms[m] \in MachineData
  PROVE  ms \in Lists
<1>1. ms \in [DOMAIN ms -> MachineData]
  OBVIOUS
<1>2. QED
  BY <1>1 DEF Lists

LEMMA NoMachinesList == NoMachines \in Lists /\ DOMAIN NoMachines = {}
<1>1. DOMAIN NoMachines = {} /\ NoMachines = [m \in DOMAIN NoMachines |-> NoMachines[m]]
  BY DEF NoMachines
<1>2. QED
  BY <1>1, ListOf

\* No machine in the list: it is the empty one.
LEMMA EmptyList ==
  ASSUME NEW ms \in Lists, DOMAIN ms = {}
  PROVE  ms = NoMachines
<1>1. ms = [m \in DOMAIN ms |-> ms[m]]
  BY ListFacts
<1>2. QED
  BY <1>1 DEF NoMachines

\* A list with one machine changed is a list.
LEMMA ListWith ==
  ASSUME NEW ms \in Lists, NEW m \in DOMAIN ms, NEW d \in MachineData
  PROVE  /\ [ms EXCEPT ![m] = d] \in Lists
         /\ DOMAIN [ms EXCEPT ![m] = d] = DOMAIN ms
         /\ [ms EXCEPT ![m] = d][m] = d
         /\ \A n \in DOMAIN ms \ {m} : [ms EXCEPT ![m] = d][n] = ms[n]
<1>1. PICK D \in SUBSET Machine : ms \in [D -> MachineData]
  BY DEF Lists
<1>2. [ms EXCEPT ![m] = d] \in [D -> MachineData]
  BY <1>1
<1>3. QED
  BY <1>1, <1>2 DEF Lists

\* The oldest of some machines is one of them.
LEMMA OldestIn ==
  ASSUME NEW S, S \subseteq Nat, S # {}
  PROVE  Oldest(S) \in S
<1>1. Min(S) \in S /\ \A n \in S : Min(S) <= n
  BY MinOfNaturals
<1>2. QED
  BY <1>1 DEF Oldest

\* selectMachineForScaleDown picks machines of the list.
LEMMA SelectedListed ==
  ASSUME NEW ms \in Lists, NEW outdated, outdated \subseteq DOMAIN ms
  PROVE  selectMachineForScaleDown(ms, outdated) \subseteq DOMAIN ms
<1> DEFINE marked(S) == {m \in S : ms[m].deleteFirst}
           first == IF marked(outdated) # {} THEN marked(outdated) ELSE marked(DOMAIN ms)
           rest == IF outdated # {} THEN outdated ELSE DOMAIN ms
           S == IF first # {} THEN first ELSE rest
<1>1. S \subseteq DOMAIN ms /\ S \subseteq Nat
  BY ListFacts
<1>2. selectMachineForScaleDown(ms, outdated) = {Oldest(In(ms, S, fd)) : fd \in FailureDomainWithMostMachines(ms, S)}
  BY DEF selectMachineForScaleDown
<1> HIDE DEF S
<1>3. ASSUME NEW fd \in FailureDomainWithMostMachines(ms, S)
      PROVE  Oldest(In(ms, S, fd)) \in DOMAIN ms
  <2> DEFINE stray == {m \in S : ms[m].domain \notin FailureDomains}
  <2>1. stray # {} => Oldest(stray) \in S
    BY <1>1, OldestIn
  <2>2. In(ms, S, fd) # {} /\ In(ms, S, fd) \subseteq S
    BY <2>1 DEF In, FailureDomainWithMostMachines
  <2>3. QED
    BY <1>1, <2>2, OldestIn
<1>4. QED
  BY <1>2, <1>3

\* A new machine goes to a failure domain, or to none.
LEMMA DomainChosen ==
  ASSUME NEW ms, NEW revision
  PROVE  NextFailureDomainForScaleUp(ms, revision) \subseteq FailureDomains \cup {NoDomain}
BY DEF NextFailureDomainForScaleUp

\* The retry is counted from zero.
LEMMA RetryCounted ==
  ASSUME NEW before \in RemediationData, NEW s, NEW t
  PROVE  checkRetryLimits(before, s, t).retry \in Nat
BY DEF checkRetryLimits, RemediationData

-----------------------------------------------------------------------------
(***************************************************************************)
(* Type correctness.                                                       *)
(***************************************************************************)
LEMMA IdleType == Created \in ControlPlane /\ Idle \in Reconciles /\ NoData \in RemediationData
<1>1. NoData \in RemediationData
  BY DEF NoData, RemediationData
<1>2. Created \in ControlPlane
  BY <1>1 DEF Created, ControlPlane
<1>3. QED
  BY <1>1, <1>2, NoMachinesList DEF Idle, Reconciles, Steps

\* What the steps of a reconcile make of it.
LEMMA GotoType ==
  ASSUME rc \in Reconciles, NEW step \in Steps, Goto(step)
  PROVE  /\ rc' \in Reconciles
         /\ rc'.pc = step /\ rc'.kcp = rc.kcp /\ rc'.target = rc.target /\ rc'.why = rc.why
         /\ rc'.data = rc.data /\ rc'.domain = rc.domain
BY NoMachinesList DEF Goto, Reconciles

LEMMA CleanUpType ==
  ASSUME rc \in Reconciles, NEW parts \in SUBSET {"infra", "config"}, CleanUp(parts)
  PROVE  /\ rc' \in Reconciles
         /\ rc'.pc = "cleanup" /\ rc'.kcp = rc.kcp /\ rc'.target = rc.target /\ rc'.why = rc.why
         /\ rc'.domain = rc.domain
BY DEF CleanUp, Reconciles, Steps

LEMMA TakeType ==
  ASSUME rc \in Reconciles, NEW m \in Machine, NEW why \in {"remediate", "scaleDown"},
         NEW data \in RemediationData, Take(m, why, data)
  PROVE  /\ rc' \in Reconciles
         /\ rc'.pc = (IF HasNode(rc.seen, m) THEN "remove" ELSE "delete")
         /\ rc'.kcp = rc.kcp /\ rc'.target = m /\ rc'.why = why /\ rc'.data = data
<1> DEFINE step == IF HasNode(rc.seen, m) THEN "remove" ELSE "delete"
<1>1. step \in Steps
  BY DEF Steps
<1>2. rc' = [rc EXCEPT !.pc = step, !.seen = NoMachines, !.target = m, !.why = why, !.data = data]
  BY DEF Take
<1> HIDE DEF step
<1>a. m \in 0..MaxMachines /\ why \in {"none", "remediate", "scaleDown"}
  BY DEF Machine
<1>3. /\ rc' \in Reconciles
      /\ rc'.pc = step /\ rc'.kcp = rc.kcp /\ rc'.target = m /\ rc'.why = why /\ rc'.data = data
  BY <1>1, <1>2, <1>a, NoMachinesList DEF Reconciles
<1>4. QED
  BY <1>3 DEF step

LEMMA CloneType ==
  ASSUME rc \in Reconciles, NEW fd \in FailureDomains \cup {NoDomain}, Clone(fd)
  PROVE  /\ rc' \in Reconciles
         /\ rc'.pc = "infra" /\ rc'.kcp = rc.kcp /\ rc'.domain = fd
BY NoMachinesList DEF Clone, Reconciles, Steps

LEMMA StartType ==
  ASSUME NEW step \in Steps, NEW k \in ControlPlane, NEW seen \in Lists, Start(step, k, seen)
  PROVE  /\ rc' \in Reconciles
         /\ rc'.pc = step /\ rc'.kcp = k /\ rc'.seen = seen
<1>1. PICK idle \in Reconciles : rc' = [idle EXCEPT !.pc = step, !.kcp = k, !.seen = seen]
  BY IdleType DEF Start
<1>2. QED
  BY <1>1 DEF Reconciles

-----------------------------------------------------------------------------
(***************************************************************************)
(* What the steps make of the machines.                                    *)
(***************************************************************************)
\* The same machine: as much deleted, at the same revision, in the same failure
\* domain and a replacement of the same one; marked if it was marked.
Like(d, e) ==
    /\ e.deleting = d.deleting /\ e.revision = d.revision
    /\ e.domain = d.domain /\ e.remediationFor = d.remediationFor
    /\ d.deleteFirst => e.deleteFirst

\* The same machines, and no mark added to them.
Kept(ms, ns) == DOMAIN ns = DOMAIN ms /\ \A m \in DOMAIN ms : Like(ms[m], ns[m])
MarksKept(ms, ns) == \A m \in DOMAIN ms : ns[m].deleteFirst => ms[m].deleteFirst

\* No node or condition of theirs is lost.
NodesKept(ms, ns) == \A m \in DOMAIN ms : ms[m].node # "none" => ns[m].node # "none"
HealthKept(ms, ns) == \A m \in DOMAIN ms : ns[m].agentHealthy = ms[m].agentHealthy

\* Nodes joining and failing, health checks, hooks and annotations.
Environment(m) ==
    \/ Join(m) \/ NodeFails(m) \/ MarkUnhealthy(m) \/ StartupTimeout(m)
    \/ AskHook(m) \/ MachineReconcile(m) \/ MarkDeleteFirst(m)

LEMMA EnvironmentEffect ==
  ASSUME machines \in Lists, NEW m \in DOMAIN machines, Environment(m)
  PROVE  /\ machines' \in Lists /\ Kept(machines, machines')
         /\ NodesKept(machines, machines') /\ HealthKept(machines, machines')
         /\ \A n \in DOMAIN machines : machines'[n].node = "removed" => machines[n].node = "removed"
         /\ ~downSince' => ~downSince /\ \A n \in DOMAIN machines : Reachable(n) => Reachable(n)'
<1>1. machines[m] \in MachineData
  BY ListFacts
<1>2. ASSUME NEW d \in MachineData, machines' = [machines EXCEPT ![m] = d],
             Like(machines[m], d),
             d.agentHealthy = machines[m].agentHealthy, machines[m].node # "none" => d.node # "none",
             d.node = "removed" => machines[m].node = "removed"
      PROVE  /\ machines' \in Lists /\ Kept(machines, machines')
             /\ NodesKept(machines, machines') /\ HealthKept(machines, machines')
             /\ machines'[m] = d /\ \A n \in DOMAIN machines \ {m} : machines'[n] = machines[n]
             /\ \A n \in DOMAIN machines : machines'[n].node = "removed" => machines[n].node = "removed"
  <2>1. /\ machines' \in Lists /\ DOMAIN machines' = DOMAIN machines
        /\ machines'[m] = d /\ \A n \in DOMAIN machines \ {m} : machines'[n] = machines[n]
    BY <1>2, ListWith
  <2>2. QED
    BY <1>2, <2>1 DEF Kept, Like, NodesKept, HealthKept
<1>3. CASE Join(m)
  <2> DEFINE d == [machines[m] EXCEPT !.node = "ready", !.unhealthy = FALSE]
  <2>1. machines' = [machines EXCEPT ![m] = d] /\ downSince' = downSince
    BY <1>3 DEF Join, history
  <2>2. /\ d \in MachineData
        /\ Like(machines[m], d)
        /\ d.agentHealthy = machines[m].agentHealthy /\ d.node = "ready"
    BY <1>1 DEF MachineData, NodeStates, Like
  <2> HIDE DEF d
  <2>3. QED
    BY <1>2, <2>1, <2>2 DEF Reachable
<1>4. CASE NodeFails(m)
  <2>1. PICK how \in Failures : machines' = [machines EXCEPT ![m].node = how]
    BY <1>4 DEF NodeFails
  <2> DEFINE d == [machines[m] EXCEPT !.node = how]
  <2>2. machines' = [machines EXCEPT ![m] = d] /\ downSince'
    BY <1>4, <2>1 DEF NodeFails
  <2>3. /\ d \in MachineData
        /\ Like(machines[m], d)
        /\ d.agentHealthy = machines[m].agentHealthy /\ d.node \notin {"none", "removed"}
    BY <1>1 DEF MachineData, NodeStates, Like
  <2> HIDE DEF d
  <2>4. QED
    BY <1>2, <2>2, <2>3
<1>5. CASE MarkUnhealthy(m) \/ StartupTimeout(m)
  <2> DEFINE d == [machines[m] EXCEPT !.unhealthy = TRUE]
  <2>1. machines' = [machines EXCEPT ![m] = d] /\ downSince' = downSince
    BY <1>5 DEF MarkUnhealthy, StartupTimeout
  <2>2. /\ d \in MachineData
        /\ Like(machines[m], d)
        /\ d.agentHealthy = machines[m].agentHealthy /\ d.node = machines[m].node
    BY <1>1 DEF MachineData, Like
  <2> HIDE DEF d
  <2>3. QED
    BY <1>2, <2>1, <2>2 DEF Reachable
<1>6. CASE AskHook(m) \/ MachineReconcile(m)
  <2>1. PICK h \in {"asked", "none"} : machines' = [machines EXCEPT ![m].hook = h] /\ downSince' = downSince
    BY <1>6 DEF AskHook, MachineReconcile
  <2> DEFINE d == [machines[m] EXCEPT !.hook = h]
  <2>2. machines' = [machines EXCEPT ![m] = d]
    BY <2>1
  <2>3. /\ d \in MachineData
        /\ Like(machines[m], d)
        /\ d.agentHealthy = machines[m].agentHealthy /\ d.node = machines[m].node
    BY <1>1 DEF MachineData, Like
  <2> HIDE DEF d
  <2>4. QED
    BY <1>2, <2>1, <2>2, <2>3 DEF Reachable
<1>7. CASE MarkDeleteFirst(m)
  <2> DEFINE d == [machines[m] EXCEPT !.deleteFirst = TRUE]
  <2>1. machines' = [machines EXCEPT ![m] = d] /\ downSince' = downSince
    BY <1>7 DEF MarkDeleteFirst, history
  <2>2. /\ d \in MachineData
        /\ Like(machines[m], d)
        /\ d.agentHealthy = machines[m].agentHealthy /\ d.node = machines[m].node
    BY <1>1 DEF MachineData, Like
  <2> HIDE DEF d
  <2>3. QED
    BY <1>2, <2>1, <2>2 DEF Reachable
<1>8. QED
  BY <1>3, <1>4, <1>5, <1>6, <1>7 DEF Environment

\* syncMachines touches annotations only, on the machines and in the list.
LEMMA SyncEffect ==
  ASSUME machines \in Lists, rc \in Reconciles, SyncMachines
  PROVE  /\ machines' \in Lists /\ Kept(machines, machines')
         /\ HealthKept(machines, machines')
         /\ \A m \in DOMAIN machines : machines'[m].node = machines[m].node
         /\ rc' \in Reconciles /\ rc'.kcp = rc.kcp
         /\ \/ rc'.pc = "patch"
            \/ /\ rc'.pc = "conditions" /\ Kept(rc.seen, rc'.seen) /\ HealthKept(rc.seen, rc'.seen)
               /\ MarksKept(rc.seen, rc'.seen)
               /\ \A m \in DOMAIN rc.seen : rc'.seen[m].node = rc.seen[m].node
<1> DEFINE due == {m \in DOMAIN rc.seen : TemplateHook /\ ~rc.seen[m].deleting /\ rc.seen[m].hook = "none"}
           Hooked(ms, done) == [m \in DOMAIN ms |-> IF m \in done THEN [ms[m] EXCEPT !.hook = "set"] ELSE ms[m]]
<1>1. PICK o \in {"ok", "error"}, done \in SUBSET due :
            /\ machines' = Hooked(machines, done)
            /\ rc' = IF Replied(o) /\ due \subseteq DOMAIN machines
                     THEN [rc EXCEPT !.pc = "conditions", !.seen = Hooked(rc.seen, due)]
                     ELSE [rc EXCEPT !.pc = "patch", !.seen = NoMachines]
  BY DEF SyncMachines
<1> HIDE DEF due
<1>2. ASSUME NEW ms \in Lists, NEW which, NEW ns, ns = Hooked(ms, which)
      PROVE  /\ ns \in Lists /\ Kept(ms, ns) /\ HealthKept(ms, ns) /\ MarksKept(ms, ns)
             /\ \A m \in DOMAIN ms : ns[m].node = ms[m].node
  <2>1. DOMAIN ns = DOMAIN ms /\ ns = [m \in DOMAIN ns |-> ns[m]]
    BY <1>2
  <2>2. ASSUME NEW m \in DOMAIN ms
        PROVE  /\ ns[m] \in MachineData
               /\ Like(ms[m], ns[m]) /\ (ns[m].deleteFirst => ms[m].deleteFirst)
               /\ ns[m].agentHealthy = ms[m].agentHealthy /\ ns[m].node = ms[m].node
    <3>1. ms[m] \in MachineData
      BY ListFacts
    <3>2. PICK d \in MachineData : d = ms[m]
      BY <3>1
    <3>3. ns[m] = [d EXCEPT !.hook = "set"] \/ ns[m] = d
      BY <1>2, <3>2
    <3>4. QED
      BY <3>2, <3>3 DEF MachineData, Like
  <2>3. DOMAIN ms \subseteq Machine
    BY ListFacts
  <2>4. ns \in Lists
    BY <2>1, <2>2, <2>3, ListOf
  <2>5. QED
    BY <2>1, <2>2, <2>4 DEF Kept, HealthKept, MarksKept
<1> HIDE DEF Hooked
<1>3. /\ machines' \in Lists /\ Kept(machines, machines') /\ HealthKept(machines, machines')
      /\ \A m \in DOMAIN machines : machines'[m].node = machines[m].node
  BY <1>1, <1>2
<1>4. CASE Replied(o) /\ due \subseteq DOMAIN machines
  <2>1. rc.seen \in Lists
    BY DEF Reconciles
  <2>2. PICK ns : ns = Hooked(rc.seen, due)
    OBVIOUS
  <2>3. /\ ns \in Lists /\ Kept(rc.seen, ns) /\ HealthKept(rc.seen, ns) /\ MarksKept(rc.seen, ns)
        /\ \A m \in DOMAIN rc.seen : ns[m].node = rc.seen[m].node
    BY <1>2, <2>1, <2>2
  <2>4. rc' = [rc EXCEPT !.pc = "conditions", !.seen = ns]
    BY <1>1, <1>4, <2>2
  <2>5. rc' \in Reconciles /\ rc'.kcp = rc.kcp /\ rc'.pc = "conditions" /\ rc'.seen = ns
    BY <2>3, <2>4 DEF Reconciles, Steps
  <2>6. QED
    BY <1>3, <2>3, <2>5
<1>5. CASE ~(Replied(o) /\ due \subseteq DOMAIN machines)
  <2>1. Goto("patch")
    BY <1>1, <1>5 DEF Goto
  <2>2. QED
    BY <1>3, <2>1, GotoType DEF Steps
<1>6. QED
  BY <1>4, <1>5

\* UpdateAgentConditions changes AgentHealthy only; a machine is found healthy if
\* it has a node that can be reached or, not ready, was not noticed.
LEMMA AgentConditions ==
  ASSUME machines \in Lists, NEW ms \in Lists, NEW ns, ns = UpdateAgentConditions(ms)
  PROVE  /\ ns \in Lists /\ Kept(ms, ns) /\ MarksKept(ms, ns)
         /\ \A m \in DOMAIN ms : ns[m].node = ms[m].node
         /\ Known(ms) => /\ Known(ns)
                         /\ \A m \in DOMAIN ms \cap DOMAIN machines : ns[m].agentHealthy => Reachable(m)
<1> DEFINE Node(m) == IF m \in DOMAIN machines THEN machines[m].node ELSE "removed"
           Healthy(m) ==
             IF ReadyNodes = {} THEN FALSE
             ELSE IF ~HasNode(ms, m) THEN ms[m].agentHealthy
             ELSE IF Node(m) = "notReady" /\ ~ms[m].deleting THEN ms[m].agentHealthy
             ELSE Node(m) = "ready" /\ ~ms[m].deleting
<1>1. ns = [m \in DOMAIN ms |-> [ms[m] EXCEPT !.agentHealthy = Healthy(m)]]
  BY DEF UpdateAgentConditions
<1>2. \A m \in DOMAIN ms : ms[m] \in MachineData /\ ms[m].agentHealthy \in BOOLEAN
  BY ListFacts DEF MachineData
<1>3. \A m \in DOMAIN ms : Healthy(m) \in BOOLEAN
  BY <1>2
<1>4. \A m \in DOMAIN ms : Known(ms) /\ Healthy(m) =>
          ms[m].node # "none" /\ (m \in DOMAIN machines => Reachable(m))
  BY DEF Known, HasNode, Reachable
<1> HIDE DEF Healthy
<1>5. DOMAIN ns = DOMAIN ms /\ ns = [m \in DOMAIN ns |-> ns[m]]
  BY <1>1
<1>6. ASSUME NEW m \in DOMAIN ms
      PROVE  /\ ns[m] \in MachineData /\ Like(ms[m], ns[m]) /\ ns[m].node = ms[m].node
             /\ ns[m].deleteFirst => ms[m].deleteFirst
             /\ ns[m].agentHealthy = Healthy(m)
  <2>1. PICK d \in MachineData, h \in BOOLEAN : d = ms[m] /\ h = Healthy(m)
    BY <1>2, <1>3
  <2>2. ns[m] = [d EXCEPT !.agentHealthy = h]
    BY <1>1, <2>1
  <2>3. QED
    BY <2>1, <2>2 DEF MachineData, Like
<1>7. DOMAIN ms \subseteq Machine
  BY ListFacts
<1>8. ns \in Lists
  BY <1>5, <1>6, <1>7, ListOf
<1>9. QED
  BY <1>4, <1>5, <1>6, <1>8 DEF Kept, MarksKept, Known

LEMMA ConditionsEffect ==
  ASSUME machines \in Lists, rc \in Reconciles, ReconcileConditions
  PROVE  /\ machines' \in Lists /\ Kept(machines, machines')
         /\ \A m \in DOMAIN machines :
              /\ machines'[m].node = machines[m].node
              /\ \/ machines'[m].agentHealthy = machines[m].agentHealthy
                 \/ m \in DOMAIN rc.seen /\ machines'[m].agentHealthy = rc'.seen[m].agentHealthy
         /\ rc' \in Reconciles /\ rc'.kcp = rc.kcp
         /\ rc'.pc \in {"decide", "deleteAll", "patch"}
         /\ rc'.pc = "deleteAll" => rc.kcp.state # "live"
         /\ Kept(rc.seen, rc'.seen) /\ MarksKept(rc.seen, rc'.seen)
         /\ \A m \in DOMAIN rc.seen : rc'.seen[m].node = rc.seen[m].node
         /\ ~rc.kcp.initialized => rc'.seen = rc.seen
         /\ Known(rc.seen) => Known(rc'.seen)
         /\ Known(rc.seen) /\ rc.kcp.initialized =>
              \A m \in DOMAIN rc.seen \cap DOMAIN machines : rc'.seen[m].agentHealthy => Reachable(m)
<1> DEFINE seen == IF rc.kcp.initialized THEN UpdateAgentConditions(rc.seen) ELSE rc.seen
           due  == {m \in DOMAIN seen : seen[m] # rc.seen[m]}
           next == IF rc.kcp.state = "live" THEN "decide" ELSE IF workers THEN "patch" ELSE "deleteAll"
<1>1. PICK o \in {"ok", "error"}, done \in SUBSET due :
            /\ machines' = [m \in DOMAIN machines |->
                   IF m \in done THEN [machines[m] EXCEPT !.agentHealthy = seen[m].agentHealthy] ELSE machines[m]]
            /\ rc' = [rc EXCEPT !.pc = IF rc.kcp.state = "live" /\ ~(Replied(o) /\ due \subseteq DOMAIN machines)
                                       THEN "patch" ELSE next,
                                !.seen = seen]
  BY DEF ReconcileConditions
<1>2. rc.seen \in Lists
  BY DEF Reconciles
<1>3. /\ seen \in Lists /\ Kept(rc.seen, seen) /\ MarksKept(rc.seen, seen)
      /\ \A m \in DOMAIN rc.seen : seen[m].node = rc.seen[m].node
      /\ ~rc.kcp.initialized => seen = rc.seen
      /\ Known(rc.seen) => Known(seen)
      /\ Known(rc.seen) /\ rc.kcp.initialized =>
           \A m \in DOMAIN rc.seen \cap DOMAIN machines : seen[m].agentHealthy => Reachable(m)
  <2>1. CASE rc.kcp.initialized
    <3>1. seen = UpdateAgentConditions(rc.seen)
      BY <2>1
    <3>2. QED
      BY <1>2, <2>1, <3>1, AgentConditions
  <2>2. CASE ~rc.kcp.initialized
    BY <1>2, <2>2 DEF Kept, Like, MarksKept
  <2>3. QED
    BY <2>1, <2>2
<1>4. done \subseteq DOMAIN seen
  BY <1>1
<1>5. PICK step \in {"decide", "deleteAll", "patch"} :
            /\ step = "deleteAll" => rc.kcp.state # "live"
            /\ rc' = [rc EXCEPT !.pc = step, !.seen = seen]
  BY <1>1
<1> HIDE DEF seen, due, next
<1>6. rc' \in Reconciles /\ rc'.kcp = rc.kcp /\ rc'.pc = step /\ rc'.seen = seen
  BY <1>3, <1>5 DEF Reconciles, Steps
<1>7. DOMAIN machines' = DOMAIN machines /\ machines' = [m \in DOMAIN machines' |-> machines'[m]]
  BY <1>1
<1>8. ASSUME NEW m \in DOMAIN machines
      PROVE  /\ machines'[m] \in MachineData /\ Like(machines[m], machines'[m])
             /\ machines'[m].node = machines[m].node
             /\ \/ machines'[m].agentHealthy = machines[m].agentHealthy
                \/ m \in DOMAIN rc.seen /\ machines'[m].agentHealthy = seen[m].agentHealthy
  <2>1. PICK d \in MachineData : d = machines[m]
    BY ListFacts
  <2>2. CASE machines'[m] = d
    BY <2>1, <2>2 DEF Like
  <2>3. CASE m \in DOMAIN seen /\ machines'[m] = [d EXCEPT !.agentHealthy = seen[m].agentHealthy]
    <3>1. PICK h \in BOOLEAN : h = seen[m].agentHealthy
      BY <1>3, <2>3, ListFacts DEF MachineData
    <3>2. machines'[m] = [d EXCEPT !.agentHealthy = h]
      BY <2>3, <3>1
    <3>3. /\ machines'[m] \in MachineData /\ Like(d, machines'[m]) /\ machines'[m].node = d.node
          /\ machines'[m].agentHealthy = h
      BY <3>2 DEF MachineData, Like
    <3>4. QED
      BY <1>3, <2>1, <2>3, <3>1, <3>3 DEF Kept, Like
  <2>4. QED
    BY <1>1, <1>4, <2>1, <2>2, <2>3
<1>9. DOMAIN machines \subseteq Machine
  BY ListFacts
<1>10. machines' \in Lists
  BY <1>7, <1>8, <1>9, ListOf
<1>11. QED
  BY <1>3, <1>5, <1>6, <1>7, <1>8, <1>10 DEF Kept, Like

\* RemoveMachineFromCluster takes out the node of its target.
LEMMA RemoveEffect ==
  ASSUME machines \in Lists, rc \in Reconciles, RemoveNode
  PROVE  /\ machines' \in Lists /\ Kept(machines, machines') /\ HealthKept(machines, machines')
         /\ \A n \in DOMAIN machines : \/ machines'[n].node = machines[n].node
                                       \/ n = rc.target /\ machines'[n].node = "removed"
         /\ rc' \in Reconciles /\ rc'.pc \in {"delete", "patch"}
         /\ rc'.kcp = rc.kcp /\ rc'.target = rc.target /\ rc'.why = rc.why /\ rc'.data = rc.data
<1>1. /\ rc' \in Reconciles /\ rc'.pc \in {"delete", "patch"}
      /\ rc'.kcp = rc.kcp /\ rc'.target = rc.target /\ rc'.why = rc.why /\ rc'.data = rc.data
  <2>1. PICK step \in {"delete", "patch"} : Goto(step)
    BY DEF RemoveNode, GotoOrEnd
  <2>2. QED
    BY <2>1, GotoType DEF Steps
<1>2. \/ machines' = machines
      \/ rc.target \in DOMAIN machines /\ machines' = [machines EXCEPT ![rc.target].node = "removed"]
  BY DEF RemoveNode
<1>3. CASE machines' = machines
  BY <1>1, <1>3 DEF Kept, Like, HealthKept
<1>4. CASE rc.target \in DOMAIN machines /\ machines' = [machines EXCEPT ![rc.target].node = "removed"]
  <2>1. PICK m \in DOMAIN machines : m = rc.target
    BY <1>4
  <2> DEFINE d == [machines[m] EXCEPT !.node = "removed"]
  <2>2. machines[m] \in MachineData
    BY ListFacts
  <2>3. machines' = [machines EXCEPT ![m] = d]
    BY <1>4, <2>1
  <2>4. /\ d \in MachineData
        /\ Like(machines[m], d)
        /\ d.agentHealthy = machines[m].agentHealthy /\ d.node = "removed"
    BY <2>2 DEF MachineData, NodeStates, Like
  <2> HIDE DEF d
  <2>5. /\ machines' \in Lists /\ DOMAIN machines' = DOMAIN machines
        /\ machines'[m] = d /\ \A n \in DOMAIN machines \ {m} : machines'[n] = machines[n]
    BY <2>3, <2>4, ListWith
  <2>6. QED
    BY <1>1, <2>1, <2>4, <2>5 DEF Kept, Like, HealthKept
<1>5. QED
  BY <1>2, <1>3, <1>4

\* The annotation of a remediation is all that a reconcile changes of what it
\* read of the CK8sControlPlane.
SameSpec(k, l) ==
    /\ l.state = k.state /\ l.finalizer = k.finalizer /\ l.initialized = k.initialized
    /\ l.replicas = k.replicas /\ l.revision = k.revision

LEMMA NoteType ==
  ASSUME rc \in Reconciles, NEW data \in RemediationData, NEW step \in Steps,
         rc' = [rc EXCEPT !.pc = step, !.kcp.remediationInProgress = data]
  PROVE  /\ rc' \in Reconciles /\ rc'.pc = step /\ SameSpec(rc.kcp, rc'.kcp) /\ rc'.target = rc.target
         /\ rc'.kcp.remediationInProgress = data
<1> DEFINE k == [rc.kcp EXCEPT !.remediationInProgress = data]
<1>1. rc.kcp \in ControlPlane
  BY DEF Reconciles
<1>2. k \in ControlPlane /\ SameSpec(rc.kcp, k) /\ k.remediationInProgress = data
  BY <1>1 DEF ControlPlane, SameSpec
<1>3. rc' = [rc EXCEPT !.pc = step, !.kcp = k]
  OBVIOUS
<1> HIDE DEF k
<1>4. rc' \in Reconciles /\ rc'.pc = step /\ rc'.kcp = k /\ rc'.target = rc.target
  BY <1>2, <1>3 DEF Reconciles
<1>5. QED
  BY <1>2, <1>4

\* Delete marks its target, and notes a remediation.
LEMMA DeleteEffect ==
  ASSUME machines \in Lists, rc \in Reconciles, DeleteMachine
  PROVE  /\ machines' \in Lists /\ DOMAIN machines' = DOMAIN machines
         /\ \A n \in DOMAIN machines :
              /\ machines'[n].revision = machines[n].revision /\ machines'[n].node = machines[n].node
              /\ machines'[n].domain = machines[n].domain
              /\ machines'[n].remediationFor = machines[n].remediationFor
              /\ machines'[n].agentHealthy = machines[n].agentHealthy
              /\ \/ machines'[n].deleting = machines[n].deleting
                 \/ n = rc.target /\ machines'[n].deleting
         /\ rc' \in Reconciles /\ rc'.pc = "patch" /\ SameSpec(rc.kcp, rc'.kcp)
<1>1. rc' \in Reconciles /\ rc'.pc = "patch" /\ SameSpec(rc.kcp, rc'.kcp)
  <2>1. rc.data \in RemediationData /\ rc.kcp.remediationInProgress \in RemediationData
    BY DEF Reconciles, ControlPlane
  <2>2. PICK data \in RemediationData : rc' = [rc EXCEPT !.pc = "patch", !.kcp.remediationInProgress = data]
    BY <2>1 DEF DeleteMachine
  <2>3. QED
    BY <2>2, NoteType DEF Steps
<1>2. \/ machines' = machines
      \/ rc.target \in DOMAIN machines /\ machines' = [machines EXCEPT ![rc.target].deleting = TRUE]
  BY DEF DeleteMachine
<1>3. CASE machines' = machines
  BY <1>1, <1>3
<1>4. CASE rc.target \in DOMAIN machines /\ machines' = [machines EXCEPT ![rc.target].deleting = TRUE]
  <2>1. PICK m \in DOMAIN machines : m = rc.target
    BY <1>4
  <2> DEFINE d == [machines[m] EXCEPT !.deleting = TRUE]
  <2>2. machines[m] \in MachineData
    BY ListFacts
  <2>3. machines' = [machines EXCEPT ![m] = d]
    BY <1>4, <2>1
  <2>4. /\ d \in MachineData
        /\ d.deleting /\ d.revision = machines[m].revision /\ d.domain = machines[m].domain
        /\ d.remediationFor = machines[m].remediationFor
        /\ d.agentHealthy = machines[m].agentHealthy /\ d.node = machines[m].node
    BY <2>2 DEF MachineData
  <2> HIDE DEF d
  <2>5. /\ machines' \in Lists /\ DOMAIN machines' = DOMAIN machines
        /\ machines'[m] = d /\ \A n \in DOMAIN machines \ {m} : machines'[n] = machines[n]
    BY <2>3, <2>4, ListWith
  <2>6. QED
    BY <1>1, <2>1, <2>4, <2>5
<1>5. QED
  BY <1>2, <1>3, <1>4

LEMMA DeleteAllEffect ==
  ASSUME machines \in Lists, rc \in Reconciles, DeleteAllMachines
  PROVE  /\ machines' \in Lists /\ DOMAIN machines' = DOMAIN machines
         /\ \A n \in DOMAIN machines :
              /\ machines'[n].revision = machines[n].revision /\ machines'[n].node = machines[n].node
              /\ machines'[n].domain = machines[n].domain
              /\ machines'[n].remediationFor = machines[n].remediationFor
              /\ machines'[n].agentHealthy = machines[n].agentHealthy
              /\ machines[n].deleting => machines'[n].deleting
         /\ rc' \in Reconciles /\ rc'.pc = "patch" /\ rc'.kcp = rc.kcp
<1>1. rc' \in Reconciles /\ rc'.pc = "patch" /\ rc'.kcp = rc.kcp
  <2>1. Goto("patch")
    BY DEF DeleteAllMachines
  <2>2. QED
    BY <2>1, GotoType DEF Steps
<1>2. PICK failed :
         machines' = [m \in DOMAIN machines |->
                IF m \in DOMAIN rc.seen \ failed THEN [machines[m] EXCEPT !.deleting = TRUE] ELSE machines[m]]
  BY DEF DeleteAllMachines
<1>3. DOMAIN machines' = DOMAIN machines /\ machines' = [m \in DOMAIN machines' |-> machines'[m]]
  BY <1>2
<1>4. ASSUME NEW n \in DOMAIN machines
      PROVE  /\ machines'[n] \in MachineData
             /\ machines'[n].revision = machines[n].revision /\ machines'[n].node = machines[n].node
             /\ machines'[n].domain = machines[n].domain
             /\ machines'[n].remediationFor = machines[n].remediationFor
             /\ machines'[n].agentHealthy = machines[n].agentHealthy
             /\ machines[n].deleting => machines'[n].deleting
  <2>1. PICK d \in MachineData : d = machines[n]
    BY ListFacts
  <2>2. machines'[n] = [d EXCEPT !.deleting = TRUE] \/ machines'[n] = d
    BY <1>2, <2>1
  <2>3. QED
    BY <2>1, <2>2 DEF MachineData
<1>5. DOMAIN machines \subseteq Machine
  BY ListFacts
<1>6. machines' \in Lists
  BY <1>3, <1>4, <1>5, ListOf
<1>7. QED
  BY <1>1, <1>3, <1>4, <1>6

\* A machine that is gone leaves the others alone.
LEMMA FinishEffect ==
  ASSUME machines \in Lists, NEW m \in DOMAIN machines, FinishDelete(m)
  PROVE  /\ machines' \in Lists /\ DOMAIN machines' = DOMAIN machines \ {m}
         /\ \A n \in DOMAIN machines' : machines'[n] = machines[n]
<1>1. machines' = [n \in DOMAIN machines \ {m} |-> machines[n]]
  BY DEF FinishDelete
<1>2. DOMAIN machines' = DOMAIN machines \ {m} /\ machines' = [n \in DOMAIN machines' |-> machines'[n]]
  BY <1>1
<1>3. \A n \in DOMAIN machines' : machines'[n] = machines[n]
  BY <1>1
<1>4. DOMAIN machines \subseteq Machine /\ \A n \in DOMAIN machines : machines[n] \in MachineData
  BY ListFacts
<1>5. machines' \in Lists
  BY <1>2, <1>3, <1>4, ListOf
<1>6. QED
  BY <1>2, <1>3, <1>5

\* The machine created is new; when the call fails nothing is created, unless
\* its reply was lost.
LEMMA CreateEffect ==
  ASSUME machines \in Lists, rc \in Reconciles, rc.target \in Machine, CreateMachine
  PROVE  /\ machines' \in Lists
         /\ \/ machines' = machines
            \/ /\ DOMAIN machines' = DOMAIN machines \cup {rc.target}
               /\ \A n \in DOMAIN machines : machines'[n] = machines[n]
               /\ rc.target \notin DOMAIN machines =>
                    /\ ~machines'[rc.target].deleting /\ ~machines'[rc.target].agentHealthy
                    /\ machines'[rc.target].revision = rc.kcp.revision
                    /\ machines'[rc.target].domain = rc.domain
                    /\ machines'[rc.target].remediationFor = rc.kcp.remediationInProgress
         /\ rc' \in Reconciles /\ rc'.target = rc.target /\ SameSpec(rc.kcp, rc'.kcp)
         /\ rc'.pc \in {"patch", "cleanup"}
         /\ rc'.pc = "cleanup" /\ "machine" \notin LostReplies => machines' = machines
<1>1. PICK o \in Outcomes("machine") :
         /\ IF Took(o)
            THEN machines' = [m \in DOMAIN machines \cup {rc.target} |->
                                IF m \in DOMAIN machines THEN machines[m] ELSE NewMachine]
            ELSE machines' = machines
         /\ IF Replied(o)
            THEN rc' = [rc EXCEPT !.pc = "patch", !.kcp.remediationInProgress = NoData]
            ELSE CleanUp({"infra", "config"})
  BY DEF CreateMachine
<1>2. /\ rc' \in Reconciles /\ rc'.target = rc.target /\ SameSpec(rc.kcp, rc'.kcp)
      /\ rc'.pc = (IF Replied(o) THEN "patch" ELSE "cleanup")
  <2>1. CASE Replied(o)
    BY <1>1, <2>1, NoteType, IdleType DEF Steps
  <2>2. CASE ~Replied(o)
    <3>1. CleanUp({"infra", "config"})
      BY <1>1, <2>2
    <3>2. QED
      BY <2>2, <3>1, CleanUpType DEF SameSpec
  <2>3. QED
    BY <2>1, <2>2
<1>3. rc'.pc = "cleanup" /\ "machine" \notin LostReplies => machines' = machines
  BY <1>1, <1>2 DEF Took, Replied, Outcomes
<1>4. CASE machines' = machines
  BY <1>2, <1>3, <1>4
<1>5. CASE machines' = [m \in DOMAIN machines \cup {rc.target} |->
                          IF m \in DOMAIN machines THEN machines[m] ELSE NewMachine]
  <2>1. /\ DOMAIN machines' = DOMAIN machines \cup {rc.target}
        /\ machines' = [m \in DOMAIN machines' |-> machines'[m]]
        /\ \A n \in DOMAIN machines : machines'[n] = machines[n]
        /\ rc.target \notin DOMAIN machines => machines'[rc.target] = NewMachine
    BY <1>5
  <2>2. /\ NewMachine \in MachineData /\ ~NewMachine.deleting /\ ~NewMachine.agentHealthy
        /\ NewMachine.revision = rc.kcp.revision /\ NewMachine.domain = rc.domain
        /\ NewMachine.remediationFor = rc.kcp.remediationInProgress
    <3>1. /\ rc.kcp.revision \in 0..MaxEdits /\ rc.kcp.remediationInProgress \in RemediationData
          /\ rc.domain \in FailureDomains \cup {NoDomain}
      BY DEF Reconciles, ControlPlane
    <3>2. QED
      BY <3>1 DEF NewMachine, MachineData, NodeStates
  <2>3. DOMAIN machines \subseteq Machine /\ \A n \in DOMAIN machines : machines[n] \in MachineData
    BY ListFacts
  <2>4. DOMAIN machines' \subseteq Machine
    BY <2>1, <2>3
  <2>5. \A n \in DOMAIN machines' : machines'[n] \in MachineData
    BY <2>1, <2>2, <2>3
  <2>6. machines' \in Lists
    BY <2>1, <2>4, <2>5, ListOf
  <2>7. QED
    BY <1>2, <1>3, <2>1, <2>2, <2>6
<1>6. QED
  BY <1>1, <1>4, <1>5

\* The patch writes the finalizer and the annotation, and what the workload
\* cluster tells is only ever added to the status.
LEMMA PatchEffect ==
  ASSUME kcp \in ControlPlane, rc \in Reconciles, PatchControlPlane
  PROVE  /\ kcp' \in ControlPlane /\ kcp'.revision = kcp.revision
         /\ kcp.initialized => kcp'.initialized
         /\ \/ kcp' = kcp
            \/ /\ kcp'.finalizer = rc.kcp.finalizer
               /\ kcp'.state = IF rc.kcp.finalizer THEN kcp.state ELSE "gone"
<1>1. rc.kcp \in ControlPlane
  BY DEF Reconciles
<1> DEFINE s == IF rc.kcp.finalizer THEN kcp.state ELSE "gone"
           k == [kcp EXCEPT !.remediationInProgress = rc.kcp.remediationInProgress,
                            !.finalizer = rc.kcp.finalizer, !.state = s]
<1>2. s \in {"live", "deleting", "gone"}
  BY DEF ControlPlane
<1>3. PICK o : kcp' = IF Took(o) \/ o = "noStatus" THEN updateStatus(k, o # "noStatus") ELSE kcp
  BY DEF PatchControlPlane
<1>4. /\ k \in ControlPlane /\ k.revision = kcp.revision /\ k.initialized = kcp.initialized
      /\ k.finalizer = rc.kcp.finalizer /\ k.state = s
  <2>1. /\ rc.kcp.remediationInProgress \in RemediationData /\ rc.kcp.finalizer \in BOOLEAN
    BY <1>1 DEF ControlPlane
  <2> HIDE DEF s
  <2>2. QED
    BY <1>2, <2>1 DEF ControlPlane
<1> HIDE DEF k
<1>5. CASE kcp' = kcp
  BY <1>5
<1>6. ASSUME NEW answered \in BOOLEAN, kcp' = updateStatus(k, answered)
      PROVE  /\ kcp' \in ControlPlane /\ kcp'.revision = k.revision
             /\ k.initialized => kcp'.initialized
             /\ kcp'.finalizer = k.finalizer /\ kcp'.state = k.state
  <2> DEFINE asked == answered /\ rc.kcp.state = "live" /\ ReadyNodes # {}
  <2>1. kcp' = [k EXCEPT !.initialized = k.initialized \/ (asked /\ formed), !.ready = k.ready \/ asked]
    BY <1>6 DEF updateStatus
  <2>2. /\ (k.initialized \/ (asked /\ formed)) \in BOOLEAN
        /\ (k.ready \/ asked) \in BOOLEAN
    OBVIOUS
  <2>3. PICK i \in BOOLEAN, r \in BOOLEAN : (k.initialized => i) /\ kcp' = [k EXCEPT !.initialized = i, !.ready = r]
    BY <2>1, <2>2
  <2>4. QED
    BY <1>4, <2>3 DEF ControlPlane
<1>7. (o # "noStatus") \in BOOLEAN
  OBVIOUS
<1>8. CASE kcp' = updateStatus(k, o # "noStatus")
  <2>1. /\ kcp' \in ControlPlane /\ kcp'.revision = k.revision
        /\ k.initialized => kcp'.initialized
        /\ kcp'.finalizer = k.finalizer /\ kcp'.state = k.state
    BY <1>6, <1>7, <1>8
  <2>2. QED
    BY <1>4, <2>1
<1>9. QED
  BY <1>3, <1>5, <1>8

\* A decision starts a deletion, starts a clone, or ends the reconcile.
Decision == \/ Remediate \/ InitializeControlPlane \/ ScaleUpControlPlane
            \/ ScaleDownControlPlane \/ NothingToDo

LEMMA DecisionType ==
  ASSUME TypeInv, Decision
  PROVE  /\ rc' \in Reconciles /\ cache' \in Lists
         /\ rc'.pc \in {"remove", "delete", "infra", "patch", "idle"}
         /\ OnlyLocal
<1>1. /\ cache \in Lists /\ rc \in Reconciles /\ now \in 0..MaxClock /\ machines \in Lists
  BY DEF TypeInv
<1>2. rc.seen \in Lists
  BY <1>1 DEF Reconciles
<1>3. /\ DOMAIN rc.seen \subseteq Machine /\ \A m \in DOMAIN rc.seen : rc.seen[m] \in MachineData
  BY <1>2, ListFacts
<1>4. GetMachinesForCluster \subseteq Lists
  BY <1>1 DEF GetMachinesForCluster
<1>5. rc' \in Reconciles /\ cache' \in Lists /\ rc'.pc \in {"remove", "delete", "infra", "patch", "idle"}
  <2>1. CASE Remediate
    <3>1. PICK m \in UnhealthyMachines(rc.seen) :
              LET limits == checkRetryLimits(rc.seen[m].remediationFor, Strategy, now)
              IN  Take(m, "remediate", [machine |-> m, time |-> now, retry |-> limits.retry])
      BY <2>1 DEF Remediate, reconcileUnhealthyMachines
    <3>2. m \in Machine /\ rc.seen[m].remediationFor \in RemediationData
      BY <1>3 DEF UnhealthyMachines, MachineData
    <3>3. PICK r \in Nat : r = checkRetryLimits(rc.seen[m].remediationFor, Strategy, now).retry
      BY <3>2, RetryCounted
    <3>4. PICK data \in RemediationData : Take(m, "remediate", data)
      <4>1. [machine |-> m, time |-> now, retry |-> r] \in RemediationData
        BY <1>1, <3>2, <3>3 DEF RemediationData, Machine
      <4>2. QED
        BY <3>1, <3>3, <4>1
    <3>5. rc' \in Reconciles /\ rc'.pc \in {"remove", "delete"}
      BY <1>1, <3>2, <3>4, TakeType
    <3>6. QED
      BY <1>1, <2>1, <3>5 DEF Remediate
  <2>2. CASE InitializeControlPlane
    <3>1. cache' \in Lists
      BY <1>1, <1>4, <2>2 DEF InitializeControlPlane
    <3>2. CASE \E fd \in NextFailureDomainForScaleUp(rc.seen, rc.kcp.revision) : Clone(fd)
      BY <1>1, <3>1, <3>2, DomainChosen, CloneType
    <3>3. CASE Goto("patch")
      BY <1>1, <3>1, <3>3, GotoType DEF Steps
    <3>4. QED
      BY <2>2, <3>2, <3>3 DEF InitializeControlPlane
  <2>3. CASE ScaleUpControlPlane
    <3>1. cache' = cache
      BY <2>3 DEF ScaleUpControlPlane
    <3>2. CASE \E fd \in NextFailureDomainForScaleUp(rc.seen, rc.kcp.revision) : Clone(fd)
      BY <1>1, <3>1, <3>2, DomainChosen, CloneType
    <3>3. CASE Goto("patch")
      BY <1>1, <3>1, <3>3, GotoType DEF Steps
    <3>4. QED
      BY <2>3, <3>2, <3>3 DEF ScaleUpControlPlane
  <2>4. CASE ScaleDownControlPlane
    <3> DEFINE outdated == MachinesNeedingRollout(rc.seen, rc.kcp.revision)
    <3>1. PICK m \in selectMachineForScaleDown(rc.seen, outdated) :
              Take(m, "scaleDown", NoData) \/ Goto("patch")
      BY <2>4 DEF ScaleDownControlPlane
    <3>2. outdated \subseteq DOMAIN rc.seen
      BY DEF MachinesNeedingRollout
    <3> HIDE DEF outdated
    <3>3. m \in Machine
      BY <1>2, <1>3, <3>1, <3>2, SelectedListed
    <3>4. rc' \in Reconciles /\ rc'.pc \in {"remove", "delete", "patch"}
      <4>1. CASE Take(m, "scaleDown", NoData)
        BY <1>1, <3>3, <4>1, TakeType, IdleType
      <4>2. CASE Goto("patch")
        BY <1>1, <4>2, GotoType DEF Steps
      <4>3. QED
        BY <3>1, <4>1, <4>2
    <3>5. QED
      BY <1>1, <2>4, <3>4 DEF ScaleDownControlPlane
  <2>5. CASE NothingToDo
    <3>1. cache' = cache
      BY <2>5 DEF NothingToDo
    <3>2. CASE Goto("patch")
      BY <1>1, <3>1, <3>2, GotoType DEF Steps
    <3>3. CASE rc' = Idle
      <4>1. Idle.pc = "idle"
        BY DEF Idle
      <4>2. QED
        BY <1>1, <3>1, <3>3, <4>1, IdleType
    <3>4. QED
      BY <2>5, <3>2, <3>3 DEF NothingToDo
  <2>6. QED
    BY <2>1, <2>2, <2>3, <2>4, <2>5 DEF Decision
<1>6. OnlyLocal
  BY DEF Decision, Remediate, InitializeControlPlane, ScaleUpControlPlane, ScaleDownControlPlane, NothingToDo
<1>7. QED
  BY <1>5, <1>6

\* Every step of the reconcile, of the other controllers and of users keeps the
\* types: in particular the machine numbers in the lists, the annotations and the
\* target are the ones handed out.
LEMMA TypeStep == TypeInv /\ [Next]_vars => TypeInv'
<1> SUFFICES ASSUME TypeInv, [Next]_vars PROVE TypeInv'
  OBVIOUS
<1>1. /\ kcp \in ControlPlane /\ machines \in Lists /\ cache \in Lists /\ rc \in Reconciles
      /\ DOMAIN machines \subseteq 1..last /\ infra \subseteq 1..last /\ config \subseteq 1..last
      /\ workers \in BOOLEAN /\ formed \in BOOLEAN
      /\ last \in 0..MaxMachines /\ now \in 0..MaxClock /\ edits \in 0..MaxEdits
      /\ kcp.revision <= edits
      /\ rc.pc \in {"config", "machine"} => rc.target \in 1..last
  BY DEF TypeInv
<1>2. /\ rc.pc \in Steps /\ rc.kcp \in ControlPlane /\ rc.seen \in Lists
      /\ rc.target \in 0..MaxMachines /\ rc.domain \in FailureDomains \cup {NoDomain}
      /\ rc.data \in RemediationData /\ rc.parts \subseteq {"infra", "config"}
  BY <1>1 DEF Reconciles
<1>3. /\ machines = [m \in DOMAIN machines |-> machines[m]]
      /\ DOMAIN machines \subseteq Machine /\ DOMAIN machines \subseteq Nat
      /\ \A m \in DOMAIN machines : machines[m] \in MachineData
  BY <1>1, ListFacts
<1>4. /\ rc.seen = [m \in DOMAIN rc.seen |-> rc.seen[m]]
      /\ DOMAIN rc.seen \subseteq Machine /\ DOMAIN rc.seen \subseteq Nat
      /\ \A m \in DOMAIN rc.seen : rc.seen[m] \in MachineData
  BY <1>2, ListFacts
<1>5. GetMachinesForCluster \subseteq Lists
  BY <1>1 DEF GetMachinesForCluster
<1>6. CASE AddFinalizer
  <2>1. PICK b \in BOOLEAN : kcp' = [kcp EXCEPT !.finalizer = b]
    <3>1. PICK o \in Outcomes("finalizer") : kcp' = [kcp EXCEPT !.finalizer = Took(o)]
      BY <1>6 DEF AddFinalizer
    <3>2. Took(o) \in BOOLEAN
      BY DEF Took
    <3>3. QED
      BY <3>1, <3>2
  <2>2. kcp' \in ControlPlane /\ kcp'.revision = kcp.revision
    BY <1>1, <2>1 DEF ControlPlane
  <2>3. QED
    BY <1>1, <1>6, <2>2 DEF AddFinalizer, TypeInv, bounds
<1>7. CASE StartReconcile
  <2>1. PICK seen \in Lists : Start("sync", kcp, seen)
    BY <1>5, <1>7 DEF StartReconcile
  <2>2. rc' \in Reconciles /\ rc'.pc = "sync"
    BY <1>1, <2>1, StartType DEF Steps
  <2>3. QED
    BY <1>1, <2>1, <2>2 DEF Start, TypeInv, bounds, objects
<1>8. CASE StartDelete
  <2>1. PICK step \in {"patch", "conditions"}, k \in ControlPlane, seen \in Lists : Start(step, k, seen)
    <3>1. [kcp EXCEPT !.finalizer = FALSE] \in ControlPlane
      BY <1>1 DEF ControlPlane
    <3>2. QED
      BY <1>1, <1>5, <1>8, <3>1 DEF StartDelete
  <2>2. rc' \in Reconciles /\ rc'.pc = step
    BY <2>1, StartType DEF Steps
  <2>3. QED
    BY <1>1, <2>1, <2>2 DEF Start, TypeInv, bounds, objects
<1>9. CASE SyncMachines
  <2>1. machines' \in Lists /\ DOMAIN machines' = DOMAIN machines
    BY <1>1, <1>9, SyncEffect DEF Kept, Like
  <2>2. rc' \in Reconciles /\ rc'.pc \in {"patch", "conditions"}
    BY <1>1, <1>9, SyncEffect
  <2>3. QED
    BY <1>1, <1>9, <2>1, <2>2 DEF SyncMachines, TypeInv, bounds
<1>10. CASE ReconcileConditions
  <2>1. machines' \in Lists /\ DOMAIN machines' = DOMAIN machines
    BY <1>1, <1>10, ConditionsEffect DEF Kept, Like
  <2>2. rc' \in Reconciles /\ rc'.pc \in {"patch", "decide", "deleteAll"}
    BY <1>1, <1>10, ConditionsEffect
  <2>3. QED
    BY <1>1, <1>10, <2>1, <2>2 DEF ReconcileConditions, TypeInv, bounds
<1>11. CASE Decision
  <2>1. rc' \in Reconciles /\ rc'.pc \notin {"config", "machine"} /\ cache' \in Lists /\ OnlyLocal
    BY <1>11, DecisionType
  <2>2. QED
    BY <1>1, <2>1 DEF OnlyLocal, objects, bounds, TypeInv
<1>12. CASE RemoveNode
  <2>1. machines' \in Lists /\ DOMAIN machines' = DOMAIN machines
    BY <1>1, <1>12, RemoveEffect DEF Kept, Like
  <2>2. rc' \in Reconciles /\ rc'.pc \in {"delete", "patch"}
    BY <1>1, <1>12, RemoveEffect
  <2>3. QED
    BY <1>1, <1>12, <2>1, <2>2 DEF RemoveNode, TypeInv, bounds
<1>13. CASE DeleteMachine
  <2>1. machines' \in Lists /\ DOMAIN machines' = DOMAIN machines /\ rc' \in Reconciles /\ rc'.pc = "patch"
    BY <1>1, <1>13, DeleteEffect
  <2>2. QED
    BY <1>1, <1>13, <2>1 DEF DeleteMachine, TypeInv, bounds
<1>14. CASE DeleteAllMachines
  <2>1. machines' \in Lists /\ DOMAIN machines' = DOMAIN machines /\ rc' \in Reconciles /\ rc'.pc = "patch"
    BY <1>1, <1>14, DeleteAllEffect
  <2>2. QED
    BY <1>1, <1>14, <2>1 DEF DeleteAllMachines, TypeInv, bounds
<1>15. CASE CreateInfra
  <2>1. PICK step \in {"config", "patch"} : rc' = [rc EXCEPT !.pc = step, !.target = last + 1]
    BY <1>15 DEF CreateInfra
  <2>2. last' = last + 1 /\ last' \in 0..MaxMachines
    BY <1>1, <1>15 DEF CreateInfra
  <2>3. rc' \in Reconciles /\ rc'.target = last'
    BY <1>1, <2>1, <2>2 DEF Reconciles, Steps
  <2>4. infra' \subseteq 1..last'
    BY <1>1, <1>15, <2>2 DEF CreateInfra
  <2>5. DOMAIN machines \subseteq 1..last' /\ config \subseteq 1..last' /\ last' \in 1..last'
    BY <1>1, <2>2
  <2>6. QED
    BY <1>1, <1>15, <2>2, <2>3, <2>4, <2>5 DEF CreateInfra, TypeInv, bounds
<1>16. CASE CreateConfig
  <2>1. rc.target \in 1..last
    BY <1>1, <1>16 DEF CreateConfig
  <2>2. config' \subseteq 1..last
    BY <1>1, <1>16, <2>1 DEF CreateConfig
  <2>3. rc' \in Reconciles /\ rc'.target = rc.target
    <3>1. CASE Goto("machine")
      BY <1>1, <3>1, GotoType DEF Steps
    <3>2. CASE CleanUp({"infra"})
      BY <1>1, <3>2, CleanUpType
    <3>3. QED
      BY <1>16, <3>1, <3>2 DEF CreateConfig
  <2>4. QED
    BY <1>1, <1>16, <2>1, <2>2, <2>3 DEF CreateConfig, TypeInv, bounds
<1>17. CASE CreateMachine
  <2>1. rc.target \in 1..last /\ rc.target \in Machine
    BY <1>1, <1>17 DEF CreateMachine, Machine
  <2>2. /\ machines' \in Lists /\ DOMAIN machines' \subseteq DOMAIN machines \cup {rc.target}
        /\ rc' \in Reconciles /\ rc'.pc \in {"patch", "cleanup"}
    BY <1>1, <1>17, <2>1, CreateEffect
  <2>3. QED
    BY <1>1, <1>17, <2>1, <2>2 DEF CreateMachine, TypeInv, bounds
<1>18. CASE CleanupFromGeneration
  <2>1. rc' \in Reconciles /\ rc'.pc = "patch"
    <3>1. Goto("patch")
      BY <1>18 DEF CleanupFromGeneration
    <3>2. QED
      BY <1>1, <3>1, GotoType DEF Steps
  <2>2. infra' \subseteq infra /\ config' \subseteq config
    BY <1>18 DEF CleanupFromGeneration
  <2>3. QED
    BY <1>1, <1>18, <2>1, <2>2 DEF CleanupFromGeneration, TypeInv, bounds
<1>19. Idle.pc = "idle"
  BY DEF Idle
<1>20. CASE PatchControlPlane
  <2>1. kcp' \in ControlPlane /\ kcp'.revision = kcp.revision
    BY <1>1, <1>20, PatchEffect
  <2>2. rc' \in Reconciles /\ rc'.pc = "idle"
    BY <1>19, <1>20, IdleType DEF PatchControlPlane
  <2>3. QED
    BY <1>1, <1>20, <2>1, <2>2 DEF PatchControlPlane, TypeInv, bounds
<1>21. CASE Crash
  <2>1. rc' \in Reconciles /\ rc'.pc = "idle" /\ cache' \in Lists
    BY <1>1, <1>19, <1>21, IdleType DEF Crash
  <2>2. QED
    BY <1>1, <1>21, <2>1 DEF Crash, TypeInv, objects, bounds
<1>22. ASSUME NEW m \in DOMAIN machines, Environment(m)
       PROVE  TypeInv'
  <2>1. machines' \in Lists /\ DOMAIN machines' = DOMAIN machines
    BY <1>1, <1>22, EnvironmentEffect DEF Kept, Like
  <2>2. /\ UNCHANGED <<kcp, infra, config, workers, cache, rc, last, now>>
        /\ formed' = formed \/ formed' = TRUE
        /\ edits' = edits \/ (edits < MaxEdits /\ edits' = edits + 1)
    BY <1>22 DEF Environment, Join, NodeFails, MarkUnhealthy, StartupTimeout, AskHook,
                 MachineReconcile, MarkDeleteFirst, OnlyMachines, bounds
  <2>a. formed' \in BOOLEAN
    BY <1>1, <2>2
  <2>b. edits' \in 0..MaxEdits /\ edits <= edits'
    BY <1>1, <2>2
  <2>3. kcp.revision \in Nat
    BY <1>1 DEF ControlPlane
  <2>4. kcp.revision <= edits'
    BY <1>1, <2>b, <2>3
  <2>5. QED
    BY <1>1, <2>1, <2>2, <2>a, <2>b, <2>4 DEF TypeInv
<1>23. ASSUME NEW m \in DOMAIN machines, FinishDelete(m)
       PROVE  TypeInv'
  <2>1. machines' \in Lists /\ DOMAIN machines' = DOMAIN machines \ {m}
    BY <1>1, <1>23, FinishEffect
  <2>2. QED
    BY <1>1, <1>23, <2>1 DEF FinishDelete, OnlyMachines, TypeInv
<1>24. CASE Scale \/ Rollout \/ DeleteControlPlane
  <2>1. PICK k : Edit(k) /\ \/ \E n \in Replicas : k = [kcp EXCEPT !.replicas = n]
                            \/ k = [kcp EXCEPT !.revision = kcp.revision + 1]
                            \/ \E s \in {"deleting", "gone"} : k = [kcp EXCEPT !.state = s]
    BY <1>24 DEF Scale, Rollout, DeleteControlPlane
  <2>2. kcp.revision \in Nat /\ edits + 1 \in 0..MaxEdits
    BY <1>1, <2>1 DEF ControlPlane, Edit
  <2>3. k \in ControlPlane /\ k.revision <= edits + 1
    <3>1. kcp.revision + 1 \in 0..MaxEdits /\ kcp.revision + 1 <= edits + 1 /\ kcp.revision <= edits + 1
      BY <1>1, <2>2
    <3>2. QED
      BY <1>1, <2>1, <3>1 DEF ControlPlane
  <2>4. QED
    BY <1>1, <2>1, <2>2, <2>3 DEF Edit, TypeInv
<1>25. CASE WorkersGone \/ Tick
  <2>1. workers' \in BOOLEAN
    BY <1>1, <1>25 DEF WorkersGone, Tick, objects
  <2>2. now' \in 0..MaxClock
    BY <1>1, <1>25 DEF WorkersGone, Tick, bounds
  <2>3. UNCHANGED <<kcp, machines, infra, config, formed, cache, rc, last, edits>>
    BY <1>25 DEF WorkersGone, Tick, objects, bounds
  <2>4. QED
    BY <1>1, <2>1, <2>2, <2>3 DEF TypeInv
<1>26. CASE UNCHANGED vars
  BY <1>1, <1>26 DEF vars, objects, bounds, TypeInv
<1>27. QED
  <2>1. CASE \E m \in DOMAIN machines :
               \/ Join(m) \/ NodeFails(m) \/ MarkUnhealthy(m) \/ StartupTimeout(m)
               \/ AskHook(m) \/ MachineReconcile(m) \/ FinishDelete(m) \/ MarkDeleteFirst(m)
    BY <1>22, <1>23, <2>1 DEF Environment
  <2>2. CASE ReconcileControlPlane
    BY <1>6, <1>7, <1>8, <1>9, <1>10, <1>11, <1>12, <1>13, <1>14, <1>15, <1>16, <1>17, <1>18, <1>20, <2>2
       DEF ReconcileControlPlane, Decision
  <2>3. QED
    BY <1>21, <1>24, <1>25, <1>26, <2>1, <2>2 DEF Next

LEMMA TypeInit == Init => TypeInv
<1> SUFFICES ASSUME Init PROVE TypeInv
  OBVIOUS
<1>1. kcp \in ControlPlane /\ rc \in Reconciles /\ machines \in Lists /\ cache \in Lists /\ DOMAIN machines = {}
  BY IdleType, NoMachinesList DEF Init
<1>2. kcp.revision = 0 /\ rc.pc = "idle"
  BY DEF Init, Created, Idle
<1>3. workers \in BOOLEAN /\ formed \in BOOLEAN
  BY DEF Init
<1>4. /\ infra = {} /\ config = {} /\ last \in 0..MaxMachines /\ now \in 0..MaxClock
      /\ edits = 0 /\ edits \in 0..MaxEdits
  BY DEF Init
<1>5. QED
  BY <1>1, <1>2, <1>3, <1>4 DEF TypeInv

\* TypeOK: the types of every state the reconciler, the controllers around it and
\* users can produce, whatever calls fail, lose their reply or are served late.
THEOREM TypeCorrect == Spec => []TypeOK
<1>1. TypeInv => TypeOK
  <2> SUFFICES ASSUME TypeInv PROVE TypeOK
    OBVIOUS
  <2>1. /\ rc.pc \in Steps /\ rc.kcp \in ControlPlane /\ rc.target \in 0..MaxMachines
        /\ rc.why \in {"none", "remediate", "scaleDown"} /\ rc.domain \in FailureDomains \cup {NoDomain}
        /\ rc.data \in RemediationData /\ rc.parts \subseteq {"infra", "config"}
    BY DEF TypeInv, Reconciles
  <2>2. \A m \in DOMAIN machines : machines[m] \in MachineData
    BY ListFacts DEF TypeInv
  <2>3. QED
    BY <2>1, <2>2 DEF TypeInv, TypeOK
<1>2. QED
  BY <1>1, TypeInit, TypeStep, PTL DEF Spec

-----------------------------------------------------------------------------
(***************************************************************************)
(* A machine has its parts.                                                *)
(***************************************************************************)
LEMMA PartsStep ==
  ASSUME "machine" \notin LostReplies
  PROVE  TypeInv /\ PartsInv /\ [Next]_vars => PartsInv'
<1> SUFFICES ASSUME TypeInv, PartsInv, [Next]_vars PROVE PartsInv'
  OBVIOUS
<1>1. /\ machines \in Lists /\ rc \in Reconciles /\ rc.target \in 0..MaxMachines
      /\ DOMAIN machines \subseteq 1..last /\ last \in Nat
      /\ rc.pc \in {"config", "machine"} => rc.target \in 1..last
  BY DEF TypeInv, Reconciles
<1>2. ASSUME UNCHANGED <<infra, config>>, DOMAIN machines' = DOMAIN machines,
             \A m \in DOMAIN machines : machines[m].deleting => machines'[m].deleting,
             rc' = rc \/ rc'.pc \notin {"config", "machine", "cleanup"}
      PROVE  PartsInv'
  BY <1>2 DEF PartsInv, MachineHasParts
<1>3. CASE AddFinalizer
  BY <1>2, <1>3 DEF AddFinalizer
<1>4. CASE StartReconcile \/ StartDelete
  <2>1. PICK step \in {"sync", "conditions", "patch"} : \E k, seen : Start(step, k, seen)
    BY <1>4 DEF StartReconcile, StartDelete
  <2>2. rc'.pc = step
    BY <2>1 DEF Start, Idle
  <2>3. QED
    BY <1>2, <2>1, <2>2 DEF Start, objects
<1>5. CASE SyncMachines
  <2>1. UNCHANGED <<infra, config>>
    BY <1>5 DEF SyncMachines
  <2>2. Kept(machines, machines') /\ rc'.pc \in {"patch", "conditions"}
    BY <1>1, <1>5, SyncEffect
  <2>3. QED
    BY <1>2, <2>1, <2>2 DEF Kept, Like
<1>6. CASE ReconcileConditions
  <2>1. UNCHANGED <<infra, config>>
    BY <1>6 DEF ReconcileConditions
  <2>2. Kept(machines, machines') /\ rc'.pc \in {"decide", "deleteAll", "patch"}
    BY <1>1, <1>6, ConditionsEffect
  <2>3. QED
    BY <1>2, <2>1, <2>2 DEF Kept, Like
<1>7. CASE Decision
  <2>1. rc'.pc \in {"remove", "delete", "infra", "patch", "idle"} /\ OnlyLocal
    BY <1>7, DecisionType
  <2>2. QED
    BY <1>2, <2>1 DEF OnlyLocal, objects
<1>8. CASE RemoveNode
  <2>1. UNCHANGED <<infra, config>>
    BY <1>8 DEF RemoveNode
  <2>2. Kept(machines, machines') /\ rc'.pc \in {"delete", "patch"}
    BY <1>1, <1>8, RemoveEffect
  <2>3. QED
    BY <1>2, <2>1, <2>2 DEF Kept, Like
<1>9. CASE DeleteMachine
  <2>1. UNCHANGED <<infra, config>>
    BY <1>9 DEF DeleteMachine
  <2>2. /\ DOMAIN machines' = DOMAIN machines /\ rc'.pc = "patch"
        /\ \A m \in DOMAIN machines : machines[m].deleting => machines'[m].deleting
    BY <1>1, <1>9, DeleteEffect
  <2>3. QED
    BY <1>2, <2>1, <2>2
<1>10. CASE DeleteAllMachines
  <2>1. UNCHANGED <<infra, config>>
    BY <1>10 DEF DeleteAllMachines
  <2>2. /\ DOMAIN machines' = DOMAIN machines /\ rc'.pc = "patch"
        /\ \A m \in DOMAIN machines : machines[m].deleting => machines'[m].deleting
    BY <1>1, <1>10, DeleteAllEffect
  <2>3. QED
    BY <1>2, <2>1, <2>2
<1>11. CASE CreateInfra
  <2>1. PICK o \in Outcomes("infra") :
          /\ infra' = IF Took(o) THEN infra \cup {last + 1} ELSE infra
          /\ rc' = [rc EXCEPT !.pc = IF Replied(o) THEN "config" ELSE "patch", !.target = last + 1]
    BY <1>11 DEF CreateInfra
  <2>2. rc'.pc = (IF Replied(o) THEN "config" ELSE "patch") /\ rc'.target = last + 1
    BY <1>1, <2>1 DEF Reconciles
  <2>3. rc'.pc = "config" => rc'.target \in infra'
    BY <2>1, <2>2 DEF Took, Replied
  <2>4. last + 1 \notin DOMAIN machines
    BY <1>1
  <2>5. machines' = machines /\ config' = config /\ infra \subseteq infra'
    BY <1>11, <2>1 DEF CreateInfra
  <2>6. QED
    BY <2>2, <2>3, <2>4, <2>5 DEF PartsInv, MachineHasParts
<1>12. CASE CreateConfig
  <2>1. PICK o \in Outcomes("config") :
          /\ config' = IF Took(o) THEN config \cup {rc.target} ELSE config
          /\ IF Replied(o) THEN Goto("machine") ELSE CleanUp({"infra"})
    BY <1>12 DEF CreateConfig
  <2>2. rc'.pc = (IF Replied(o) THEN "machine" ELSE "cleanup") /\ rc'.target = rc.target
    BY <1>1, <2>1, GotoType, CleanUpType DEF Steps
  <2>3. rc'.pc = "machine" => rc.target \in config'
    BY <2>1, <2>2 DEF Took, Replied
  <2>4. machines' = machines /\ infra' = infra /\ config \subseteq config' /\ rc.pc = "config"
    BY <1>12, <2>1 DEF CreateConfig
  <2>5. QED
    BY <2>2, <2>3, <2>4 DEF PartsInv, MachineHasParts
<1>13. CASE CreateMachine
  <2>1. rc.pc = "machine" /\ UNCHANGED <<infra, config>>
    BY <1>13 DEF CreateMachine
  <2>2. rc.target \in Machine
    BY <1>1, <2>1 DEF Machine
  <2>3. rc.target \in infra \cap config /\ rc.target \notin DOMAIN machines
    BY <2>1 DEF PartsInv
  <2>4. /\ DOMAIN machines' \subseteq DOMAIN machines \cup {rc.target}
        /\ \A n \in DOMAIN machines : machines'[n] = machines[n]
        /\ rc'.pc \in {"patch", "cleanup"} /\ rc'.target = rc.target
        /\ rc'.pc = "cleanup" => machines' = machines
    BY <1>1, <1>13, <2>2, CreateEffect
  <2>5. QED
    BY <2>1, <2>3, <2>4 DEF PartsInv, MachineHasParts
<1>14. CASE CleanupFromGeneration
  <2>1. Goto("patch") /\ rc.pc = "cleanup" /\ machines' = machines
    BY <1>14 DEF CleanupFromGeneration
  <2>2. infra \subseteq infra' \cup {rc.target} /\ config \subseteq config' \cup {rc.target}
    BY <1>14 DEF CleanupFromGeneration
  <2>3. rc'.pc = "patch"
    BY <1>1, <2>1, GotoType DEF Steps
  <2>4. QED
    BY <2>1, <2>2, <2>3 DEF PartsInv, MachineHasParts
<1>15. CASE PatchControlPlane \/ Crash
  <2>1. rc'.pc = "idle" /\ UNCHANGED <<machines, infra, config>>
    BY <1>15 DEF PatchControlPlane, Crash, Idle, objects
  <2>2. QED
    BY <1>2, <2>1
<1>16. ASSUME NEW m \in DOMAIN machines, Environment(m)
       PROVE  PartsInv'
  <2>1. UNCHANGED <<infra, config, rc>>
    BY <1>16 DEF Environment, Join, NodeFails, MarkUnhealthy, StartupTimeout, AskHook,
                 MachineReconcile, MarkDeleteFirst, OnlyMachines
  <2>2. Kept(machines, machines')
    BY <1>1, <1>16, EnvironmentEffect
  <2>3. QED
    BY <1>2, <2>1, <2>2 DEF Kept, Like
<1>17. ASSUME NEW m \in DOMAIN machines, FinishDelete(m)
       PROVE  PartsInv'
  <2>1. infra' = infra \ {m} /\ config' = config \ {m} /\ rc' = rc
    BY <1>17 DEF FinishDelete, OnlyMachines
  <2>2. DOMAIN machines' = DOMAIN machines \ {m} /\ \A n \in DOMAIN machines' : machines'[n] = machines[n]
    BY <1>1, <1>17, FinishEffect
  <2>3. QED
    BY <2>1, <2>2 DEF PartsInv, MachineHasParts
<1>18. CASE Scale \/ Rollout \/ DeleteControlPlane \/ WorkersGone \/ Tick \/ UNCHANGED vars
  <2>1. UNCHANGED <<machines, infra, config, rc>>
    BY <1>18 DEF Scale, Rollout, DeleteControlPlane, Edit, WorkersGone, Tick, vars, objects
  <2>2. QED
    BY <1>2, <2>1
<1>19. QED
  <2>1. CASE \E m \in DOMAIN machines :
               \/ Join(m) \/ NodeFails(m) \/ MarkUnhealthy(m) \/ StartupTimeout(m)
               \/ AskHook(m) \/ MachineReconcile(m) \/ FinishDelete(m) \/ MarkDeleteFirst(m)
    BY <1>16, <1>17, <2>1 DEF Environment
  <2>2. CASE ReconcileControlPlane
    BY <1>3, <1>4, <1>5, <1>6, <1>7, <1>8, <1>9, <1>10, <1>11, <1>12, <1>13, <1>14, <1>15, <2>2
       DEF ReconcileControlPlane, Decision
  <2>3. QED
    BY <1>15, <1>18, <2>1, <2>2 DEF Next

\* MachineHasParts: cloneConfigsAndGenerateMachine creates the parts before the
\* machine and cleans up only when the machine was not created, so whichever call
\* fails no machine is left without its infrastructure machine or CK8sConfig.  The
\* reply to the creation of the Machine must not be lost: the clean-up takes the
\* parts of a machine that does exist.
THEOREM MachinesHaveParts ==
  ASSUME "machine" \notin LostReplies
  PROVE  Spec => []MachineHasParts
<1>1. Init => PartsInv
  <2> SUFFICES ASSUME Init PROVE PartsInv
    OBVIOUS
  <2>1. DOMAIN machines = {} /\ rc.pc = "idle"
    BY NoMachinesList DEF Init, Idle
  <2>2. QED
    BY <2>1 DEF PartsInv, MachineHasParts
<1>2. TypeInv /\ PartsInv /\ [Next]_vars => PartsInv'
  BY PartsStep
<1>3. PartsInv => MachineHasParts
  BY DEF PartsInv
<1>4. QED
  BY <1>1, <1>2, <1>3, TypeInit, TypeStep, PTL DEF Spec

-----------------------------------------------------------------------------
(***************************************************************************)
(* What one reconcile at a time guarantees, when the list it decides from  *)
(* is not an old one.                                                      *)
(***************************************************************************)
\* Sets of machine numbers can be counted.
LEMMA Counted ==
  ASSUME NEW ms \in Lists
  PROVE  IsFiniteSet(DOMAIN ms) /\ Cardinality(DOMAIN ms) \in Nat
<1>1. DOMAIN ms \subseteq Machine
  BY ListFacts
<1>2. IsFiniteSet(Machine)
  BY FS_Interval DEF Machine
<1>3. IsFiniteSet(DOMAIN ms)
  BY <1>1, <1>2, FS_Subset
<1>4. QED
  BY <1>3, FS_CardinalityType

\* Nothing of what the invariant says of the machines depends on more than this.
LEMMA MachinesKept ==
  ASSUME Inv, Kept(machines, machines'), HealthKept(machines, machines'), NodesKept(machines, machines')
  PROVE  /\ Known(machines') /\ (kcp.state = "live" => OneOut(machines'))
         /\ ~kcp.initialized => First(machines')
BY DEF Inv, Kept, Like, HealthKept, NodesKept, Known, OneOut, First, HealthInv, DeletionInv, InitializedInv

\* Under way, both the object and the copy that was read have the finalizer.
LEMMA UnderWay ==
  ASSUME Inv, rc.pc \notin {"idle", "patch"}
  PROVE  kcp.finalizer /\ rc.kcp.finalizer
BY DEF Inv, FinalizerInv

\* A reconcile that goes to its end leaves little to show.
LEMMA Ends ==
  ASSUME Inv, rc.pc \notin {"idle", "patch"}, kcp' = kcp, rc'.pc \in {"patch", "cleanup"},
         SameSpec(rc.kcp, rc'.kcp), Known(machines'),
         kcp.state = "live" => OneOut(machines'), ~kcp.initialized => First(machines')
  PROVE  Inv'
<1>1. kcp.finalizer /\ rc.kcp.finalizer
  BY UnderWay
<1>2. FinalizerInv'
  BY <1>1 DEF Inv, FinalizerInv, SameSpec
<1>3. ListInv' /\ RoomInv'
  BY DEF ListInv, RoomInv, Listing, Creating
<1>4. DeletionInv'
  BY DEF Inv, DeletionInv, Creating, SameSpec
<1>5. InitializedInv'
  BY DEF Inv, InitializedInv, Listing, Creating, SameSpec
<1>6. HealthInv'
  BY DEF HealthInv, Listing
<1>7. QED
  BY <1>2, <1>3, <1>4, <1>5, <1>6 DEF Inv

\* Nodes, health checks and hooks change nothing the reconcile relies on, other
\* than what it is told by downSince.
LEMMA EnvironmentKeeps ==
  ASSUME TypeInv, Inv, NEW m \in DOMAIN machines, Environment(m)
  PROVE  Inv'
<1>1. kcp' = kcp /\ rc' = rc
  BY DEF Environment, Join, NodeFails, MarkUnhealthy, StartupTimeout, AskHook,
         MachineReconcile, MarkDeleteFirst, OnlyMachines
<1>2. /\ Kept(machines, machines') /\ NodesKept(machines, machines') /\ HealthKept(machines, machines')
      /\ ~downSince' => ~downSince /\ \A n \in DOMAIN machines : Reachable(n) => Reachable(n)'
  BY EnvironmentEffect DEF TypeInv
<1>3. FinalizerInv'
  BY <1>1, <1>2 DEF Inv, FinalizerInv, Kept, Like
<1>4. ListInv'
  BY <1>1, <1>2 DEF Inv, ListInv, Agrees, Kept, Like, NodesKept
<1>5. DeletionInv'
  BY <1>1, <1>2 DEF Inv, DeletionInv, OneOut, Kept, Like
<1>6. RoomInv'
  BY <1>1, <1>2 DEF Inv, RoomInv, Room, Kept, Like
<1>7. InitializedInv'
  BY <1>1, <1>2 DEF Inv, InitializedInv, First, Kept, Like, HealthKept
<1>8. HealthInv'
  <2>1. Known(machines')
    BY <1>2, MachinesKept
  <2>2. QED
    BY <1>1, <1>2, <2>1 DEF Inv, HealthInv, Kept, Like
<1>9. QED
  BY <1>3, <1>4, <1>5, <1>6, <1>7, <1>8 DEF Inv

\* A deletion that finishes was shown by the list, and is none while a machine is
\* cloned.
LEMMA FinishKeeps ==
  ASSUME TypeInv, Inv, NEW m \in DOMAIN machines, FinishDelete(m)
  PROVE  Inv'
<1>1. kcp' = kcp /\ rc' = rc /\ downSince' = downSince /\ machines[m].deleting
  BY DEF FinishDelete, OnlyMachines
<1>2. DOMAIN machines' = DOMAIN machines \ {m} /\ \A n \in DOMAIN machines' : machines'[n] = machines[n]
  BY FinishEffect DEF TypeInv
<1>3. FinalizerInv'
  BY <1>1, <1>2 DEF Inv, FinalizerInv
<1>4. ListInv'
  BY <1>1, <1>2 DEF Inv, ListInv, Agrees
<1>5. DeletionInv'
  BY <1>1, <1>2 DEF Inv, DeletionInv, OneOut
<1>6. RoomInv'
  BY <1>1 DEF Inv, RoomInv, DeletionInv
<1>7. InitializedInv'
  BY <1>1, <1>2 DEF Inv, InitializedInv, First
<1>8. HealthInv'
  BY <1>1, <1>2 DEF Inv, HealthInv, Known, Reachable
<1>9. QED
  BY <1>3, <1>4, <1>5, <1>6, <1>7, <1>8 DEF Inv

\* With no deletion in the list, it shows exactly the machines there are.
LEMMA ListIsExact ==
  ASSUME Agrees(machines, rc.seen), ~HasDeletingMachine(rc.seen)
  PROVE  DOMAIN machines = DOMAIN rc.seen /\ \A m \in DOMAIN machines : ~machines[m].deleting
BY DEF Agrees, HasDeletingMachine

\* Taking a machine out: no other one is on its way out and, for a scale down,
\* every other one was found healthy.
LEMMA TakeKeeps ==
  ASSUME TypeInv, Inv, rc.pc = "decide", OnlyLocal, NEW m \in Machine, NEW why, NEW data \in RemediationData,
         why \in {"remediate", "scaleDown"}, Take(m, why, data),
         \A n \in DOMAIN machines : machines[n].deleting => n = m,
         why = "scaleDown" => \A n \in DOMAIN machines \ {m} : rc.seen[n].agentHealthy
  PROVE  Inv'
<1>1. /\ kcp' = kcp /\ machines' = machines /\ downSince' = downSince
  BY DEF OnlyLocal, objects, history
<1>2. /\ rc'.pc \in {"remove", "delete"} /\ rc'.kcp = rc.kcp /\ rc'.target = m /\ rc'.why = why
  BY TakeType DEF TypeInv
<1>3. kcp.finalizer /\ rc.kcp.finalizer
  BY UnderWay
<1>4. FinalizerInv'
  BY <1>1, <1>2, <1>3 DEF Inv, FinalizerInv
<1>5. ListInv' /\ RoomInv'
  BY <1>2 DEF ListInv, RoomInv, Listing, Creating
<1>6. DeletionInv'
  BY <1>1, <1>2 DEF Inv, DeletionInv, Creating
<1>7. InitializedInv'
  BY <1>1, <1>2 DEF Inv, InitializedInv, Listing, Creating
<1>8. HealthInv'
  <2>1. ASSUME why = "scaleDown", ~downSince, NEW n \in DOMAIN machines \ {m}
        PROVE  Reachable(n)
    <3>1. n \in DOMAIN rc.seen /\ rc.seen[n].agentHealthy
      BY <2>1 DEF Inv, ListInv, Agrees, Listing
    <3>2. kcp.initialized
      BY <3>1 DEF Inv, InitializedInv, First, Listing
    <3>3. QED
      BY <2>1, <3>1, <3>2 DEF Inv, HealthInv
  <2>2. QED
    BY <1>1, <1>2, <2>1 DEF Inv, HealthInv, Listing, Reachable
<1>9. QED
  BY <1>4, <1>5, <1>6, <1>7, <1>8 DEF Inv

\* Cloning a machine: there is room for it, and no deletion under way.
LEMMA CloneKeeps ==
  ASSUME TypeInv, Inv, rc.pc = "decide", OnlyLocal, NEW fd \in FailureDomains \cup {NoDomain}, Clone(fd),
         Room(machines, rc.kcp), \A n \in DOMAIN machines : ~machines[n].deleting,
         ~kcp.initialized => DOMAIN machines = {}
  PROVE  Inv'
<1>1. /\ kcp' = kcp /\ machines' = machines /\ downSince' = downSince
  BY DEF OnlyLocal, objects, history
<1>2. rc'.pc = "infra" /\ rc'.kcp = rc.kcp
  BY CloneType DEF TypeInv
<1>3. kcp.finalizer /\ rc.kcp.finalizer
  BY UnderWay
<1>4. FinalizerInv'
  BY <1>1, <1>2, <1>3 DEF Inv, FinalizerInv
<1>5. ListInv' /\ RoomInv'
  BY <1>1, <1>2 DEF ListInv, RoomInv, Listing
<1>6. DeletionInv'
  BY <1>1, <1>2 DEF Inv, DeletionInv
<1>7. InitializedInv'
  BY <1>1, <1>2 DEF Inv, InitializedInv, Listing
<1>8. HealthInv'
  BY <1>1, <1>2 DEF Inv, HealthInv, Listing
<1>9. QED
  BY <1>4, <1>5, <1>6, <1>7, <1>8 DEF Inv

LEMMA DecisionKeeps ==
  ASSUME TypeInv, Inv, ~MachineCacheLags, Decision
  PROVE  Inv'
<1>1. OnlyLocal /\ rc.pc = "decide"
  BY DecisionType DEF Decision, Remediate, InitializeControlPlane, ScaleUpControlPlane, ScaleDownControlPlane,
                      NothingToDo, Decide
<1>2. rc \in Reconciles /\ rc.seen \in Lists /\ machines \in Lists /\ rc.kcp.replicas \in Nat
  BY DEF TypeInv, Reconciles, ControlPlane
<1>3. /\ Agrees(machines, rc.seen)
      /\ kcp.initialized = rc.kcp.initialized
      /\ ~kcp.initialized => First(machines) /\ First(rc.seen)
  BY <1>1 DEF Inv, ListInv, InitializedInv, Listing
<1>4. ASSUME Goto("patch") PROVE Inv'
  <2>1. rc'.pc = "patch" /\ SameSpec(rc.kcp, rc'.kcp)
    BY <1>2, <1>4, GotoType DEF SameSpec, Steps
  <2>2. kcp' = kcp /\ machines' = machines
    BY <1>1 DEF OnlyLocal, objects
  <2>3. Known(machines') /\ (kcp.state = "live" => OneOut(machines')) /\ (~kcp.initialized => First(machines'))
    BY <2>2 DEF Inv, HealthInv, DeletionInv, InitializedInv
  <2>4. QED
    BY <1>1, <2>1, <2>2, <2>3, Ends
<1>5. CASE Remediate
  <2>1. PICK m \in reconcileUnhealthyMachines(rc.seen, rc.kcp) :
            LET limits == checkRetryLimits(rc.seen[m].remediationFor, Strategy, now)
            IN  Take(m, "remediate", [machine |-> m, time |-> now, retry |-> limits.retry])
    BY <1>5 DEF Remediate
  <2>2. m \in DOMAIN rc.seen /\ (rc.kcp.initialized => ~HasDeletingMachine(rc.seen))
    BY DEF reconcileUnhealthyMachines, UnhealthyMachines
  <2>3. m \in Machine /\ rc.seen[m].remediationFor \in RemediationData /\ now \in 0..MaxClock
    BY <1>2, <2>2, ListFacts DEF MachineData, TypeInv
  <2>4. PICK data \in RemediationData : Take(m, "remediate", data)
    <3>1. PICK r \in Nat : r = checkRetryLimits(rc.seen[m].remediationFor, Strategy, now).retry
      BY <2>3, RetryCounted
    <3>2. [machine |-> m, time |-> now, retry |-> r] \in RemediationData
      BY <2>3, <3>1 DEF RemediationData, Machine
    <3>3. QED
      BY <2>1, <3>1, <3>2
  <2>5. \A n \in DOMAIN machines : machines[n].deleting => n = m
    <3>1. CASE rc.kcp.initialized
      BY <1>3, <2>2, <3>1, ListIsExact
    <3>2. CASE ~rc.kcp.initialized
      BY <1>3, <2>2, <3>2 DEF First, Agrees
    <3>3. QED
      BY <3>1, <3>2
  <2>6. QED
    BY <1>1, <2>3, <2>4, <2>5, TakeKeeps
<1>6. CASE InitializeControlPlane
  <2>1. GetMachinesForCluster = {machines}
    BY DEF GetMachinesForCluster
  <2>2. \/ Goto("patch")
        \/ /\ DOMAIN machines = {}
           /\ \E fd \in NextFailureDomainForScaleUp(rc.seen, rc.kcp.revision) : Clone(fd)
    BY <1>6, <2>1 DEF InitializeControlPlane
  <2>3. CASE Goto("patch")
    BY <1>4, <2>3
  <2>4. CASE /\ DOMAIN machines = {}
             /\ \E fd \in NextFailureDomainForScaleUp(rc.seen, rc.kcp.revision) : Clone(fd)
    <3>1. PICK fd \in FailureDomains \cup {NoDomain} : Clone(fd)
      BY <2>4, DomainChosen
    <3>2. Cardinality(DOMAIN rc.seen) = 0 /\ 0 < rc.kcp.replicas
      <4>1. Operation(rc.seen, rc.kcp) = "init"
        BY <1>6 DEF InitializeControlPlane, Decide
      <4>2. QED
        BY <4>1 DEF Operation, upgradeControlPlane
    <3>3. Cardinality(DOMAIN machines) = 0
      BY <2>4, FS_EmptySet
    <3>4. Room(machines, rc.kcp)
      BY <1>2, <3>2, <3>3 DEF Room
    <3>5. QED
      BY <1>1, <2>4, <3>1, <3>4, CloneKeeps
  <2>5. QED
    BY <2>2, <2>3, <2>4
<1>7. CASE ScaleUpControlPlane
  <2>1. \/ Goto("patch")
        \/ /\ preflightChecks(rc.seen, {})
           /\ \E fd \in NextFailureDomainForScaleUp(rc.seen, rc.kcp.revision) : Clone(fd)
    BY <1>7 DEF ScaleUpControlPlane
  <2>2. CASE Goto("patch")
    BY <1>4, <2>2
  <2>3. CASE /\ preflightChecks(rc.seen, {})
             /\ \E fd \in NextFailureDomainForScaleUp(rc.seen, rc.kcp.revision) : Clone(fd)
    <3>1. PICK fd \in FailureDomains \cup {NoDomain} : Clone(fd)
      BY <2>3, DomainChosen
    <3>2. DOMAIN machines = DOMAIN rc.seen /\ \A n \in DOMAIN machines : ~machines[n].deleting
      BY <1>3, <2>3, ListIsExact DEF preflightChecks
    <3>3. ~kcp.initialized => DOMAIN machines = {}
      BY <1>3, <2>3, <3>2 DEF First, preflightChecks
    <3>4. Operation(rc.seen, rc.kcp) = "up"
      BY <1>7 DEF ScaleUpControlPlane, Decide
    <3>5. \/ Cardinality(DOMAIN rc.seen) < rc.kcp.replicas
          \/ /\ MachinesNeedingRollout(rc.seen, rc.kcp.revision) # {}
             /\ \A surge \in MaxSurge : Cardinality(DOMAIN rc.seen) < rc.kcp.replicas + surge
      BY <3>4 DEF Operation, upgradeControlPlane
    <3>6. Cardinality(DOMAIN machines) \in Nat
      BY <1>2, Counted
    <3>7. Room(machines, rc.kcp)
      <4>1. CASE Cardinality(DOMAIN rc.seen) < rc.kcp.replicas
        BY <1>2, <3>2, <3>6, <4>1 DEF Room
      <4>2. CASE /\ MachinesNeedingRollout(rc.seen, rc.kcp.revision) # {}
                 /\ \A surge \in MaxSurge : Cardinality(DOMAIN rc.seen) < rc.kcp.replicas + surge
        <5>1. \E m \in DOMAIN machines : machines[m].revision # rc.kcp.revision
          BY <1>3, <3>2, <4>2 DEF MachinesNeedingRollout, Agrees
        <5>2. MaxSurge \subseteq Nat
          BY DEF MaxSurge, defaultRolloutStrategy
        <5>3. \A surge \in MaxSurge : Cardinality(DOMAIN machines) + 1 <= rc.kcp.replicas + surge
          BY <1>2, <3>2, <3>6, <4>2, <5>2
        <5>4. QED
          BY <5>1, <5>3 DEF Room
      <4>3. QED
        BY <3>5, <4>1, <4>2
    <3>8. QED
      BY <1>1, <3>1, <3>2, <3>3, <3>7, CloneKeeps
  <2>4. QED
    BY <2>1, <2>2, <2>3
<1>8. CASE ScaleDownControlPlane
  <2> DEFINE outdated == MachinesNeedingRollout(rc.seen, rc.kcp.revision)
  <2>1. PICK m \in selectMachineForScaleDown(rc.seen, outdated) :
            \/ preflightChecks(rc.seen, {m}) /\ Take(m, "scaleDown", NoData)
            \/ Goto("patch")
    BY <1>8 DEF ScaleDownControlPlane
  <2>2. CASE Goto("patch")
    BY <1>4, <2>2
  <2>3. CASE preflightChecks(rc.seen, {m}) /\ Take(m, "scaleDown", NoData)
    <3>1. outdated \subseteq DOMAIN rc.seen
      BY DEF MachinesNeedingRollout
    <3> HIDE DEF outdated
    <3>2. m \in Machine
      BY <1>2, <2>1, <3>1, SelectedListed, ListFacts
    <3>3. DOMAIN machines = DOMAIN rc.seen /\ \A n \in DOMAIN machines : ~machines[n].deleting
      BY <1>3, <2>3, ListIsExact DEF preflightChecks
    <3>4. \A n \in DOMAIN machines \ {m} : rc.seen[n].agentHealthy
      BY <2>3, <3>3 DEF preflightChecks
    <3>5. QED
      BY <1>1, <2>3, <3>2, <3>3, <3>4, TakeKeeps, IdleType
  <2>4. QED
    BY <2>1, <2>2, <2>3
<1>9. CASE NothingToDo
  <2>1. CASE Goto("patch")
    BY <1>4, <2>1
  <2>2. CASE rc' = Idle
    <3>1. kcp' = kcp /\ machines' = machines /\ rc'.pc = "idle"
      BY <1>1, <2>2 DEF OnlyLocal, objects, Idle
    <3>2. kcp.finalizer
      BY <1>1, UnderWay
    <3>3. QED
      BY <3>1, <3>2 DEF Inv, FinalizerInv, ListInv, DeletionInv, RoomInv, InitializedInv, HealthInv,
                        Listing, Creating
  <2>3. QED
    BY <1>9, <2>1, <2>2 DEF NothingToDo
<1>10. QED
  BY <1>5, <1>6, <1>7, <1>8, <1>9 DEF Decision

LEMMA InvStep ==
  ASSUME ~MachineCacheLags
  PROVE  TypeInv /\ Inv /\ [Next]_vars => Inv'
<1> SUFFICES ASSUME TypeInv, Inv, [Next]_vars PROVE Inv'
  OBVIOUS
<1>1. /\ kcp \in ControlPlane /\ machines \in Lists /\ rc \in Reconciles /\ rc.kcp \in ControlPlane
      /\ rc.pc = "machine" => rc.target \in Machine
  BY DEF TypeInv, Reconciles, Machine
<1>2. GetMachinesForCluster = {machines}
  BY DEF GetMachinesForCluster
<1>3. CASE AddFinalizer
  <2>1. /\ rc.pc = "idle" /\ kcp.state = "live" /\ ~kcp.finalizer /\ UNCHANGED <<machines, rc, downSince>>
    BY <1>3 DEF AddFinalizer, history
  <2>2. PICK b \in BOOLEAN : kcp' = [kcp EXCEPT !.finalizer = b]
    <3>1. PICK o : kcp' = [kcp EXCEPT !.finalizer = Took(o)]
      BY <1>3 DEF AddFinalizer
    <3>2. Took(o) \in BOOLEAN
      BY DEF Took
    <3>3. QED
      BY <3>1, <3>2
  <2>3. kcp'.state = "live" /\ kcp'.initialized = kcp.initialized
    BY <1>1, <2>1, <2>2 DEF ControlPlane
  <2>4. DOMAIN machines = {}
    BY <2>1 DEF Inv, FinalizerInv
  <2>5. QED
    BY <2>1, <2>3, <2>4 DEF Inv, FinalizerInv, ListInv, DeletionInv, RoomInv, InitializedInv, HealthInv,
                            Listing, Creating
<1>4. CASE StartReconcile
  <2>1. Start("sync", kcp, machines) /\ kcp.finalizer
    BY <1>2, <1>4 DEF StartReconcile
  <2>2. rc'.pc = "sync" /\ rc'.kcp = kcp /\ rc'.seen = machines
    BY <1>1, <2>1, StartType DEF Steps
  <2>3. kcp' = kcp /\ machines' = machines
    BY <2>1 DEF Start, objects
  <2>4. Agrees(machines, machines)
    BY DEF Agrees
  <2>5. QED
    BY <2>1, <2>2, <2>3, <2>4
       DEF Inv, FinalizerInv, ListInv, DeletionInv, RoomInv, InitializedInv, HealthInv, Listing, Creating
<1>5. CASE StartDelete
  <2>1. kcp.state = "deleting" /\ kcp.finalizer /\ kcp' = kcp /\ machines' = machines
    BY <1>5 DEF StartDelete, Start, objects
  <2>2. /\ rc'.pc \in {"conditions", "patch"}
        /\ rc'.kcp.state = "deleting" /\ rc'.kcp.initialized = kcp.initialized /\ rc'.seen = machines
        /\ ~rc'.kcp.finalizer => rc'.pc = "patch" /\ DOMAIN machines = {}
    <3>1. CASE DOMAIN machines = {}
      <4> DEFINE k == [kcp EXCEPT !.finalizer = FALSE]
      <4>1. k \in ControlPlane /\ k.state = kcp.state /\ k.initialized = kcp.initialized
        BY <1>1 DEF ControlPlane
      <4>2. Start("patch", k, machines)
        BY <1>2, <1>5, <3>1 DEF StartDelete
      <4> HIDE DEF k
      <4>3. rc'.pc = "patch" /\ rc'.kcp = k /\ rc'.seen = machines
        BY <1>1, <4>1, <4>2, StartType DEF Steps
      <4>4. QED
        BY <2>1, <3>1, <4>1, <4>3
    <3>2. CASE DOMAIN machines # {}
      <4>1. Start("conditions", kcp, machines)
        BY <1>2, <1>5, <3>2 DEF StartDelete
      <4>2. rc'.pc = "conditions" /\ rc'.kcp = kcp /\ rc'.seen = machines
        BY <1>1, <4>1, StartType DEF Steps
      <4>3. QED
        BY <2>1, <4>2
    <3>3. QED
      BY <3>1, <3>2
  <2>3. Agrees(machines, machines)
    BY DEF Agrees
  <2>4. QED
    BY <2>1, <2>2, <2>3
       DEF Inv, FinalizerInv, ListInv, DeletionInv, RoomInv, InitializedInv, HealthInv, Listing, Creating
<1>6. CASE SyncMachines
  <2>1. rc.pc = "sync" /\ kcp' = kcp /\ downSince' = downSince
    BY <1>6 DEF SyncMachines, history
  <2>2. /\ Kept(machines, machines') /\ HealthKept(machines, machines')
        /\ \A m \in DOMAIN machines : machines'[m].node = machines[m].node
        /\ rc'.kcp = rc.kcp
        /\ \/ rc'.pc = "patch"
           \/ /\ rc'.pc = "conditions" /\ Kept(rc.seen, rc'.seen) /\ HealthKept(rc.seen, rc'.seen)
              /\ MarksKept(rc.seen, rc'.seen)
              /\ \A m \in DOMAIN rc.seen : rc'.seen[m].node = rc.seen[m].node
    BY <1>1, <1>6, SyncEffect
  <2>3. /\ Known(machines') /\ (kcp.state = "live" => OneOut(machines'))
        /\ ~kcp.initialized => First(machines')
    BY <2>2, MachinesKept DEF NodesKept
  <2>4. CASE rc'.pc = "patch"
    BY <2>1, <2>2, <2>3, <2>4, Ends DEF SameSpec
  <2>5. CASE /\ rc'.pc = "conditions" /\ Kept(rc.seen, rc'.seen) /\ HealthKept(rc.seen, rc'.seen)
             /\ MarksKept(rc.seen, rc'.seen)
             /\ \A m \in DOMAIN rc.seen : rc'.seen[m].node = rc.seen[m].node
    <3>1. FinalizerInv'
      BY <2>1, <2>2, <2>5, UnderWay DEF Inv, FinalizerInv
    <3>2. ListInv'
      BY <2>1, <2>2, <2>5 DEF Inv, ListInv, Listing, Agrees, Kept, Like, MarksKept
    <3>3. DeletionInv'
      BY <2>1, <2>2, <2>3, <2>5 DEF Inv, DeletionInv, Creating
    <3>4. RoomInv'
      BY <2>5 DEF RoomInv, Creating
    <3>5. InitializedInv'
      BY <2>1, <2>2, <2>3, <2>5 DEF Inv, InitializedInv, Listing, Creating, First, Kept, Like, HealthKept
    <3>6. HealthInv'
      BY <2>1, <2>3, <2>5 DEF Inv, HealthInv, Listing, Known, Kept, Like, HealthKept
    <3>7. QED
      BY <3>1, <3>2, <3>3, <3>4, <3>5, <3>6 DEF Inv
  <2>6. QED
    BY <2>2, <2>4, <2>5
<1>7. CASE ReconcileConditions
  <2>1. rc.pc = "conditions" /\ kcp' = kcp /\ downSince' = downSince
    BY <1>7 DEF ReconcileConditions, history
  <2>2. /\ Agrees(machines, rc.seen) /\ Known(rc.seen) /\ Known(machines)
        /\ rc.kcp.initialized = kcp.initialized
        /\ ~kcp.initialized => First(machines) /\ First(rc.seen)
    BY <2>1 DEF Inv, ListInv, HealthInv, InitializedInv, Listing
  <2>3. /\ Kept(machines, machines')
        /\ \A m \in DOMAIN machines :
             /\ machines'[m].node = machines[m].node
             /\ \/ machines'[m].agentHealthy = machines[m].agentHealthy
                \/ m \in DOMAIN rc.seen /\ machines'[m].agentHealthy = rc'.seen[m].agentHealthy
    BY <1>1, <1>7, ConditionsEffect
  <2>4. /\ rc'.kcp = rc.kcp
        /\ rc'.pc \in {"decide", "deleteAll", "patch"}
        /\ rc'.pc = "deleteAll" => rc.kcp.state # "live"
        /\ Kept(rc.seen, rc'.seen) /\ MarksKept(rc.seen, rc'.seen)
        /\ \A m \in DOMAIN rc.seen : rc'.seen[m].node = rc.seen[m].node
        /\ ~rc.kcp.initialized => rc'.seen = rc.seen
        /\ Known(rc'.seen)
        /\ rc.kcp.initialized =>
             \A m \in DOMAIN rc.seen \cap DOMAIN machines : rc'.seen[m].agentHealthy => Reachable(m)
    BY <1>1, <1>7, <2>2, ConditionsEffect
  <2>5. Known(machines')
    BY <2>2, <2>3, <2>4 DEF Known, Kept, Like, Agrees
  <2>6. kcp.state = "live" => OneOut(machines')
    BY <2>3 DEF Inv, DeletionInv, OneOut, Kept, Like
  <2>7. ~kcp.initialized => First(machines')
    BY <2>2, <2>3, <2>4 DEF First, Kept, Like
  <2>8. CASE rc'.pc = "patch"
    BY <2>1, <2>4, <2>5, <2>6, <2>7, <2>8, Ends DEF SameSpec
  <2>9. CASE rc'.pc \in {"decide", "deleteAll"}
    <3>1. FinalizerInv'
      BY <2>1, <2>4, <2>9, UnderWay DEF Inv, FinalizerInv
    <3>2. ListInv'
      BY <2>2, <2>3, <2>4 DEF ListInv, Agrees, Kept, Like, MarksKept
    <3>3. DeletionInv'
      BY <2>1, <2>4, <2>6, <2>9 DEF Inv, DeletionInv, Creating
    <3>4. RoomInv'
      BY <2>9 DEF RoomInv, Creating
    <3>5. InitializedInv'
      BY <2>1, <2>2, <2>4, <2>7, <2>9 DEF InitializedInv, Creating
    <3>6. \A m \in DOMAIN machines : Reachable(m) => Reachable(m)'
      BY <2>3 DEF Reachable
    <3>7. DOMAIN machines' = DOMAIN machines /\ DOMAIN machines \subseteq DOMAIN rc.seen
      BY <2>2, <2>3 DEF Kept, Like, Agrees
    <3>8. HealthInv'
      BY <2>1, <2>2, <2>4, <2>5, <2>9, <3>6, <3>7 DEF HealthInv
    <3>9. QED
      BY <3>1, <3>2, <3>3, <3>4, <3>5, <3>8 DEF Inv
  <2>10. QED
    BY <2>4, <2>8, <2>9
<1>8. CASE Decision
  BY <1>8, DecisionKeeps
<1>9. CASE RemoveNode
  <2>1. rc.pc = "remove" /\ kcp' = kcp
    BY <1>9 DEF RemoveNode
  <2>2. /\ Kept(machines, machines') /\ HealthKept(machines, machines')
        /\ \A n \in DOMAIN machines : \/ machines'[n].node = machines[n].node
                                      \/ n = rc.target /\ machines'[n].node = "removed"
        /\ rc'.pc \in {"delete", "patch"}
        /\ rc'.kcp = rc.kcp /\ rc'.target = rc.target /\ rc'.why = rc.why
    BY <1>1, <1>9, RemoveEffect
  <2>3. /\ Known(machines') /\ (kcp.state = "live" => OneOut(machines'))
        /\ ~kcp.initialized => First(machines')
    BY <2>2, MachinesKept DEF NodesKept
  <2>4. CASE rc'.pc = "patch"
    BY <2>1, <2>2, <2>3, <2>4, Ends DEF SameSpec
  <2>5. CASE rc'.pc = "delete"
    <3>1. FinalizerInv'
      BY <2>1, <2>2, <2>5, UnderWay DEF Inv, FinalizerInv
    <3>2. ListInv' /\ RoomInv'
      BY <2>5 DEF ListInv, RoomInv, Listing, Creating
    <3>3. DeletionInv'
      BY <2>1, <2>2, <2>3, <2>5 DEF Inv, DeletionInv, Creating, Kept, Like
    <3>4. InitializedInv'
      BY <2>1, <2>2, <2>3, <2>5 DEF Inv, InitializedInv, Listing, Creating
    <3>5. HealthInv'
      BY <2>3, <2>5 DEF HealthInv, Listing
    <3>6. QED
      BY <3>1, <3>2, <3>3, <3>4, <3>5 DEF Inv
  <2>6. QED
    BY <2>2, <2>4, <2>5
<1>10. CASE DeleteMachine
  <2>1. rc.pc = "delete" /\ kcp' = kcp
    BY <1>10 DEF DeleteMachine
  <2>2. /\ DOMAIN machines' = DOMAIN machines
        /\ \A n \in DOMAIN machines :
             /\ machines'[n].node = machines[n].node
             /\ machines'[n].agentHealthy = machines[n].agentHealthy
             /\ machines'[n].deleting = machines[n].deleting \/ n = rc.target
        /\ rc'.pc = "patch" /\ SameSpec(rc.kcp, rc'.kcp)
    BY <1>1, <1>10, DeleteEffect
  <2>3. OneOut(machines')
    BY <2>1, <2>2 DEF Inv, DeletionInv, OneOut
  <2>4. Known(machines') /\ (~kcp.initialized => First(machines'))
    BY <2>2 DEF Inv, HealthInv, InitializedInv, Known, First
  <2>5. QED
    BY <2>1, <2>2, <2>3, <2>4, Ends
<1>11. CASE DeleteAllMachines
  <2>1. rc.pc = "deleteAll" /\ kcp' = kcp
    BY <1>11 DEF DeleteAllMachines
  <2>2. /\ DOMAIN machines' = DOMAIN machines
        /\ \A n \in DOMAIN machines :
             /\ machines'[n].node = machines[n].node
             /\ machines'[n].agentHealthy = machines[n].agentHealthy
        /\ rc'.pc = "patch" /\ rc'.kcp = rc.kcp
    BY <1>1, <1>11, DeleteAllEffect
  <2>3. kcp.state # "live"
    BY <2>1 DEF Inv, DeletionInv
  <2>4. Known(machines') /\ (~kcp.initialized => First(machines'))
    BY <2>2 DEF Inv, HealthInv, InitializedInv, Known, First
  <2>5. QED
    BY <2>1, <2>2, <2>3, <2>4, Ends DEF SameSpec
<1>12. CASE CreateInfra \/ CreateConfig \/ CleanupFromGeneration
  <2>1. /\ rc.pc \in {"infra", "config", "cleanup"} /\ UNCHANGED <<kcp, machines>>
    BY <1>12 DEF CreateInfra, CreateConfig, CleanupFromGeneration
  <2>2. /\ rc'.kcp = rc.kcp
        /\ \/ rc'.pc \in {"patch", "cleanup"}
           \/ rc.pc \in {"infra", "config"} /\ rc'.pc \in {"config", "machine"}
    <3>1. CASE CreateInfra
      <4>1. PICK step \in {"config", "patch"} : rc' = [rc EXCEPT !.pc = step, !.target = last + 1]
        BY <3>1 DEF CreateInfra
      <4>2. QED
        BY <1>1, <3>1, <4>1 DEF Reconciles, CreateInfra
    <3>2. CASE CreateConfig
      <4>1. Goto("machine") \/ CleanUp({"infra"})
        BY <3>2 DEF CreateConfig
      <4>2. rc'.kcp = rc.kcp /\ rc'.pc \in {"machine", "cleanup"}
        BY <1>1, <4>1, GotoType, CleanUpType DEF Steps
      <4>3. QED
        BY <3>2, <4>2 DEF CreateConfig
    <3>3. CASE CleanupFromGeneration
      <4>1. Goto("patch")
        BY <3>3 DEF CleanupFromGeneration
      <4>2. QED
        BY <1>1, <4>1, GotoType DEF Steps
    <3>4. QED
      BY <1>12, <3>1, <3>2, <3>3
  <2>3. CASE rc'.pc \in {"patch", "cleanup"}
    <3>1. Known(machines') /\ (kcp.state = "live" => OneOut(machines')) /\ (~kcp.initialized => First(machines'))
      BY <2>1 DEF Inv, HealthInv, DeletionInv, InitializedInv
    <3>2. QED
      BY <2>1, <2>2, <2>3, <3>1, Ends DEF SameSpec
  <2>4. CASE rc.pc \in {"infra", "config"} /\ rc'.pc \in {"config", "machine"}
    <3>1. FinalizerInv'
      BY <2>1, <2>2, <2>4, UnderWay DEF Inv, FinalizerInv
    <3>2. ListInv'
      BY <2>4 DEF ListInv, Listing
    <3>3. DeletionInv'
      BY <2>1, <2>2, <2>4 DEF Inv, DeletionInv, Creating
    <3>4. RoomInv'
      BY <2>1, <2>2, <2>4 DEF Inv, RoomInv, Creating
    <3>5. InitializedInv'
      BY <2>1, <2>2, <2>4 DEF Inv, InitializedInv, Listing, Creating
    <3>6. HealthInv'
      BY <2>1, <2>4 DEF Inv, HealthInv, Listing
    <3>7. QED
      BY <3>1, <3>2, <3>3, <3>4, <3>5, <3>6 DEF Inv
  <2>5. QED
    BY <2>2, <2>3, <2>4
<1>13. CASE CreateMachine
  <2>1. rc.pc = "machine" /\ kcp' = kcp
    BY <1>13 DEF CreateMachine
  <2>2. /\ \/ machines' = machines
           \/ /\ DOMAIN machines' = DOMAIN machines \cup {rc.target}
              /\ \A n \in DOMAIN machines : machines'[n] = machines[n]
              /\ rc.target \notin DOMAIN machines =>
                   ~machines'[rc.target].deleting /\ ~machines'[rc.target].agentHealthy
        /\ SameSpec(rc.kcp, rc'.kcp) /\ rc'.pc \in {"patch", "cleanup"}
    BY <1>1, <1>13, <2>1, CreateEffect
  <2>3. Known(machines')
    BY <2>2 DEF Inv, HealthInv, Known
  <2>4. OneOut(machines')
    BY <2>1, <2>2 DEF Inv, DeletionInv, Creating, OneOut
  <2>5. ~kcp.initialized => First(machines')
    BY <2>1, <2>2 DEF Inv, InitializedInv, Creating, First
  <2>6. QED
    BY <2>1, <2>2, <2>3, <2>4, <2>5, Ends
<1>14. CASE PatchControlPlane
  <2>1. rc.pc = "patch" /\ rc'.pc = "idle" /\ machines' = machines
    BY <1>14 DEF PatchControlPlane, Idle
  <2>2. /\ kcp.initialized => kcp'.initialized
        /\ \/ kcp' = kcp
           \/ /\ kcp'.finalizer = rc.kcp.finalizer
              /\ kcp'.state = IF rc.kcp.finalizer THEN kcp.state ELSE "gone"
    BY <1>1, <1>14, PatchEffect
  <2>3. QED
    BY <2>1, <2>2
       DEF Inv, FinalizerInv, ListInv, DeletionInv, RoomInv, InitializedInv, HealthInv, Listing, Creating
<1>15. CASE Crash
  <2>1. rc.pc # "idle" /\ rc'.pc = "idle" /\ UNCHANGED <<kcp, machines>>
    BY <1>15 DEF Crash, Idle, objects
  <2>2. QED
    BY <2>1
       DEF Inv, FinalizerInv, ListInv, DeletionInv, RoomInv, InitializedInv, HealthInv, Listing, Creating
<1>16. CASE Scale \/ Rollout \/ DeleteControlPlane
  <2>1. PICK k : Edit(k) /\ \/ \E n : k = [kcp EXCEPT !.replicas = n]
                            \/ \E r : k = [kcp EXCEPT !.revision = r]
                            \/ k = [kcp EXCEPT !.state = IF kcp.finalizer THEN "deleting" ELSE "gone"]
    BY <1>16 DEF Scale, Rollout, DeleteControlPlane
  <2>2. /\ kcp' = k /\ kcp.state = "live" /\ UNCHANGED <<machines, rc, downSince>>
    BY <2>1 DEF Edit, history
  <2>3. /\ kcp'.finalizer = kcp.finalizer /\ kcp'.initialized = kcp.initialized
        /\ kcp'.state = "gone" => ~kcp.finalizer
    BY <1>1, <2>1, <2>2 DEF ControlPlane
  <2>4. FinalizerInv'
    BY <2>2, <2>3 DEF Inv, FinalizerInv
  <2>5. ListInv' /\ RoomInv'
    BY <2>2 DEF Inv, ListInv, RoomInv
  <2>6. DeletionInv'
    BY <2>2 DEF Inv, DeletionInv
  <2>7. InitializedInv'
    BY <2>2, <2>3 DEF Inv, InitializedInv
  <2>8. HealthInv'
    BY <2>2, <2>3 DEF Inv, HealthInv, Reachable
  <2>9. QED
    BY <2>4, <2>5, <2>6, <2>7, <2>8 DEF Inv
<1>17. CASE WorkersGone \/ Tick \/ UNCHANGED vars
  <2>1. UNCHANGED <<kcp, machines, rc, downSince>>
    BY <1>17 DEF WorkersGone, Tick, vars, objects, history
  <2>2. QED
    BY <2>1 DEF Inv, FinalizerInv, ListInv, DeletionInv, RoomInv, InitializedInv, HealthInv, Reachable
<1>18. QED
  <2>1. CASE \E m \in DOMAIN machines :
               \/ Join(m) \/ NodeFails(m) \/ MarkUnhealthy(m) \/ StartupTimeout(m)
               \/ AskHook(m) \/ MachineReconcile(m) \/ FinishDelete(m) \/ MarkDeleteFirst(m)
    BY <2>1, EnvironmentKeeps, FinishKeeps DEF Environment
  <2>2. CASE ReconcileControlPlane
    BY <1>3, <1>4, <1>5, <1>6, <1>7, <1>8, <1>9, <1>10, <1>11, <1>12, <1>13, <1>14, <2>2
       DEF ReconcileControlPlane, Decision
  <2>3. QED
    BY <1>15, <1>16, <1>17, <2>1, <2>2 DEF Next

LEMMA InvInit == Init => Inv
<1> SUFFICES ASSUME Init PROVE Inv
  OBVIOUS
<1>1. DOMAIN machines = {} /\ rc.pc = "idle" /\ kcp.state = "live"
  BY NoMachinesList DEF Init, Idle, Created
<1>2. QED
  BY <1>1 DEF Inv, FinalizerInv, ListInv, DeletionInv, RoomInv, InitializedInv, HealthInv,
              OneOut, First, Known, Listing, Creating

\* GoneLeavesNothing: the finalizer is given up only by a reconcile that listed no
\* machine, none is created after that, and a control plane deleted while a
\* reconcile clones a machine keeps its finalizer until that machine is gone too.
THEOREM NothingLeftBehind ==
  ASSUME ~MachineCacheLags
  PROVE  Spec => []GoneLeavesNothing
<1>1. TypeInv /\ Inv => GoneLeavesNothing
  BY EmptyList DEF TypeInv, Inv, FinalizerInv, GoneLeavesNothing
<1>2. TypeInv /\ Inv /\ [Next]_vars => Inv'
  BY InvStep
<1>3. QED
  BY <1>1, <1>2, InvInit, TypeInit, TypeStep, PTL DEF Spec

\* OneDeletionAtATime: scale down, rollout and remediation start a deletion only
\* from a list that shows none, or that of the one machine of a control plane not
\* yet initialised, and nobody else starts one before they do.
THEOREM DeletionsInTurn ==
  ASSUME ~MachineCacheLags
  PROVE  Spec => []OneDeletionAtATime
<1>1. TypeInv /\ Inv => OneDeletionAtATime
  <2> SUFFICES ASSUME TypeInv, Inv, kcp.state = "live"
               PROVE  Cardinality({m \in DOMAIN machines : machines[m].deleting}) <= 1
    BY DEF OneDeletionAtATime
  <2> DEFINE S == {m \in DOMAIN machines : machines[m].deleting}
  <2>1. \A m, n \in S : m = n
    BY DEF Inv, DeletionInv, OneOut
  <2>2. CASE S = {}
    <3>1. Cardinality(S) = 0
      BY <2>2, FS_EmptySet
    <3>2. QED
      BY <3>1
  <2>3. CASE S # {}
    <3>1. PICK x \in S : S = {x}
      BY <2>1, <2>3
    <3> HIDE DEF S
    <3>2. Cardinality(S) = 1
      BY <3>1, FS_Singleton
    <3>3. QED
      BY <3>2 DEF S
  <2>4. QED
    BY <2>2, <2>3
<1>2. TypeInv /\ Inv /\ [Next]_vars => Inv'
  BY InvStep
<1>3. QED
  BY <1>1, <1>2, InvInit, TypeInit, TypeStep, PTL DEF Spec

\* Only CreateMachine adds to the machines, and only RemoveNode takes a node out.
LEMMA OnlyCreateAdds ==
  ASSUME TypeInv, [Next]_vars, NEW m \in DOMAIN machines', m \notin DOMAIN machines
  PROVE  CreateMachine
<1>1. machines \in Lists /\ rc \in Reconciles
  BY DEF TypeInv
<1>2. machines' # machines
  OBVIOUS
<1>3. ~UNCHANGED vars /\ ~AddFinalizer /\ ~StartReconcile /\ ~StartDelete
  BY <1>2 DEF vars, objects, AddFinalizer, StartReconcile, StartDelete, Start
<1>4. ~Decision
  BY <1>2 DEF Decision, Remediate, InitializeControlPlane, ScaleUpControlPlane, ScaleDownControlPlane,
              NothingToDo, OnlyLocal, objects
<1>5. ~SyncMachines /\ ~ReconcileConditions /\ ~RemoveNode
  BY <1>1, SyncEffect, ConditionsEffect, RemoveEffect DEF Kept, Like
<1>6. ~DeleteMachine /\ ~DeleteAllMachines
  BY <1>1, DeleteEffect, DeleteAllEffect
<1>7. ~CreateInfra /\ ~CreateConfig /\ ~CleanupFromGeneration /\ ~PatchControlPlane /\ ~Crash
  BY <1>2 DEF CreateInfra, CreateConfig, CleanupFromGeneration, PatchControlPlane, Crash, objects
<1>8. \A n \in DOMAIN machines : ~Environment(n) /\ ~FinishDelete(n)
  BY <1>1, EnvironmentEffect, FinishEffect DEF Kept, Like
<1>9. ~Scale /\ ~Rollout /\ ~DeleteControlPlane /\ ~WorkersGone /\ ~Tick
  BY <1>2 DEF Scale, Rollout, DeleteControlPlane, Edit, WorkersGone, Tick, objects
<1>10. QED
  BY <1>3, <1>4, <1>5, <1>6, <1>7, <1>8, <1>9 DEF Next, ReconcileControlPlane, Decision, Environment

\* NeverTooMany: the list a machine is cloned from still shows every machine when
\* the Machine is created, so the count the room was found by is the count there is.
THEOREM MachinesWithinLimits ==
  ASSUME ~MachineCacheLags
  PROVE  Spec => NeverTooMany
<1> DEFINE Step == \A m \in DOMAIN machines' \ DOMAIN machines :
              LET n == Cardinality(DOMAIN machines')
                  outdated == \E o \in DOMAIN machines : machines[o].revision # rc.kcp.revision
              IN  n <= rc.kcp.replicas \/ (outdated /\ \A surge \in MaxSurge : n <= rc.kcp.replicas + surge)
<1>1. TypeInv /\ Inv /\ [Next]_vars => Step
  <2> SUFFICES ASSUME TypeInv, Inv, [Next]_vars, NEW m \in DOMAIN machines' \ DOMAIN machines
               PROVE  LET n == Cardinality(DOMAIN machines')
                          outdated == \E o \in DOMAIN machines : machines[o].revision # rc.kcp.revision
                      IN  \/ n <= rc.kcp.replicas
                          \/ outdated /\ \A surge \in MaxSurge : n <= rc.kcp.replicas + surge
    OBVIOUS
  <2>1. CreateMachine
    BY OnlyCreateAdds
  <2>2. rc.pc = "machine"
    BY <2>1 DEF CreateMachine
  <2>3. machines \in Lists /\ rc \in Reconciles /\ rc.target \in Machine
    BY <2>2 DEF TypeInv, Machine
  <2>4. DOMAIN machines' = DOMAIN machines \cup {m}
    BY <2>1, <2>3, CreateEffect
  <2>5. Cardinality(DOMAIN machines') = Cardinality(DOMAIN machines) + 1
    <3>1. IsFiniteSet(DOMAIN machines)
      BY <2>3, Counted
    <3>2. QED
      BY <2>4, <3>1, FS_AddElement
  <2>6. Room(machines, rc.kcp)
    BY <2>2 DEF Inv, RoomInv, Creating
  <2>7. QED
    BY <2>5, <2>6 DEF Room
<1>2. TypeInv /\ Inv /\ [Next]_vars => Inv'
  BY InvStep
<1>3. QED
  BY <1>1, <1>2, InvInit, TypeInit, TypeStep, PTL DEF Spec, NeverTooMany

\* ScaleDownWhenStable: from the conditions a reconcile reads to the removal it
\* asks k8sd for, no node is lost that the environment did not take down since.
THEOREM ScaleDownIsStable ==
  ASSUME ~MachineCacheLags
  PROVE  Spec => ScaleDownWhenStable
<1> DEFINE Step == \A m \in DOMAIN machines :
              (rc.pc = "remove" /\ rc.why = "scaleDown" /\ ~downSince
               /\ machines[m].node # "removed" /\ m \in DOMAIN machines' /\ machines'[m].node = "removed")
              => \A n \in DOMAIN machines \ {m} : machines[n].node \in {"ready", "notReady"}
<1>1. TypeInv /\ Inv /\ [Next]_vars => Step
  <2> SUFFICES ASSUME TypeInv, Inv, [Next]_vars, NEW m \in DOMAIN machines,
                      rc.pc = "remove", rc.why = "scaleDown", ~downSince,
                      machines[m].node # "removed", m \in DOMAIN machines', machines'[m].node = "removed"
               PROVE  \A n \in DOMAIN machines \ {m} : machines[n].node \in {"ready", "notReady"}
    OBVIOUS
  <2>1. machines \in Lists /\ rc \in Reconciles
    BY DEF TypeInv
  <2>2. machines' # machines
    OBVIOUS
  <2>3. ~UNCHANGED vars /\ ~Crash /\ ~Scale /\ ~Rollout /\ ~DeleteControlPlane /\ ~WorkersGone /\ ~Tick
    BY <2>2 DEF vars, objects, Crash, Scale, Rollout, DeleteControlPlane, Edit, WorkersGone, Tick
  <2>4. \A n \in DOMAIN machines : ~Environment(n) /\ ~FinishDelete(n)
    BY <2>1, EnvironmentEffect, FinishEffect
  <2>5. ReconcileControlPlane => RemoveNode
    BY DEF ReconcileControlPlane, AddFinalizer, StartReconcile, StartDelete, SyncMachines, ReconcileConditions,
           Remediate, InitializeControlPlane, ScaleUpControlPlane, ScaleDownControlPlane, NothingToDo, Decide,
           DeleteMachine, DeleteAllMachines, CreateInfra, CreateConfig, CreateMachine, CleanupFromGeneration,
           PatchControlPlane
  <2>6. RemoveNode
    BY <2>3, <2>4, <2>5 DEF Next, Environment
  <2>7. m = rc.target
    BY <2>1, <2>6, RemoveEffect
  <2>8. QED
    BY <2>7 DEF Inv, HealthInv, Reachable
<1>2. TypeInv /\ Inv /\ [Next]_vars => Inv'
  BY InvStep
<1>3. QED
  BY <1>1, <1>2, InvInit, TypeInit, TypeStep, PTL DEF Spec, ScaleDownWhenStable

-----------------------------------------------------------------------------
(***************************************************************************)
(* Where the machines are.  The invariant follows the choice of a failure  *)
(* domain from the list it is made from to the call that carries it out,   *)
(* over edits that make the choice one for an older revision.              *)
(***************************************************************************)
\* The machines of a revision that are not on their way out, and how many of them
\* a failure domain has.
Current(ms, revision) == {m \in DOMAIN ms : ~ms[m].deleting /\ ms[m].revision = revision}
Count(ms, revision, fd) == Cardinality(In(ms, Current(ms, revision), fd))

\* The steps that take a machine out.
Taking == {"remove", "delete"}

\* No machine is of a revision still to come, or later than the one that was read.
RevisionInv ==
    /\ \A m \in DOMAIN machines : machines[m].revision <= kcp.revision
    /\ rc.pc # "idle" => /\ rc.kcp.revision <= kcp.revision
                         /\ \A m \in DOMAIN machines : machines[m].revision <= rc.kcp.revision

EvenInv ==
    kcp.state = "live" =>
        \A a, b \in FailureDomains : Count(machines, kcp.revision, a) <= Count(machines, kcp.revision, b) + 1 + tilted

\* The machine being cloned goes where the fewest are.
CloneInv ==
    rc.pc \in Creating =>
        \A a \in FailureDomains : Count(machines, rc.kcp.revision, rc.domain) <= Count(machines, rc.kcp.revision, a)

\* The machine being scaled down is marked, outdated or where the most are.
MayGo(m) ==
    LET d == machines[m]
    IN  \/ d.deleteFirst \/ d.revision # rc.kcp.revision \/ d.domain \notin FailureDomains
        \/ \A a \in FailureDomains : Count(machines, rc.kcp.revision, a) <= Count(machines, rc.kcp.revision, d.domain)

ChoiceInv ==
    rc.pc \in Taking /\ rc.why # "remediate" /\ rc.target \in DOMAIN machines => MayGo(rc.target)

SpreadInv == tilted \in Nat /\ RevisionInv /\ EvenInv /\ CloneInv /\ ChoiceInv

LEMMA CountFinite ==
  ASSUME NEW ms \in Lists, NEW r, NEW fd
  PROVE  IsFiniteSet(In(ms, Current(ms, r), fd)) /\ Count(ms, r, fd) \in Nat
<1>1. IsFiniteSet(DOMAIN ms)
  BY Counted
<1>2. In(ms, Current(ms, r), fd) \subseteq DOMAIN ms
  BY DEF In, Current
<1>3. IsFiniteSet(In(ms, Current(ms, r), fd))
  BY <1>1, <1>2, FS_Subset
<1>4. QED
  BY <1>3, FS_CardinalityType DEF Count

\* The counts depend on the machines that are not being deleted, nothing else.
LEMMA CountSame ==
  ASSUME NEW ms, NEW ns, DOMAIN ns \subseteq DOMAIN ms, \A m \in DOMAIN ms \ DOMAIN ns : ms[m].deleting,
         \A m \in DOMAIN ns : /\ ns[m].deleting = ms[m].deleting /\ ns[m].revision = ms[m].revision
                              /\ ns[m].domain = ms[m].domain
  PROVE  \A r, fd : Count(ns, r, fd) = Count(ms, r, fd)
<1>1. ASSUME NEW r, NEW fd PROVE In(ns, Current(ns, r), fd) = In(ms, Current(ms, r), fd)
  BY DEF In, Current
<1>2. QED
  BY <1>1 DEF Count

\* A machine more.
LEMMA CountAdded ==
  ASSUME NEW ms \in Lists, NEW ns, NEW m, m \notin DOMAIN ms, DOMAIN ns = DOMAIN ms \cup {m},
         \A n \in DOMAIN ms : ns[n] = ms[n], ~ns[m].deleting, NEW r, NEW fd
  PROVE  Count(ns, r, fd) = IF ns[m].revision = r /\ ns[m].domain = fd THEN Count(ms, r, fd) + 1 ELSE Count(ms, r, fd)
<1> DEFINE S == In(ms, Current(ms, r), fd)
           T == In(ns, Current(ns, r), fd)
<1>1. CASE ns[m].revision = r /\ ns[m].domain = fd
  <2>1. T = S \cup {m} /\ m \notin S
    BY <1>1 DEF In, Current
  <2>2. IsFiniteSet(S)
    BY CountFinite
  <2> HIDE DEF S, T
  <2>3. Cardinality(T) = Cardinality(S) + 1
    BY <2>1, <2>2, FS_AddElement
  <2>4. QED
    BY <1>1, <2>3 DEF Count, S, T
<1>2. CASE ~(ns[m].revision = r /\ ns[m].domain = fd)
  <2>1. T = S
    BY <1>2 DEF In, Current
  <2>2. QED
    BY <1>2, <2>1 DEF Count
<1>3. QED
  BY <1>1, <1>2

\* A machine less, for its own revision and failure domain.
LEMMA CountTaken ==
  ASSUME NEW ms \in Lists, NEW ns \in Lists, NEW m \in DOMAIN ms, DOMAIN ns = DOMAIN ms, ns[m].deleting,
         \A n \in DOMAIN ms : ns[n].revision = ms[n].revision /\ ns[n].domain = ms[n].domain,
         \A n \in DOMAIN ms \ {m} : ns[n].deleting = ms[n].deleting, NEW r, NEW fd
  PROVE  /\ Count(ns, r, fd) <= Count(ms, r, fd) /\ Count(ms, r, fd) <= Count(ns, r, fd) + 1
         /\ ~(ms[m].revision = r /\ ms[m].domain = fd) => Count(ns, r, fd) = Count(ms, r, fd)
<1> DEFINE S == In(ms, Current(ms, r), fd)
           T == In(ns, Current(ns, r), fd)
<1>1. IsFiniteSet(S) /\ Count(ms, r, fd) \in Nat /\ Count(ns, r, fd) \in Nat
  BY CountFinite
<1>2. T = S \ {m} /\ (m \in S => ms[m].revision = r /\ ms[m].domain = fd)
  BY DEF In, Current
<1>3. Count(ms, r, fd) = Cardinality(S) /\ Count(ns, r, fd) = Cardinality(T)
  BY DEF Count
<1> HIDE DEF S, T
<1>4. CASE m \in S
  <2>1. Cardinality(T) = Cardinality(S) - 1
    BY <1>1, <1>2, <1>4, FS_RemoveElement
  <2>2. QED
    BY <1>1, <1>2, <1>3, <1>4, <2>1
<1>5. CASE m \notin S
  <2>1. T = S
    BY <1>2, <1>5
  <2>2. QED
    BY <1>1, <1>3, <2>1
<1>6. QED
  BY <1>4, <1>5

\* Steps that neither create nor take out a machine, nor decide to.
LEMMA SpreadQuiet ==
  ASSUME TypeInv, SpreadInv, DOMAIN machines' \subseteq DOMAIN machines,
         \A m \in DOMAIN machines \ DOMAIN machines' : machines[m].deleting,
         \A m \in DOMAIN machines' : Like(machines[m], machines'[m]),
         kcp'.revision = kcp.revision, kcp'.state = "live" => kcp.state = "live", tilted' = tilted,
         \/ rc'.pc = "idle"
         \/ rc'.kcp.revision = kcp.revision /\ rc'.pc \notin Creating \cup Taking
         \/ rc.pc # "idle" /\ rc'.kcp.revision = rc.kcp.revision,
         rc'.pc \in Creating => rc.pc \in Creating /\ rc'.domain = rc.domain,
         rc'.pc \in Taking => rc.pc \in Taking /\ rc'.why = rc.why /\ rc'.target = rc.target
  PROVE  SpreadInv'
<1>1. \A r, fd : Count(machines', r, fd) = Count(machines, r, fd)
  BY CountSame DEF Like
<1>2. tilted' \in Nat /\ EvenInv'
  BY <1>1 DEF SpreadInv, EvenInv
<1>3. RevisionInv'
  <2>1. kcp.revision \in Nat
    BY DEF TypeInv, ControlPlane
  <2>2. QED
    BY <2>1 DEF SpreadInv, RevisionInv, Like
<1>4. CloneInv'
  BY <1>1 DEF SpreadInv, CloneInv, Creating
<1>5. ChoiceInv'
  <2> SUFFICES ASSUME rc'.pc \in Taking, rc'.why # "remediate", rc'.target \in DOMAIN machines'
               PROVE  MayGo(rc.target)'
    BY DEF ChoiceInv
  <2>1. PICK m \in DOMAIN machines' : m = rc.target
    OBVIOUS
  <2>2. MayGo(m) /\ rc'.kcp.revision = rc.kcp.revision
    BY <2>1 DEF SpreadInv, ChoiceInv, Taking
  <2>3. Like(machines[m], machines'[m])
    BY <2>1
  <2>4. QED
    BY <1>1, <2>1, <2>2, <2>3 DEF MayGo, Like
<1>6. QED
  BY <1>2, <1>3, <1>4, <1>5 DEF SpreadInv

\* NextFailureDomainForScaleUp, from a list that is exact, picks a failure domain
\* with the fewest machines of the revision.
LEMMA FewestChosen ==
  ASSUME machines \in Lists, rc.seen \in Lists, Agrees(machines, rc.seen), ~HasDeletingMachine(rc.seen),
         NEW r, NEW fd \in NextFailureDomainForScaleUp(rc.seen, r)
  PROVE  \A a \in FailureDomains : Count(machines, r, fd) <= Count(machines, r, a)
<1> DEFINE new(d) == Cardinality(In(rc.seen, UpToDateMachines(rc.seen, r), d))
           all(d) == Cardinality(In(rc.seen, DOMAIN rc.seen, d))
<1>1. DOMAIN machines = DOMAIN rc.seen /\ \A m \in DOMAIN machines : ~machines[m].deleting
  BY ListIsExact
<1>2. \A m \in DOMAIN machines : /\ rc.seen[m].deleting = machines[m].deleting
                                 /\ rc.seen[m].revision = machines[m].revision
                                 /\ rc.seen[m].domain = machines[m].domain
  BY DEF Agrees
<1>3. ASSUME NEW d PROVE new(d) = Count(machines, r, d)
  <2>1. In(rc.seen, UpToDateMachines(rc.seen, r), d) = In(machines, Current(machines, r), d)
    BY <1>1, <1>2 DEF In, UpToDateMachines, MachinesNeedingRollout, Current
  <2>2. QED
    BY <2>1 DEF Count
<1>4. \A a \in FailureDomains : new(fd) < new(a) \/ new(fd) = new(a)
  BY DEF NextFailureDomainForScaleUp
<1> HIDE DEF new
<1>5. ASSUME NEW a \in FailureDomains PROVE Count(machines, r, fd) <= Count(machines, r, a)
  <2>1. Count(machines, r, fd) \in Nat /\ Count(machines, r, a) \in Nat
    BY CountFinite
  <2>2. QED
    BY <1>3, <1>4, <2>1
<1>6. QED
  BY <1>5

\* selectMachineForScaleDown, from a list that is exact, picks a machine that is
\* marked, outdated, or in the failure domain with the most of the revision.
LEMMA MostChosen ==
  ASSUME machines \in Lists, rc \in Reconciles, Agrees(machines, rc.seen), ~HasDeletingMachine(rc.seen),
         NEW m \in selectMachineForScaleDown(rc.seen, MachinesNeedingRollout(rc.seen, rc.kcp.revision))
  PROVE  MayGo(m)
<1> DEFINE seen == rc.seen
           r == rc.kcp.revision
           outdated == MachinesNeedingRollout(seen, r)
           marked(S) == {n \in S : seen[n].deleteFirst}
           first == IF marked(outdated) # {} THEN marked(outdated) ELSE marked(DOMAIN seen)
           rest == IF outdated # {} THEN outdated ELSE DOMAIN seen
           S == IF first # {} THEN first ELSE rest
<1>1. seen \in Lists /\ DOMAIN machines = DOMAIN seen /\ \A n \in DOMAIN machines : ~machines[n].deleting
  BY ListIsExact DEF Reconciles
<1>2. \A n \in DOMAIN machines : /\ seen[n].deleting = machines[n].deleting
                                 /\ seen[n].revision = machines[n].revision
                                 /\ seen[n].domain = machines[n].domain
                                 /\ seen[n].deleteFirst => machines[n].deleteFirst
  BY DEF Agrees
<1>3. outdated \subseteq DOMAIN seen /\ \A n \in DOMAIN seen : n \in outdated <=> seen[n].revision # r
  BY <1>1, <1>2 DEF MachinesNeedingRollout
<1>4. PICK fd \in FailureDomainWithMostMachines(seen, S) : m = Oldest(In(seen, S, fd))
  BY DEF selectMachineForScaleDown
<1> HIDE DEF outdated
<1>5. S \subseteq DOMAIN seen /\ S \subseteq Nat /\ (S # DOMAIN seen => \A n \in S : seen[n].deleteFirst \/ n \in outdated)
  BY <1>1, <1>3, ListFacts
<1>6. S = DOMAIN seen /\ outdated # {} => \A n \in S : seen[n].deleteFirst \/ n \in outdated
  OBVIOUS
<1> HIDE DEF S, seen
<1> DEFINE stray == {n \in S : seen[n].domain \notin FailureDomains}
           used  == {seen[n].domain : n \in S}
           all(d) == Cardinality(In(seen, DOMAIN seen, d))
<1>7. /\ stray # {} => fd = seen[Oldest(stray)].domain
      /\ stray = {} => fd \in used /\ \A o \in used : all(fd) >= all(o)
  BY <1>4 DEF FailureDomainWithMostMachines
<1>8. stray # {} => Oldest(stray) \in stray
  BY <1>5, OldestIn
<1>9. m \in S /\ seen[m].domain = fd
  <2>1. In(seen, S, fd) # {} /\ In(seen, S, fd) \subseteq S
    BY <1>7, <1>8 DEF In
  <2>2. m \in In(seen, S, fd)
    BY <1>4, <1>5, <2>1, OldestIn
  <2>3. QED
    BY <2>2 DEF In
<1>10. m \in DOMAIN machines /\ machines[m].domain = fd
  BY <1>1, <1>2, <1>5, <1>9
<1>11. CASE stray # {}
  BY <1>7, <1>8, <1>10, <1>11 DEF MayGo
<1>12. CASE seen[m].deleteFirst \/ m \in outdated
  BY <1>1, <1>2, <1>3, <1>10, <1>12 DEF MayGo
<1>13. CASE S = DOMAIN seen /\ outdated = {} /\ stray = {}
  <2>1. ASSUME NEW d PROVE all(d) = Count(machines, r, d)
    <3>1. In(seen, DOMAIN seen, d) = In(machines, Current(machines, r), d)
      BY <1>1, <1>2, <1>3, <1>13 DEF In, Current
    <3>2. QED
      BY <3>1 DEF Count
  <2> HIDE DEF all
  <2>2. ASSUME NEW a \in FailureDomains PROVE Count(machines, r, a) <= Count(machines, r, fd)
    <3>1. Count(machines, r, fd) \in Nat /\ Count(machines, r, a) \in Nat
      BY CountFinite
    <3>2. CASE a \in used
      BY <1>7, <1>13, <2>1, <3>1, <3>2
    <3>3. CASE a \notin used
      <4>1. In(seen, DOMAIN seen, a) = {}
        BY <1>13, <3>3 DEF In
      <4>2. all(a) = 0
        BY <4>1, FS_EmptySet DEF all
      <4>3. QED
        BY <2>1, <3>1, <4>2
    <3>4. QED
      BY <3>2, <3>3
  <2>3. QED
    BY <1>10, <2>2 DEF MayGo
<1>14. QED
  BY <1>5, <1>6, <1>9, <1>11, <1>12, <1>13

\* What a decision makes of the invariant.
LEMMA SpreadDecision ==
  ASSUME TypeInv, Inv, SpreadInv, ~MachineCacheLags, Decision
  PROVE  SpreadInv'
<1>1. OnlyLocal /\ rc.pc = "decide"
  BY DecisionType DEF Decision, Remediate, InitializeControlPlane, ScaleUpControlPlane, ScaleDownControlPlane,
                      NothingToDo, Decide
<1>2. rc \in Reconciles /\ rc.seen \in Lists /\ machines \in Lists /\ now \in 0..MaxClock
  BY DEF TypeInv, Reconciles
<1>3. Agrees(machines, rc.seen)
  BY <1>1 DEF Inv, ListInv, Listing
<1>4. UNCHANGED <<kcp, machines, tilted>>
  BY <1>1 DEF OnlyLocal, objects, history
<1>5. tilted' \in Nat /\ EvenInv' /\ (rc'.pc # "idle" /\ rc'.kcp = rc.kcp => RevisionInv')
  BY <1>1, <1>4 DEF SpreadInv, EvenInv, RevisionInv
<1>6. ASSUME Goto("patch") \/ rc' = Idle PROVE SpreadInv'
  <2>1. rc'.pc = "idle" \/ (rc'.pc = "patch" /\ rc'.kcp = rc.kcp)
    BY <1>2, <1>6, GotoType DEF Steps, Idle
  <2>2. RevisionInv'
    BY <1>4, <1>5, <2>1 DEF SpreadInv, RevisionInv
  <2>3. CloneInv' /\ ChoiceInv'
    BY <2>1 DEF CloneInv, ChoiceInv, Creating, Taking
  <2>4. QED
    BY <1>5, <2>2, <2>3 DEF SpreadInv
<1>7. ASSUME NEW fd \in FailureDomains \cup {NoDomain}, Clone(fd),
             \A a \in FailureDomains : Count(machines, rc.kcp.revision, fd) <= Count(machines, rc.kcp.revision, a)
      PROVE  SpreadInv'
  <2>1. rc'.pc = "infra" /\ rc'.kcp = rc.kcp /\ rc'.domain = fd
    BY <1>2, <1>7, CloneType
  <2>2. CloneInv' /\ ChoiceInv'
    BY <1>4, <1>7, <2>1 DEF CloneInv, ChoiceInv, Taking
  <2>3. QED
    BY <1>5, <2>1, <2>2 DEF SpreadInv
<1>8. ASSUME NEW m \in Machine, NEW why \in {"remediate", "scaleDown"}, NEW data \in RemediationData,
             Take(m, why, data), why = "scaleDown" => MayGo(m)
      PROVE  SpreadInv'
  <2>1. rc'.pc \in Taking /\ rc'.kcp = rc.kcp /\ rc'.target = m /\ rc'.why = why
    BY <1>2, <1>8, TakeType DEF Taking
  <2>2. CloneInv'
    BY <2>1 DEF CloneInv, Creating, Taking
  <2>3. ChoiceInv'
    BY <1>4, <1>8, <2>1 DEF ChoiceInv, MayGo
  <2>4. rc'.pc # "idle"
    BY <2>1 DEF Taking
  <2>5. QED
    BY <1>5, <2>1, <2>2, <2>3, <2>4 DEF SpreadInv
<1>9. CASE Remediate
  <2>1. PICK m \in UnhealthyMachines(rc.seen) :
            LET limits == checkRetryLimits(rc.seen[m].remediationFor, Strategy, now)
            IN  Take(m, "remediate", [machine |-> m, time |-> now, retry |-> limits.retry])
    BY <1>9 DEF Remediate, reconcileUnhealthyMachines
  <2>2. m \in Machine /\ rc.seen[m].remediationFor \in RemediationData
    BY <1>2, ListFacts DEF UnhealthyMachines, MachineData
  <2>3. PICK r \in Nat : r = checkRetryLimits(rc.seen[m].remediationFor, Strategy, now).retry
    BY <2>2, RetryCounted
  <2>4. PICK data \in RemediationData : Take(m, "remediate", data)
    <3>1. [machine |-> m, time |-> now, retry |-> r] \in RemediationData
      BY <1>2, <2>2, <2>3 DEF RemediationData, Machine
    <3>2. QED
      BY <2>1, <2>3, <3>1
  <2>5. QED
    BY <1>8, <2>2, <2>4
<1>10. CASE InitializeControlPlane
  <2>1. GetMachinesForCluster = {machines}
    BY DEF GetMachinesForCluster
  <2>2. \/ Goto("patch")
        \/ /\ DOMAIN machines = {}
           /\ \E fd \in NextFailureDomainForScaleUp(rc.seen, rc.kcp.revision) : Clone(fd)
    BY <1>10, <2>1 DEF InitializeControlPlane
  <2>3. ASSUME DOMAIN machines = {}, NEW fd \in NextFailureDomainForScaleUp(rc.seen, rc.kcp.revision), Clone(fd)
        PROVE  SpreadInv'
    <3>1. ASSUME NEW d PROVE Count(machines, rc.kcp.revision, d) = 0
      <4>1. In(machines, Current(machines, rc.kcp.revision), d) = {}
        BY <2>3 DEF In, Current
      <4>2. QED
        BY <4>1, FS_EmptySet DEF Count
    <3>2. fd \in FailureDomains \cup {NoDomain}
      BY <2>3, DomainChosen
    <3>3. \A a \in FailureDomains : Count(machines, rc.kcp.revision, fd) <= Count(machines, rc.kcp.revision, a)
      BY <3>1
    <3>4. QED
      BY <1>7, <2>3, <3>2, <3>3
  <2>4. QED
    BY <1>6, <2>2, <2>3
<1>11. CASE ScaleUpControlPlane
  <2>1. \/ Goto("patch")
        \/ /\ ~HasDeletingMachine(rc.seen)
           /\ \E fd \in NextFailureDomainForScaleUp(rc.seen, rc.kcp.revision) : Clone(fd)
    BY <1>11 DEF ScaleUpControlPlane, preflightChecks
  <2>2. ASSUME ~HasDeletingMachine(rc.seen), NEW fd \in NextFailureDomainForScaleUp(rc.seen, rc.kcp.revision),
               Clone(fd)
        PROVE  SpreadInv'
    <3>1. fd \in FailureDomains \cup {NoDomain}
      BY <2>2, DomainChosen
    <3>2. \A a \in FailureDomains : Count(machines, rc.kcp.revision, fd) <= Count(machines, rc.kcp.revision, a)
      BY <1>2, <1>3, <2>2, FewestChosen
    <3>3. QED
      BY <1>7, <2>2, <3>1, <3>2
  <2>3. QED
    BY <1>6, <2>1, <2>2
<1>12. CASE ScaleDownControlPlane
  <2> DEFINE outdated == MachinesNeedingRollout(rc.seen, rc.kcp.revision)
  <2>1. PICK m \in selectMachineForScaleDown(rc.seen, outdated) :
            \/ ~HasDeletingMachine(rc.seen) /\ Take(m, "scaleDown", NoData)
            \/ Goto("patch")
    BY <1>12 DEF ScaleDownControlPlane, preflightChecks
  <2>2. CASE ~HasDeletingMachine(rc.seen) /\ Take(m, "scaleDown", NoData)
    <3>1. MayGo(m)
      BY <1>2, <1>3, <2>1, <2>2, MostChosen
    <3>2. outdated \subseteq DOMAIN rc.seen
      BY DEF MachinesNeedingRollout
    <3> HIDE DEF outdated
    <3>3. m \in Machine
      BY <1>2, <2>1, <3>2, SelectedListed, ListFacts
    <3>4. QED
      BY <1>8, <2>2, <3>1, <3>3, IdleType
  <2>3. QED
    BY <1>6, <2>1, <2>2
<1>13. CASE NothingToDo
  BY <1>6, <1>13 DEF NothingToDo
<1>14. QED
  BY <1>9, <1>10, <1>11, <1>12, <1>13 DEF Decision

\* The machine created adds to a failure domain that had the fewest, or is of a
\* revision that is no longer the current one.
LEMMA SpreadCreate ==
  ASSUME TypeInv, SpreadInv, CreateMachine
  PROVE  SpreadInv'
<1>1. /\ rc.pc = "machine" /\ kcp' = kcp /\ tilted' = tilted
  BY DEF CreateMachine
<1>2. /\ machines \in Lists /\ rc \in Reconciles /\ rc.target \in Machine
      /\ kcp.revision \in Nat /\ rc.kcp.revision \in Nat /\ tilted \in Nat
  BY <1>1 DEF TypeInv, Machine, ControlPlane, Reconciles, SpreadInv
<1>3. /\ rc'.pc \in {"patch", "cleanup"} /\ rc'.kcp.revision = rc.kcp.revision
      /\ \/ DOMAIN machines' = DOMAIN machines /\ \A n \in DOMAIN machines : machines'[n] = machines[n]
         \/ /\ rc.target \notin DOMAIN machines
            /\ DOMAIN machines' = DOMAIN machines \cup {rc.target}
            /\ \A n \in DOMAIN machines : machines'[n] = machines[n]
            /\ ~machines'[rc.target].deleting /\ machines'[rc.target].revision = rc.kcp.revision
            /\ machines'[rc.target].domain = rc.domain
  BY <1>2, CreateEffect DEF SameSpec
<1>4. RevisionInv'
  BY <1>1, <1>2, <1>3 DEF SpreadInv, RevisionInv
<1>5. CloneInv' /\ ChoiceInv'
  BY <1>3 DEF CloneInv, ChoiceInv, Creating, Taking
<1>6. EvenInv'
  <2>1. CASE DOMAIN machines' = DOMAIN machines /\ \A n \in DOMAIN machines : machines'[n] = machines[n]
    <3>1. \A r, fd : Count(machines', r, fd) = Count(machines, r, fd)
      BY <2>1, CountSame
    <3>2. QED
      BY <1>1, <3>1 DEF SpreadInv, EvenInv
  <2>2. CASE /\ rc.target \notin DOMAIN machines
             /\ DOMAIN machines' = DOMAIN machines \cup {rc.target}
             /\ \A n \in DOMAIN machines : machines'[n] = machines[n]
             /\ ~machines'[rc.target].deleting /\ machines'[rc.target].revision = rc.kcp.revision
             /\ machines'[rc.target].domain = rc.domain
    <3> SUFFICES ASSUME kcp.state = "live", NEW a \in FailureDomains, NEW b \in FailureDomains
                 PROVE  Count(machines', kcp.revision, a) <= Count(machines', kcp.revision, b) + 1 + tilted
      BY <1>1 DEF EvenInv
    <3> DEFINE r == kcp.revision
    <3>1. PICK na \in Nat, nb \in Nat : na = Count(machines, r, a) /\ nb = Count(machines, r, b)
      BY <1>2, CountFinite
    <3>2. na <= nb + 1 + tilted
      BY <3>1 DEF SpreadInv, EvenInv
    <3>3. rc.kcp.revision = r /\ rc.domain = a => na <= nb
      BY <1>1, <3>1 DEF SpreadInv, CloneInv, Creating
    <3>4. ASSUME NEW d PROVE Count(machines', r, d) = IF rc.kcp.revision = r /\ rc.domain = d
                                                      THEN Count(machines, r, d) + 1 ELSE Count(machines, r, d)
      BY <1>2, <2>2, CountAdded
    <3>5. /\ Count(machines', r, a) = IF rc.kcp.revision = r /\ rc.domain = a THEN na + 1 ELSE na
          /\ Count(machines', r, b) = IF rc.kcp.revision = r /\ rc.domain = b THEN nb + 1 ELSE nb
      BY <3>1, <3>4
    <3> HIDE DEF r
    <3>6. QED
      BY <1>2, <3>1, <3>2, <3>3, <3>5 DEF r
  <2>3. QED
    BY <1>3, <2>1, <2>2
<1>7. QED
  BY <1>1, <1>2, <1>4, <1>5, <1>6 DEF SpreadInv

\* The machine taken out was in a failure domain that had the most, does not count,
\* or is counted in tilted.
LEMMA SpreadDelete ==
  ASSUME TypeInv, SpreadInv, DeleteMachine
  PROVE  SpreadInv'
<1>1. rc.pc = "delete" /\ kcp' = kcp
  BY DEF DeleteMachine
<1>2. /\ machines \in Lists /\ rc \in Reconciles /\ kcp.revision \in Nat /\ rc.kcp.revision \in Nat
      /\ tilted \in Nat
  BY DEF TypeInv, ControlPlane, Reconciles, SpreadInv
<1>3. /\ machines' \in Lists /\ DOMAIN machines' = DOMAIN machines
      /\ \A n \in DOMAIN machines :
           /\ machines'[n].revision = machines[n].revision
           /\ machines'[n].domain = machines[n].domain
           /\ machines'[n].deleting = machines[n].deleting \/ (n = rc.target /\ machines'[n].deleting)
      /\ rc'.pc = "patch" /\ rc'.kcp.revision = rc.kcp.revision
  BY <1>2, DeleteEffect DEF SameSpec
<1>4. RevisionInv'
  BY <1>1, <1>3 DEF SpreadInv, RevisionInv
<1>5. CloneInv' /\ ChoiceInv'
  BY <1>3 DEF CloneInv, ChoiceInv, Creating, Taking
<1>6. /\ tilted' \in Nat /\ (tilted' = tilted \/ tilted' = tilted + 1)
      /\ machines' # machines /\ (rc.why = "remediate" \/ machines[rc.target].deleteFirst) => tilted' = tilted + 1
      /\ machines' # machines => rc.target \in DOMAIN machines /\ machines'[rc.target].deleting
  <2>1. PICK o : /\ tilted' = IF Took(o) /\ rc.target \in DOMAIN machines
                                 /\ (rc.why = "remediate" \/ machines[rc.target].deleteFirst)
                              THEN tilted + 1 ELSE tilted
                 /\ machines' = IF Took(o) /\ rc.target \in DOMAIN machines
                                THEN [machines EXCEPT ![rc.target].deleting = TRUE] ELSE machines
    BY DEF DeleteMachine
  <2>2. machines' # machines => Took(o) /\ rc.target \in DOMAIN machines
    BY <2>1
  <2>3. machines' # machines => machines'[rc.target].deleting
    BY <1>3, <2>1, <2>2
  <2>4. QED
    BY <1>2, <2>1, <2>2, <2>3
<1>7. EvenInv'
  <2> SUFFICES ASSUME kcp.state = "live", NEW a \in FailureDomains, NEW b \in FailureDomains
               PROVE  Count(machines', kcp.revision, a) <= Count(machines', kcp.revision, b) + 1 + tilted'
    BY <1>1 DEF EvenInv
  <2> DEFINE r == kcp.revision
  <2>1. PICK na \in Nat, nb \in Nat : na = Count(machines, r, a) /\ nb = Count(machines, r, b)
    BY <1>2, CountFinite
  <2>2. PICK ma \in Nat, mb \in Nat : ma = Count(machines', r, a) /\ mb = Count(machines', r, b)
    BY <1>3, CountFinite
  <2>3. na <= nb + 1 + tilted
    BY <2>1 DEF SpreadInv, EvenInv
  <2>4. CASE machines' = machines
    BY <1>2, <1>6, <2>1, <2>3, <2>4
  <2>5. CASE machines' # machines
    <3>1. PICK m \in DOMAIN machines : m = rc.target /\ machines'[m].deleting
      BY <1>6, <2>5
    <3>2. /\ ma <= na /\ nb <= mb + 1
          /\ ~(machines[m].revision = r /\ machines[m].domain = b) => mb = nb
      <4>1. ASSUME NEW d PROVE /\ Count(machines', r, d) <= Count(machines, r, d)
                               /\ Count(machines, r, d) <= Count(machines', r, d) + 1
                               /\ ~(machines[m].revision = r /\ machines[m].domain = d)
                                    => Count(machines', r, d) = Count(machines, r, d)
        BY <1>2, <1>3, <3>1, CountTaken
      <4>2. QED
        BY <2>1, <2>2, <4>1
    <3>3. CASE tilted' = tilted + 1
      BY <1>2, <2>1, <2>2, <2>3, <3>2, <3>3
    <3>4. CASE mb = nb
      BY <1>2, <1>6, <2>1, <2>2, <2>3, <3>2, <3>4
    <3>5. CASE tilted' = tilted /\ machines[m].revision = r /\ machines[m].domain = b
      <4>1. rc.why # "remediate" /\ ~machines[m].deleteFirst
        BY <1>2, <1>6, <2>5, <3>1, <3>5
      <4>2. MayGo(m)
        BY <1>1, <3>1, <4>1 DEF SpreadInv, ChoiceInv, Taking
      <4>3. rc.kcp.revision = r
        BY <1>1, <1>2, <3>1, <3>5 DEF SpreadInv, RevisionInv
      <4>4. na <= nb
        BY <2>1, <3>5, <4>1, <4>2, <4>3 DEF MayGo
      <4>5. QED
        BY <1>2, <2>1, <2>2, <3>2, <3>5, <4>4
    <3>6. QED
      BY <1>6, <3>2, <3>3, <3>4, <3>5
  <2>6. QED
    BY <2>4, <2>5
<1>8. QED
  BY <1>4, <1>5, <1>6, <1>7 DEF SpreadInv

LEMMA SpreadStep ==
  ASSUME ~MachineCacheLags
  PROVE  TypeInv /\ Inv /\ SpreadInv /\ [Next]_vars => SpreadInv'
<1> SUFFICES ASSUME TypeInv, Inv, SpreadInv, [Next]_vars PROVE SpreadInv'
  OBVIOUS
<1>1. /\ kcp \in ControlPlane /\ machines \in Lists /\ rc \in Reconciles /\ rc.kcp \in ControlPlane
  BY DEF TypeInv, Reconciles
<1>2. \A m \in DOMAIN machines : Like(machines[m], machines[m])
  BY DEF Like
<1>3. CASE AddFinalizer \/ Scale \/ DeleteControlPlane
  <2>1. /\ rc' = rc /\ machines' = machines /\ tilted' = tilted
    BY <1>3 DEF AddFinalizer, Scale, DeleteControlPlane, Edit, history
  <2>2. kcp'.revision = kcp.revision /\ (kcp'.state = "live" => kcp.state = "live")
    <3>1. \/ kcp.state = "live" /\ \E b : kcp' = [kcp EXCEPT !.finalizer = b]
          \/ kcp.state = "live" /\ \E n : kcp' = [kcp EXCEPT !.replicas = n]
          \/ kcp.state = "live" /\ \E s : kcp' = [kcp EXCEPT !.state = s]
      BY <1>3 DEF AddFinalizer, Scale, DeleteControlPlane, Edit
    <3>2. QED
      BY <1>1, <3>1 DEF ControlPlane
  <2>3. QED
    BY <1>2, <2>1, <2>2, SpreadQuiet DEF Creating, Taking
<1>4. CASE StartReconcile \/ StartDelete
  <2>1. UNCHANGED <<kcp, machines, tilted>>
    BY <1>4 DEF StartReconcile, StartDelete, Start, objects
  <2>2. rc'.pc \in {"sync", "conditions", "patch"} /\ rc'.kcp.revision = kcp.revision
    <3> DEFINE k0 == [kcp EXCEPT !.finalizer = FALSE]
    <3>1. k0 \in ControlPlane /\ k0.revision = kcp.revision
      BY <1>1 DEF ControlPlane
    <3> HIDE DEF k0
    <3>2. PICK step \in {"sync", "conditions", "patch"}, k \in {kcp, k0}, seen \in GetMachinesForCluster :
              Start(step, k, seen)
      BY <1>4 DEF StartReconcile, StartDelete, k0
    <3>3. k \in ControlPlane /\ k.revision = kcp.revision /\ seen \in Lists
      BY <1>1, <3>1 DEF GetMachinesForCluster
    <3>4. QED
      BY <3>2, <3>3, StartType DEF Steps
  <2>3. QED
    BY <1>2, <2>1, <2>2, SpreadQuiet DEF Creating, Taking
<1>5. CASE SyncMachines \/ ReconcileConditions
  <2>1. kcp' = kcp /\ tilted' = tilted /\ rc.pc # "idle"
    BY <1>5 DEF SyncMachines, ReconcileConditions, history
  <2>2. /\ Kept(machines, machines') /\ rc'.kcp = rc.kcp
        /\ rc'.pc \in {"conditions", "decide", "deleteAll", "patch"}
    BY <1>1, <1>5, SyncEffect, ConditionsEffect
  <2>3. QED
    BY <2>1, <2>2, SpreadQuiet DEF Kept, Creating, Taking
<1>6. CASE Decision
  BY <1>6, SpreadDecision
<1>7. CASE RemoveNode
  <2>1. kcp' = kcp /\ tilted' = tilted /\ rc.pc = "remove"
    BY <1>7 DEF RemoveNode, history
  <2>2. /\ Kept(machines, machines') /\ rc'.kcp = rc.kcp /\ rc'.pc \in {"delete", "patch"}
        /\ rc'.target = rc.target /\ rc'.why = rc.why
    BY <1>1, <1>7, RemoveEffect
  <2>3. QED
    BY <2>1, <2>2, SpreadQuiet DEF Kept, Creating, Taking
<1>8. CASE DeleteMachine
  BY <1>8, SpreadDelete
<1>9. CASE DeleteAllMachines
  <2>1. kcp' = kcp /\ tilted' = tilted /\ rc.pc = "deleteAll"
    BY <1>9 DEF DeleteAllMachines, history
  <2>2. kcp.state # "live"
    BY <2>1 DEF Inv, DeletionInv
  <2>3. /\ DOMAIN machines' = DOMAIN machines
        /\ \A n \in DOMAIN machines : machines'[n].revision = machines[n].revision
        /\ rc'.pc = "patch" /\ rc'.kcp = rc.kcp
    BY <1>1, <1>9, DeleteAllEffect
  <2>4. RevisionInv'
    BY <2>1, <2>3 DEF SpreadInv, RevisionInv
  <2>5. EvenInv' /\ CloneInv' /\ ChoiceInv'
    BY <2>1, <2>2, <2>3 DEF EvenInv, CloneInv, ChoiceInv, Creating, Taking
  <2>6. QED
    BY <2>1, <2>4, <2>5 DEF SpreadInv
<1>10. CASE CreateInfra \/ CreateConfig \/ CleanupFromGeneration
  <2>1. UNCHANGED <<kcp, machines, tilted>> /\ rc.pc # "idle"
    BY <1>10 DEF CreateInfra, CreateConfig, CleanupFromGeneration, history
  <2>2. /\ rc'.kcp = rc.kcp /\ rc'.domain = rc.domain
        /\ \/ rc'.pc \in {"patch", "cleanup"}
           \/ rc.pc \in Creating /\ rc'.pc \in Creating
    <3>1. CASE CreateInfra
      <4>1. PICK step \in {"config", "patch"} : rc' = [rc EXCEPT !.pc = step, !.target = last + 1]
        BY <3>1 DEF CreateInfra
      <4>2. QED
        BY <1>1, <3>1, <4>1 DEF Reconciles, CreateInfra, Creating
    <3>2. CASE CreateConfig
      <4>1. Goto("machine") \/ CleanUp({"infra"})
        BY <3>2 DEF CreateConfig
      <4>2. rc'.kcp = rc.kcp /\ rc'.domain = rc.domain /\ rc'.pc \in {"machine", "cleanup"}
        BY <1>1, <4>1, GotoType, CleanUpType DEF Steps
      <4>3. QED
        BY <3>2, <4>2 DEF CreateConfig, Creating
    <3>3. CASE CleanupFromGeneration
      <4>1. Goto("patch")
        BY <3>3 DEF CleanupFromGeneration
      <4>2. QED
        BY <1>1, <4>1, GotoType DEF Steps
    <3>4. QED
      BY <1>10, <3>1, <3>2, <3>3
  <2>3. QED
    BY <1>2, <2>1, <2>2, SpreadQuiet DEF Creating, Taking
<1>11. CASE CreateMachine
  BY <1>11, SpreadCreate
<1>12. CASE PatchControlPlane
  <2>1. rc'.pc = "idle" /\ machines' = machines /\ tilted' = tilted
    BY <1>12 DEF PatchControlPlane, Idle
  <2>2. kcp'.revision = kcp.revision /\ (kcp'.state = "live" => kcp.state = "live")
    <3>1. /\ kcp'.revision = kcp.revision
          /\ kcp' = kcp \/ kcp'.state = IF rc.kcp.finalizer THEN kcp.state ELSE "gone"
      BY <1>1, <1>12, PatchEffect
    <3>2. QED
      BY <3>1
  <2>3. QED
    BY <1>2, <2>1, <2>2, SpreadQuiet DEF Creating, Taking
<1>13. CASE Crash
  <2>1. rc'.pc = "idle" /\ UNCHANGED <<kcp, machines, tilted>>
    BY <1>13 DEF Crash, Idle, objects
  <2>2. QED
    BY <1>2, <2>1, SpreadQuiet DEF Creating, Taking
<1>14. ASSUME NEW m \in DOMAIN machines, Environment(m) PROVE SpreadInv'
  <2>1. UNCHANGED <<kcp, rc, tilted>>
    BY <1>14 DEF Environment, Join, NodeFails, MarkUnhealthy, StartupTimeout, AskHook,
                 MachineReconcile, MarkDeleteFirst, OnlyMachines, history
  <2>2. Kept(machines, machines')
    BY <1>1, <1>14, EnvironmentEffect
  <2>3. QED
    BY <2>1, <2>2, SpreadQuiet DEF Kept, Creating, Taking
<1>15. ASSUME NEW m \in DOMAIN machines, FinishDelete(m) PROVE SpreadInv'
  <2>1. UNCHANGED <<kcp, rc, tilted>> /\ machines[m].deleting
    BY <1>15 DEF FinishDelete, OnlyMachines
  <2>2. DOMAIN machines' = DOMAIN machines \ {m} /\ \A n \in DOMAIN machines' : machines'[n] = machines[n]
    BY <1>1, <1>15, FinishEffect
  <2>3. QED
    BY <1>2, <2>1, <2>2, SpreadQuiet DEF Creating, Taking
<1>16. CASE Rollout
  <2>1. /\ kcp' = [kcp EXCEPT !.revision = kcp.revision + 1] /\ UNCHANGED <<machines, rc, tilted>>
    BY <1>16 DEF Rollout, Edit, history
  <2>2. kcp.revision \in Nat /\ rc.kcp.revision \in Nat /\ kcp'.revision = kcp.revision + 1
    BY <1>1, <2>1 DEF ControlPlane
  <2>3. \A m \in DOMAIN machines : machines[m].revision \in Nat
    BY <1>1, ListFacts DEF MachineData
  <2>4. RevisionInv'
    BY <2>1, <2>2, <2>3 DEF SpreadInv, RevisionInv
  <2>5. ASSUME NEW fd PROVE Count(machines', kcp'.revision, fd) = 0
    <3>1. In(machines', Current(machines', kcp'.revision), fd) = {}
      BY <2>1, <2>2, <2>3 DEF SpreadInv, RevisionInv, In, Current
    <3>2. QED
      BY <3>1, FS_EmptySet DEF Count
  <2>6. EvenInv'
    BY <2>1, <2>5 DEF EvenInv, SpreadInv
  <2>7. CloneInv' /\ ChoiceInv'
    BY <2>1 DEF SpreadInv, CloneInv, ChoiceInv, MayGo
  <2>8. QED
    BY <2>1, <2>4, <2>6, <2>7 DEF SpreadInv
<1>17. CASE WorkersGone \/ Tick \/ UNCHANGED vars
  <2>1. UNCHANGED <<kcp, machines, rc, tilted>>
    BY <1>17 DEF WorkersGone, Tick, vars, objects, history
  <2>2. QED
    BY <1>2, <2>1, SpreadQuiet DEF Creating, Taking
<1>18. QED
  <2>1. CASE \E m \in DOMAIN machines :
               \/ Join(m) \/ NodeFails(m) \/ MarkUnhealthy(m) \/ StartupTimeout(m)
               \/ AskHook(m) \/ MachineReconcile(m) \/ FinishDelete(m) \/ MarkDeleteFirst(m)
    BY <1>14, <1>15, <2>1 DEF Environment
  <2>2. CASE ReconcileControlPlane
    BY <1>3, <1>4, <1>5, <1>6, <1>7, <1>8, <1>9, <1>10, <1>11, <1>12, <2>2
       DEF ReconcileControlPlane, Decision
  <2>3. QED
    BY <1>3, <1>13, <1>16, <1>17, <2>1, <2>2 DEF Next

LEMMA SpreadInit == Init => SpreadInv
<1> SUFFICES ASSUME Init PROVE SpreadInv
  OBVIOUS
<1>1. DOMAIN machines = {} /\ rc.pc = "idle" /\ tilted = 0
  BY NoMachinesList DEF Init, Idle
<1>2. ASSUME NEW r, NEW fd PROVE Count(machines, r, fd) = 0
  <2>1. In(machines, Current(machines, r), fd) = {}
    BY <1>1 DEF In, Current
  <2>2. QED
    BY <2>1, FS_EmptySet DEF Count
<1>3. QED
  BY <1>1, <1>2 DEF SpreadInv, RevisionInv, EvenInv, CloneInv, ChoiceInv, Creating, Taking

\* SpreadEvenly: a new machine goes where the list shows the fewest of its revision
\* and a scale down takes one from where it shows the most, nothing changes these
\* counts before the call is made, and a rollout starts a count of its own; so two
\* failure domains differ by one, and by one more for each machine remediated or
\* marked to be deleted first.
THEOREM SpreadIsEven ==
  ASSUME ~MachineCacheLags
  PROVE  Spec => []SpreadEvenly
<1>1. SpreadInv => SpreadEvenly
  BY DEF SpreadInv, EvenInv, SpreadEvenly, Count, Current
<1>2. TypeInv /\ Inv /\ [Next]_vars => Inv'
  BY InvStep
<1>3. TypeInv /\ Inv /\ SpreadInv /\ [Next]_vars => SpreadInv'
  BY SpreadStep
<1>4. QED
  BY <1>1, <1>2, <1>3, InvInit, TypeInit, TypeStep, SpreadInit, PTL DEF Spec

-----------------------------------------------------------------------------
(***************************************************************************)
(* How often a machine is remediated.  The count is not kept in one place: *)
(* it goes from the machine that is remediated to the annotation of the    *)
(* CK8sControlPlane, in memory first, and from there to its replacement.   *)
(* The invariant says where the count of each line of machines is.         *)
(***************************************************************************)
\* Remediations i to j of a line each came soon after the one before.
Close(s, i, j) == \A k \in i..(j - 1) : s[k + 1] - s[k] < MinHealthyPeriod

Limited(s) ==
    \A i, j \in DOMAIN s : i < j /\ Close(s, i, j) =>
        s[i + 1] - s[i] >= RetryPeriod /\ \A max \in MaxRetry : j - i <= max

\* The data d of the last remediation in s counts the ones that were close.
Recorded(s, d) ==
    /\ d # NoData /\ Len(s) > 0 /\ s[Len(s)] = d.time
    /\ \A i \in DOMAIN s : Close(s, i, Len(s)) => Len(s) - i <= d.retry
    /\ \A max \in MaxRetry : d.retry <= max

\* A line that was never remediated has no data, any other has its last.
Follows(s, d) == (d = NoData /\ s = <<>>) \/ Recorded(s, d)

\* The remediation in progress, as the next reconcile or this one sees it.
InProgress == IF rc.pc = "idle" THEN kcp.remediationInProgress ELSE rc.kcp.remediationInProgress

\* The numbers of the machines created or given up so far.
Cloning == {"config", "machine"}
Used == IF rc.pc \in Cloning THEN 1..(last - 1) ELSE 1..last

\* A number not used yet is of no line.
FreshInv ==
    /\ unrecorded \in BOOLEAN
    /\ remediated \in [Machine -> Seq(0..MaxClock)] /\ origin \in [Machine -> Machine]
    /\ rc.pc \in Cloning => rc.target = last
    /\ DOMAIN machines \subseteq Used /\ \A m \in DOMAIN machines : origin[m] \in Used
    /\ replacing \in Used \cup {0}
    /\ \A m \in Machine \ Used : origin[m] = m /\ remediated[m] = <<>>

\* A machine is remediated within the limits, and only when no other is.
LimitInv ==
    rc.pc \in Taking /\ rc.why = "remediate" =>
        /\ rc.kcp.remediationInProgress = NoData
        /\ rc.target \in DOMAIN machines /\ ~machines[rc.target].deleting
        /\ rc.data.machine # 0
        /\ checkRetryLimits(machines[rc.target].remediationFor, Strategy, rc.data.time).can
        /\ checkRetryLimits(machines[rc.target].remediationFor, Strategy, rc.data.time).retry = rc.data.retry

\* What the reconcile read stays what is written, up to its end.
NotedInv == rc.pc \notin {"idle", "patch"} => rc.kcp.remediationInProgress = kcp.remediationInProgress

\* Each line has one machine that is not being deleted, or is being replaced.
LineInv ==
    /\ replacing = 0 <=> InProgress = NoData
    /\ replacing # 0 => /\ Recorded(remediated[replacing], InProgress)
                        /\ \A m \in DOMAIN machines : ~machines[m].deleting => origin[m] # replacing
    /\ \A m, n \in DOMAIN machines :
         ~machines[m].deleting /\ ~machines[n].deleting /\ origin[m] = origin[n] => m = n
    /\ \A m \in DOMAIN machines :
         ~machines[m].deleting => Follows(remediated[origin[m]], machines[m].remediationFor)
    /\ \A m \in Machine : Limited(remediated[m])

RetryInv == FreshInv /\ LimitInv /\ NotedInv /\ (~unrecorded => LineInv)

\* A remediation within the limits keeps the line within them, and is counted.
LEMMA RemediationCounted ==
  ASSUME NEW s \in Seq(0..MaxClock), Limited(s), NEW d \in RemediationData, Follows(s, d),
         NEW e \in RemediationData, e.machine # 0,
         checkRetryLimits(d, Strategy, e.time).can, checkRetryLimits(d, Strategy, e.time).retry = e.retry
  PROVE  Limited(Append(s, e.time)) /\ Recorded(Append(s, e.time), e)
<1> DEFINE t == e.time
           u == Append(s, t)
           n == Len(s)
<1>1. /\ t \in Nat /\ e.retry \in Nat /\ d.time \in Nat /\ d.retry \in Nat /\ e # NoData
  BY DEF RemediationData, NoData
<1>2. /\ n \in Nat /\ DOMAIN s = 1..n /\ \A i \in 1..n : s[i] \in Nat
  OBVIOUS
<1>3. /\ Len(u) = n + 1 /\ DOMAIN u = 1..(n + 1) /\ u[n + 1] = t
      /\ \A i \in 1..n : u[i] = s[i]
  OBVIOUS
<1> DEFINE same == d # NoData /\ d.time + MinHealthyPeriod > t
<1>4. /\ same => d.time + RetryPeriod <= t /\ (\A max \in MaxRetry : d.retry < max) /\ e.retry = d.retry + 1
      /\ ~same => e.retry = 0
  <2>1. d.time # ZeroTime
    BY <1>1 DEF ZeroTime
  <2>2. QED
    BY <2>1 DEF checkRetryLimits, Strategy
<1> HIDE DEF u, n, t
<1>5. ASSUME NEW i \in 1..n, NEW j \in 1..n, Close(u, i, j) PROVE Close(s, i, j)
  BY <1>2, <1>3, <1>5 DEF Close
<1>6. CASE s = <<>>
  <2>1. n = 0 /\ d = NoData
    BY <1>6 DEF n, Follows, Recorded
  <2>2. e.retry = 0
    BY <1>4, <2>1
  <2>3. Limited(u)
    BY <1>3, <2>1 DEF Limited
  <2>4. Recorded(u, e)
    <3>1. Len(u) = 1 /\ u[1] = e.time /\ DOMAIN u = {1}
      BY <1>3, <2>1 DEF t
    <3>2. \A max \in MaxRetry : e.retry <= max
      BY <2>2
    <3>3. QED
      BY <1>1, <2>2, <3>1, <3>2 DEF Recorded
  <2>5. QED
    BY <2>3, <2>4 DEF u, t
<1>7. CASE Recorded(s, d)
  <2>1. /\ n \in Nat \ {0} /\ d.time = s[n] /\ d # NoData
        /\ \A i \in 1..n : Close(s, i, n) => n - i <= d.retry
        /\ \A max \in MaxRetry : d.retry <= max
    BY <1>2, <1>7 DEF Recorded, n
  <2>2. ASSUME NEW i \in 1..n, Close(u, i, n + 1)
        PROVE  same /\ Close(s, i, n)
    <3>1. n \in i..((n + 1) - 1)
      BY <2>1
    <3>2. u[n + 1] - u[n] < MinHealthyPeriod
      BY <2>2, <3>1 DEF Close
    <3>3. t - d.time < MinHealthyPeriod
      BY <1>3, <2>1, <3>2
    <3>4. same
      BY <1>1, <2>1, <3>3
    <3>5. \A k \in i..(n - 1) : k \in i..((n + 1) - 1)
      BY <2>1
    <3>6. Close(u, i, n)
      BY <2>2, <3>5 DEF Close
    <3>7. QED
      BY <1>5, <2>1, <3>4, <3>6
  <2> HIDE DEF same
  <2>3. \A i \in 1..(n + 1) : Close(u, i, n + 1) => n + 1 - i <= e.retry
    <3>1. ASSUME NEW i \in 1..n, Close(u, i, n + 1) PROVE n + 1 - i <= e.retry
      <4>1. e.retry = d.retry + 1 /\ n - i <= d.retry
        BY <1>4, <2>1, <2>2, <3>1
      <4>2. QED
        BY <1>1, <2>1, <4>1
    <3>2. n + 1 - (n + 1) <= e.retry
      BY <1>1, <2>1
    <3>3. QED
      BY <2>1, <3>1, <3>2
  <2>4. \A max \in MaxRetry : e.retry <= max
    BY <1>1, <1>4
  <2>5. Recorded(u, e)
    BY <1>1, <1>3, <2>1, <2>3, <2>4 DEF Recorded, t
  <2>6. ASSUME NEW i \in 1..(n + 1), NEW j \in 1..(n + 1), i < j, Close(u, i, j)
        PROVE  u[i + 1] - u[i] >= RetryPeriod /\ \A max \in MaxRetry : j - i <= max
    <3>1. CASE j \in 1..n
      <4>1. i \in 1..n /\ i + 1 \in 1..n /\ Close(s, i, j)
        BY <1>5, <2>1, <2>6, <3>1
      <4>2. s[i + 1] - s[i] >= RetryPeriod /\ \A max \in MaxRetry : j - i <= max
        BY <1>2, <2>6, <3>1, <4>1 DEF Limited
      <4>3. QED
        BY <1>3, <4>1, <4>2
    <3>2. CASE j = n + 1
      <4>1. i \in 1..n
        BY <2>1, <2>6, <3>2
      <4>2. same /\ Close(s, i, n)
        BY <2>2, <2>6, <3>2, <4>1
      <4>3. \A max \in MaxRetry : j - i <= max
        <5>1. PICK k \in Int : k = j - i /\ k <= e.retry
          BY <2>1, <2>3, <2>6, <3>2, <4>1
        <5>2. ASSUME NEW max \in MaxRetry PROVE k <= max
          <6>1. max \in Nat /\ e.retry <= max
            BY <2>4
          <6>2. QED
            BY <1>1, <5>1, <6>1
        <5>3. QED
          BY <5>1, <5>2
      <4>4. u[i + 1] - u[i] >= RetryPeriod
        <5>1. CASE i = n
          <6>1. u[i + 1] = t /\ u[i] = d.time
            BY <1>3, <2>1, <5>1
          <6>2. QED
            BY <1>1, <1>4, <4>2, <6>1
        <5>2. CASE i < n
          <6>1. n \in DOMAIN s /\ i \in DOMAIN s /\ i + 1 \in 1..n
            BY <1>2, <2>1, <4>1, <5>2
          <6>2. s[i + 1] - s[i] >= RetryPeriod
            BY <4>2, <5>2, <6>1 DEF Limited
          <6>3. QED
            BY <1>3, <4>1, <6>1, <6>2
        <5>3. QED
          BY <2>1, <4>1, <5>1, <5>2
      <4>5. QED
        BY <4>3, <4>4
    <3>3. QED
      BY <2>1, <3>1, <3>2
  <2>7. Limited(u)
    BY <1>3, <2>6 DEF Limited
  <2>8. QED
    BY <2>5, <2>7 DEF u, t
<1>8. QED
  BY <1>6, <1>7 DEF Follows

\* Steps that start no remediation and end none.
LEMMA RetryQuiet ==
  ASSUME TypeInv, RetryInv, DOMAIN machines' \subseteq DOMAIN machines,
         \A m \in DOMAIN machines' : /\ machines'[m].remediationFor = machines[m].remediationFor
                                     /\ ~machines'[m].deleting => ~machines[m].deleting,
         UNCHANGED <<origin, replacing, remediated>>, unrecorded' \in BOOLEAN,
         ~unrecorded' => ~unrecorded /\ InProgress' = InProgress,
         Used \subseteq Used',
         rc'.pc \in Cloning => rc'.target = last',
         rc'.pc \notin {"idle", "patch"} => rc'.kcp.remediationInProgress = kcp'.remediationInProgress,
         rc'.pc \in Taking => /\ rc.pc \in Taking /\ rc'.why = rc.why /\ rc'.target = rc.target
                              /\ rc'.data = rc.data /\ rc'.kcp = rc.kcp
                              /\ \A m \in DOMAIN machines : ~machines[m].deleting =>
                                   m \in DOMAIN machines' /\ ~machines'[m].deleting
  PROVE  RetryInv'
<1>1. FreshInv'
  <2>1. \A m \in Machine \ Used' : m \in Machine \ Used
    OBVIOUS
  <2>2. DOMAIN machines' \subseteq Used' /\ \A m \in DOMAIN machines' : origin[m] \in Used'
    BY DEF RetryInv, FreshInv
  <2>3. replacing \in Used' \cup {0}
    BY DEF RetryInv, FreshInv
  <2>4. QED
    BY <2>1, <2>2, <2>3 DEF RetryInv, FreshInv
<1>2. LimitInv'
  <2> SUFFICES ASSUME rc'.pc \in Taking, rc'.why = "remediate"
               PROVE  LimitInv'
    BY DEF LimitInv
  <2>1. /\ rc.kcp.remediationInProgress = NoData /\ rc.target \in DOMAIN machines
        /\ ~machines[rc.target].deleting /\ rc.data.machine # 0
        /\ checkRetryLimits(machines[rc.target].remediationFor, Strategy, rc.data.time).can
        /\ checkRetryLimits(machines[rc.target].remediationFor, Strategy, rc.data.time).retry = rc.data.retry
    BY DEF RetryInv, LimitInv
  <2>2. /\ rc.target \in DOMAIN machines' /\ ~machines'[rc.target].deleting
        /\ machines'[rc.target].remediationFor = machines[rc.target].remediationFor
    BY <2>1
  <2>3. QED
    BY <2>1, <2>2 DEF LimitInv
<1>3. NotedInv'
  BY DEF NotedInv
<1>4. ~unrecorded' => LineInv'
  <2> SUFFICES ASSUME ~unrecorded' PROVE LineInv'
    OBVIOUS
  <2>1. LineInv /\ InProgress' = InProgress
    BY DEF RetryInv
  <2>2. QED
    BY <2>1 DEF LineInv
<1>5. QED
  BY <1>1, <1>2, <1>3, <1>4 DEF RetryInv

\* The patch writes what the reconcile noted, or says that it did not.
LEMMA PatchNotes ==
  ASSUME kcp \in ControlPlane, rc \in Reconciles, unrecorded \in BOOLEAN, PatchControlPlane, ~unrecorded'
  PROVE  ~unrecorded /\ kcp'.remediationInProgress = rc.kcp.remediationInProgress
<1>1. rc.kcp \in ControlPlane
  BY DEF Reconciles
<1> DEFINE s == IF rc.kcp.finalizer THEN kcp.state ELSE "gone"
           k == [kcp EXCEPT !.remediationInProgress = rc.kcp.remediationInProgress,
                            !.finalizer = rc.kcp.finalizer, !.state = s]
<1>2. PICK o \in Outcomes("patch") \cup {"noStatus"} :
          /\ kcp' = IF Took(o) \/ o = "noStatus" THEN updateStatus(k, o # "noStatus") ELSE kcp
          /\ unrecorded' = (unrecorded \/ (o = "error" /\ Pending))
  BY DEF PatchControlPlane
<1>3. rc.pc = "patch"
  BY DEF PatchControlPlane
<1>4. ~unrecorded
  BY <1>2
<1>5. CASE o = "error"
  <2>1. ~Pending
    BY <1>2, <1>5
  <2>2. kcp' = kcp
    BY <1>2, <1>5 DEF Took
  <2>3. QED
    BY <1>3, <1>4, <2>1, <2>2 DEF Pending
<1>6. CASE o # "error"
  <2>1. Took(o) \/ o = "noStatus"
    BY <1>6 DEF Outcomes, Took
  <2>2. k.remediationInProgress = rc.kcp.remediationInProgress /\ DOMAIN k = DOMAIN kcp
    BY DEF ControlPlane
  <2>3. kcp' = updateStatus(k, o # "noStatus")
    BY <1>2, <2>1
  <2> HIDE DEF k
  <2>4. PICK i, r : kcp' = [k EXCEPT !.initialized = i, !.ready = r]
    BY <2>3 DEF updateStatus
  <2>5. kcp'.remediationInProgress = k.remediationInProgress
    BY <2>2, <2>4 DEF ControlPlane
  <2>6. QED
    BY <1>4, <2>2, <2>5
<1>7. QED
  BY <1>5, <1>6

\* Deleting the machine that is remediated: its line waits for a replacement, and
\* the data in memory counts the remediation.
LEMMA RetryDelete ==
  ASSUME TypeInv, RetryInv, DeleteMachine
  PROVE  RetryInv'
<1> DEFINE m == rc.target
           there == m \in DOMAIN machines
           remediate == rc.why = "remediate"
<1>1. PICK o \in Outcomes("delete") :
          /\ machines' = IF Took(o) /\ there THEN [machines EXCEPT ![m].deleting = TRUE] ELSE machines
          /\ rc' = [rc EXCEPT !.pc = "patch",
                 !.kcp.remediationInProgress = IF Replied(o) /\ remediate /\ there THEN rc.data ELSE @]
          /\ remediated' = IF Took(o) /\ remediate /\ there
                           THEN [remediated EXCEPT ![origin[m]] = Append(@, rc.data.time)] ELSE remediated
          /\ replacing' = IF Took(o) /\ remediate /\ there THEN origin[m] ELSE replacing
          /\ unrecorded' = (unrecorded \/ o = "lost")
  BY DEF DeleteMachine
<1>2. rc.pc = "delete" /\ UNCHANGED <<kcp, last, origin>>
  BY DEF DeleteMachine
<1>3. /\ machines \in Lists /\ rc \in Reconciles /\ rc.data \in RemediationData
      /\ rc.kcp.remediationInProgress \in RemediationData
  BY DEF TypeInv, Reconciles, ControlPlane
<1>4. /\ DOMAIN machines' = DOMAIN machines
      /\ \A n \in DOMAIN machines :
           /\ machines'[n].remediationFor = machines[n].remediationFor
           /\ machines'[n].deleting = machines[n].deleting \/ (n = m /\ machines'[n].deleting)
  BY <1>3, DeleteEffect
<1>5. /\ rc'.pc = "patch"
      /\ rc'.kcp.remediationInProgress = IF Replied(o) /\ remediate /\ there
                                         THEN rc.data ELSE rc.kcp.remediationInProgress
  <2>1. PICK data \in RemediationData :
            /\ data = IF Replied(o) /\ remediate /\ there THEN rc.data ELSE rc.kcp.remediationInProgress
            /\ rc' = [rc EXCEPT !.pc = "patch", !.kcp.remediationInProgress = data]
    BY <1>1, <1>3
  <2>2. QED
    BY <1>3, <2>1, NoteType DEF Steps
<1>6. /\ Used' = Used /\ unrecorded' \in BOOLEAN /\ (~unrecorded' => ~unrecorded /\ o # "lost")
      /\ InProgress = rc.kcp.remediationInProgress /\ InProgress' = rc'.kcp.remediationInProgress
      /\ rc'.pc \notin Cloning \cup Taking
  BY <1>1, <1>2, <1>5 DEF Used, Cloning, Taking, InProgress, RetryInv, FreshInv
<1>7. CASE ~(Took(o) /\ remediate /\ there)
  <2>1. UNCHANGED <<origin, replacing, remediated>>
    BY <1>1, <1>2, <1>7
  <2>2. InProgress' = InProgress
    BY <1>5, <1>6, <1>7 DEF Took, Replied
  <2>3. \A n \in DOMAIN machines' : ~machines'[n].deleting => ~machines[n].deleting
    BY <1>4
  <2>4. QED
    BY <1>4, <1>5, <1>6, <2>1, <2>2, <2>3, RetryQuiet
<1>8. CASE Took(o) /\ remediate /\ there
  <2>1. /\ machines' = [machines EXCEPT ![m].deleting = TRUE]
        /\ remediated' = [remediated EXCEPT ![origin[m]] = Append(remediated[origin[m]], rc.data.time)]
        /\ replacing' = origin[m]
    BY <1>1, <1>8
  <2>2. machines'[m].deleting
    <3>1. PICK d \in MachineData : d = machines[m]
      BY <1>3, <1>8, ListFacts
    <3>2. machines' = [machines EXCEPT ![m] = [d EXCEPT !.deleting = TRUE]]
      BY <2>1, <3>1
    <3>3. [d EXCEPT !.deleting = TRUE].deleting
      BY DEF MachineData
    <3>4. QED
      BY <1>3, <1>8, <3>2, <3>3
  <2>3. /\ ~machines[m].deleting /\ rc.data.machine # 0 /\ rc.kcp.remediationInProgress = NoData
        /\ checkRetryLimits(machines[m].remediationFor, Strategy, rc.data.time).can
        /\ checkRetryLimits(machines[m].remediationFor, Strategy, rc.data.time).retry = rc.data.retry
    BY <1>2, <1>8 DEF RetryInv, LimitInv, Taking
  <2>4. PICK f \in Machine : f = origin[m] /\ f \in Used
    BY <1>3, <1>8, ListFacts DEF RetryInv, FreshInv
  <2>5. PICK s \in Seq(0..MaxClock) : s = remediated[f]
    BY <2>4 DEF RetryInv, FreshInv
  <2>6. PICK u \in Seq(0..MaxClock) : u = Append(s, rc.data.time)
    <3>1. PICK t \in 0..MaxClock : t = rc.data.time
      BY <1>3 DEF RemediationData
    <3>2. Append(s, t) \in Seq(0..MaxClock)
      OBVIOUS
    <3>3. QED
      BY <3>1, <3>2
  <2>7. remediated' \in [Machine -> Seq(0..MaxClock)] /\ remediated'[f] = u
        /\ \A k \in Machine \ {f} : remediated'[k] = remediated[k]
    BY <2>1, <2>4, <2>5, <2>6 DEF RetryInv, FreshInv
  <2>8. FreshInv'
    <3>1. \A k \in Machine \ Used' : origin'[k] = k /\ remediated'[k] = <<>>
      BY <1>2, <1>6, <2>4, <2>7 DEF RetryInv, FreshInv
    <3>2. replacing' \in Used'
      BY <1>6, <2>1, <2>4
    <3>3. QED
      BY <1>2, <1>4, <1>6, <2>7, <3>1, <3>2 DEF RetryInv, FreshInv
  <2>9. LimitInv' /\ NotedInv'
    BY <1>5 DEF LimitInv, NotedInv, Taking
  <2>10. ASSUME ~unrecorded' PROVE LineInv'
    <3>1. LineInv /\ Replied(o)
      BY <1>6, <1>8, <2>10 DEF RetryInv, Took, Replied
    <3>2. InProgress' = rc.data
      BY <1>5, <1>6, <1>8, <3>1
    <3>3. Limited(u) /\ Recorded(u, rc.data)
      <4>1. PICK d \in RemediationData : d = machines[m].remediationFor
        BY <1>3, <1>8, ListFacts DEF MachineData
      <4>2. PICK e \in RemediationData : e = rc.data
        BY <1>3
      <4>3. Limited(s) /\ Follows(s, d)
        BY <1>8, <2>3, <2>4, <2>5, <3>1, <4>1 DEF LineInv
      <4>4. /\ e.machine # 0 /\ checkRetryLimits(d, Strategy, e.time).can
            /\ checkRetryLimits(d, Strategy, e.time).retry = e.retry
        BY <2>3, <4>1, <4>2
      <4>5. Limited(Append(s, e.time)) /\ Recorded(Append(s, e.time), e)
        BY <4>3, <4>4, RemediationCounted
      <4>6. QED
        BY <2>6, <4>2, <4>5
    <3>4. replacing' = f /\ f # 0 /\ rc.data # NoData
      BY <2>1, <2>3, <2>4 DEF Machine, NoData
    <3>5. \A n \in DOMAIN machines' : ~machines'[n].deleting => ~machines[n].deleting /\ n # m /\ origin[n] # f
      BY <1>4, <1>8, <2>2, <2>3, <2>4, <3>1 DEF LineInv
    <3>6. \A n \in DOMAIN machines' : origin[n] \in Machine
      BY <1>3, <1>4, ListFacts DEF RetryInv, FreshInv
    <3>7. \A k \in Machine : Limited(remediated'[k])
      BY <2>7, <3>1, <3>3 DEF LineInv
    <3>8. \A n \in DOMAIN machines' : ~machines'[n].deleting =>
              Follows(remediated'[origin[n]], machines'[n].remediationFor)
      BY <1>4, <2>7, <3>1, <3>5, <3>6 DEF LineInv
    <3>9. \A n, k \in DOMAIN machines' :
              ~machines'[n].deleting /\ ~machines'[k].deleting /\ origin[n] = origin[k] => n = k
      BY <1>4, <3>1, <3>5 DEF LineInv
    <3>10. QED
      BY <1>2, <2>7, <3>2, <3>3, <3>4, <3>5, <3>7, <3>8, <3>9 DEF LineInv
  <2>11. QED
    BY <2>8, <2>9, <2>10 DEF RetryInv
<1>9. QED
  BY <1>7, <1>8

\* Creating a machine: it takes over the line that waits for a replacement and the
\* data of its last remediation, or starts a line of its own.
LEMMA RetryCreate ==
  ASSUME TypeInv, RetryInv, CreateMachine
  PROVE  RetryInv'
<1> DEFINE m == rc.target
<1>1. PICK o \in Outcomes("machine") :
         /\ IF Took(o)
            THEN /\ machines' = [n \in DOMAIN machines \cup {m} |->
                        IF n \in DOMAIN machines THEN machines[n] ELSE NewMachine]
                 /\ origin' = IF replacing = 0 THEN origin ELSE [origin EXCEPT ![m] = replacing]
                 /\ replacing' = 0
            ELSE UNCHANGED <<machines, origin, replacing>>
         /\ IF Replied(o)
            THEN rc' = [rc EXCEPT !.pc = "patch", !.kcp.remediationInProgress = NoData]
            ELSE CleanUp({"infra", "config"})
         /\ unrecorded' = (unrecorded \/ o = "lost")
  BY DEF CreateMachine
<1>2. rc.pc = "machine" /\ UNCHANGED <<kcp, last, remediated>>
  BY DEF CreateMachine
<1>3. /\ machines \in Lists /\ rc \in Reconciles /\ last \in 0..MaxMachines
      /\ m \in 1..last /\ m = last /\ m \in Machine /\ m # 0
  <2>1. machines \in Lists /\ rc \in Reconciles /\ last \in 0..MaxMachines /\ m \in 1..last
    BY <1>2 DEF TypeInv
  <2>2. m = last
    BY <1>2 DEF RetryInv, FreshInv, Cloning
  <2>3. m \in Machine /\ m # 0
    BY <2>1, <2>2, BoundsAssumption DEF Machine
  <2>4. QED
    BY <2>1, <2>2, <2>3
<1>4. /\ Replied(o) => rc'.pc = "patch" /\ rc'.kcp.remediationInProgress = NoData
      /\ ~Replied(o) => rc'.pc = "cleanup" /\ rc'.kcp = rc.kcp
  BY <1>1, <1>3, NoteType, CleanUpType, IdleType DEF Steps
<1>5. /\ Used = 1..(last - 1) /\ Used' = 1..last /\ Used \subseteq Used' /\ Used' \subseteq Used \cup {m}
      /\ m \in Machine \ Used /\ m \in Used'
      /\ unrecorded' \in BOOLEAN /\ (~unrecorded' => ~unrecorded /\ o # "lost")
  <2>1. rc.pc \in Cloning /\ rc'.pc \notin Cloning
    BY <1>2, <1>4 DEF Cloning
  <2>2. Used = 1..(last - 1) /\ Used' = 1..last
    BY <1>2, <2>1 DEF Used
  <2>3. unrecorded' \in BOOLEAN /\ (~unrecorded' => ~unrecorded /\ o # "lost")
    BY <1>1 DEF RetryInv, FreshInv
  <2>4. QED
    BY <1>3, <2>2, <2>3
<1>6. /\ InProgress = rc.kcp.remediationInProgress /\ InProgress' = rc'.kcp.remediationInProgress
      /\ rc'.pc \notin Cloning \cup Taking
      /\ rc.kcp.remediationInProgress = kcp.remediationInProgress
  BY <1>2, <1>4 DEF InProgress, Cloning, Taking, RetryInv, NotedInv
<1>7. LimitInv' /\ NotedInv'
  BY <1>2, <1>4, <1>6 DEF LimitInv, NotedInv
<1>8. CASE ~Took(o)
  <2>1. ~Replied(o) /\ UNCHANGED <<machines, origin, replacing, remediated>>
    BY <1>1, <1>2, <1>8 DEF Took, Replied
  <2>2. InProgress' = InProgress /\ rc'.kcp.remediationInProgress = kcp'.remediationInProgress
    BY <1>2, <1>4, <1>6, <2>1
  <2>3. QED
    BY <1>5, <1>6, <2>1, <2>2, RetryQuiet
<1>9. CASE Took(o)
  <2>1. /\ DOMAIN machines \subseteq Used /\ m \notin DOMAIN machines
        /\ \A n \in DOMAIN machines : origin[n] \in Used /\ n \in Machine
        /\ origin \in [Machine -> Machine] /\ origin[m] = m /\ remediated[m] = <<>>
        /\ replacing \in Used \cup {0}
    BY <1>3, <1>5, ListFacts DEF RetryInv, FreshInv
  <2>2. /\ DOMAIN machines' = DOMAIN machines \cup {m} /\ replacing' = 0
        /\ \A n \in DOMAIN machines : machines'[n] = machines[n]
        /\ machines'[m].remediationFor = rc.kcp.remediationInProgress /\ ~machines'[m].deleting
    <3>1. /\ DOMAIN machines' = DOMAIN machines \cup {m} /\ replacing' = 0
          /\ \A n \in DOMAIN machines : machines'[n] = machines[n]
          /\ machines'[m] = NewMachine
      BY <1>1, <1>9, <2>1
    <3>2. QED
      BY <3>1 DEF NewMachine
  <2>3. PICK f \in Machine :
            /\ f \in Used' /\ f = (IF replacing = 0 THEN m ELSE replacing)
            /\ origin' \in [Machine -> Machine] /\ origin'[m] = f
            /\ \A n \in Machine \ {m} : origin'[n] = origin[n]
    <3>1. CASE replacing = 0
      BY <1>1, <1>3, <1>5, <1>9, <2>1, <3>1
    <3>2. CASE replacing # 0
      <4>1. replacing \in Machine /\ replacing \in Used'
        BY <1>3, <1>5, <2>1, <3>2 DEF Machine
      <4>2. origin' = [origin EXCEPT ![m] = replacing]
        BY <1>1, <1>9, <3>2
      <4>3. QED
        BY <1>3, <2>1, <3>2, <4>1, <4>2
    <3>3. QED
      BY <3>1, <3>2
  <2>4. \A n \in DOMAIN machines : n # m /\ origin'[n] = origin[n]
    BY <2>1, <2>3
  <2>5. FreshInv'
    <3>1. \A n \in Machine \ Used' : n # m /\ n \in Machine \ Used
      BY <1>5
    <3>2. \A n \in Machine \ Used' : origin'[n] = n /\ remediated'[n] = <<>>
      BY <1>2, <2>3, <3>1 DEF RetryInv, FreshInv
    <3>3. DOMAIN machines' \subseteq Used' /\ \A n \in DOMAIN machines' : origin'[n] \in Used'
      BY <1>5, <2>1, <2>2, <2>3, <2>4
    <3>4. QED
      BY <1>2, <1>5, <1>6, <2>2, <2>3, <3>2, <3>3 DEF RetryInv, FreshInv
  <2>6. ASSUME ~unrecorded' PROVE LineInv'
    <3>1. LineInv /\ Replied(o)
      BY <1>5, <1>9, <2>6 DEF RetryInv, Took, Replied
    <3>2. InProgress' = NoData
      BY <1>4, <1>6, <3>1
    <3>3. Follows(remediated[f], machines'[m].remediationFor)
      <4>1. CASE replacing = 0
        BY <1>6, <2>1, <2>2, <2>3, <3>1, <4>1 DEF LineInv, Follows
      <4>2. CASE replacing # 0
        BY <1>6, <2>2, <2>3, <3>1, <4>2 DEF LineInv, Follows
      <4>3. QED
        BY <4>1, <4>2
    <3>4. \A n \in DOMAIN machines : ~machines[n].deleting => origin[n] # f
      <4>1. CASE replacing = 0
        BY <1>5, <2>1, <2>3, <4>1
      <4>2. CASE replacing # 0
        BY <2>3, <3>1, <4>2 DEF LineInv
      <4>3. QED
        BY <4>1, <4>2
    <3>5. \A n \in DOMAIN machines' : ~machines'[n].deleting =>
              Follows(remediated'[origin'[n]], machines'[n].remediationFor)
      BY <1>2, <2>2, <2>3, <2>4, <3>1, <3>3 DEF LineInv
    <3>6. \A n, k \in DOMAIN machines' :
              ~machines'[n].deleting /\ ~machines'[k].deleting /\ origin'[n] = origin'[k] => n = k
      BY <2>2, <2>3, <2>4, <3>1, <3>4 DEF LineInv
    <3>7. \A k \in Machine : Limited(remediated'[k])
      BY <1>2, <3>1 DEF LineInv
    <3>8. QED
      BY <2>2, <3>2, <3>5, <3>6, <3>7 DEF LineInv
  <2>7. QED
    BY <1>7, <2>5, <2>6 DEF RetryInv
<1>10. QED
  BY <1>8, <1>9

\* Remediate: the machine is on the list, so it is there, and its data is the one
\* the limits were checked with.
LEMMA RetryTake ==
  ASSUME TypeInv, Inv, RetryInv, Remediate
  PROVE  RetryInv'
<1>1. rc.pc = "decide" /\ UNCHANGED <<kcp, machines, last, origin, replacing, remediated, unrecorded>>
  BY DEF Remediate, OnlyLocal, objects, history
<1>2. rc \in Reconciles /\ rc.seen \in Lists /\ machines \in Lists /\ now \in 0..MaxClock
  BY DEF TypeInv, Reconciles
<1>3. Agrees(machines, rc.seen)
  BY <1>1 DEF Inv, ListInv, Listing
<1>4. PICK m \in reconcileUnhealthyMachines(rc.seen, rc.kcp) :
          LET limits == checkRetryLimits(rc.seen[m].remediationFor, Strategy, now)
          IN  Take(m, "remediate", [machine |-> m, time |-> now, retry |-> limits.retry])
  BY DEF Remediate
<1>5. /\ m \in DOMAIN rc.seen /\ ~rc.seen[m].deleting /\ rc.kcp.remediationInProgress = NoData
      /\ checkRetryLimits(rc.seen[m].remediationFor, Strategy, now).can
  BY DEF reconcileUnhealthyMachines, UnhealthyMachines
<1>6. /\ m \in Machine /\ m # 0 /\ m \in DOMAIN machines /\ ~machines[m].deleting
      /\ machines[m].remediationFor = rc.seen[m].remediationFor
      /\ machines[m].remediationFor \in RemediationData
  <2>1. m \in Machine /\ m # 0
    BY <1>2, <1>5, ListFacts DEF Machine
  <2>2. m \in DOMAIN machines /\ ~machines[m].deleting /\ machines[m].remediationFor = rc.seen[m].remediationFor
    BY <1>3, <1>5 DEF Agrees
  <2>3. QED
    BY <1>2, <2>1, <2>2, ListFacts DEF MachineData
<1>7. PICK d \in RemediationData : d = machines[m].remediationFor
  BY <1>6
<1>8. PICK r \in Nat : r = checkRetryLimits(d, Strategy, now).retry
  BY RetryCounted
<1>9. PICK e \in RemediationData : Take(m, "remediate", e) /\ e.machine = m /\ e.time = now /\ e.retry = r
  <2>1. [machine |-> m, time |-> now, retry |-> r] \in RemediationData
    BY <1>2, <1>6 DEF RemediationData, Machine
  <2>2. QED
    BY <1>4, <1>6, <1>7, <1>8, <2>1
<1>10. /\ rc'.pc \in Taking /\ rc'.kcp = rc.kcp /\ rc'.target = m /\ rc'.why = "remediate" /\ rc'.data = e
  BY <1>2, <1>6, <1>9, TakeType DEF Taking
<1>11. /\ Used' = Used /\ InProgress' = InProgress
       /\ rc'.pc \notin Cloning /\ rc'.pc \notin {"idle", "patch"} /\ rc.pc \notin {"idle", "patch"}
  BY <1>1, <1>10 DEF Used, Cloning, InProgress, Taking
<1>12. FreshInv'
  BY <1>1, <1>11 DEF RetryInv, FreshInv
<1>13. LimitInv'
  <2>1. /\ checkRetryLimits(d, Strategy, e.time).can
        /\ checkRetryLimits(d, Strategy, e.time).retry = e.retry
    BY <1>5, <1>6, <1>7, <1>8, <1>9
  <2>2. QED
    BY <1>1, <1>5, <1>6, <1>7, <1>9, <1>10, <2>1 DEF LimitInv
<1>14. NotedInv'
  BY <1>1, <1>10, <1>11 DEF RetryInv, NotedInv
<1>15. ~unrecorded' => LineInv'
  BY <1>1, <1>11 DEF RetryInv, LineInv
<1>16. QED
  BY <1>12, <1>13, <1>14, <1>15 DEF RetryInv

LEMMA RetryStep ==
  ASSUME ~MachineCacheLags
  PROVE  TypeInv /\ Inv /\ RetryInv /\ [Next]_vars => RetryInv'
<1> SUFFICES ASSUME TypeInv, Inv, RetryInv, [Next]_vars PROVE RetryInv'
  OBVIOUS
<1>1. /\ kcp \in ControlPlane /\ machines \in Lists /\ rc \in Reconciles /\ rc.kcp \in ControlPlane
      /\ last \in 0..MaxMachines /\ unrecorded \in BOOLEAN
      /\ rc.pc \notin {"idle", "patch"} => rc.kcp.remediationInProgress = kcp.remediationInProgress
      /\ rc.pc \in Cloning => rc.target = last
  BY DEF TypeInv, Reconciles, RetryInv, FreshInv, NotedInv
\* Steps that leave the reconcile alone.
<1>2. ASSUME rc' = rc, last' = last, kcp'.remediationInProgress = kcp.remediationInProgress,
             UNCHANGED <<origin, replacing, remediated, unrecorded>>,
             DOMAIN machines' \subseteq DOMAIN machines,
             \A m \in DOMAIN machines \ DOMAIN machines' : machines[m].deleting,
             \A m \in DOMAIN machines' : /\ machines'[m].remediationFor = machines[m].remediationFor
                                         /\ machines'[m].deleting = machines[m].deleting
      PROVE  RetryInv'
  <2>1. Used' = Used /\ InProgress' = InProgress
    BY <1>2 DEF Used, InProgress
  <2>2. \A m \in DOMAIN machines : ~machines[m].deleting => m \in DOMAIN machines' /\ ~machines'[m].deleting
    BY <1>2
  <2>3. QED
    BY <1>1, <1>2, <2>1, <2>2, RetryQuiet
\* Steps of a reconcile that creates nothing and deletes nothing, or nothing more.
<1>3. ASSUME rc.pc # "idle", rc'.pc \notin Cloning \cup {"idle"}, rc.pc \notin {"idle", "patch"},
             rc'.kcp = rc.kcp, last' = last, kcp' = kcp,
             UNCHANGED <<origin, replacing, remediated, unrecorded>>,
             DOMAIN machines' = DOMAIN machines,
             \A m \in DOMAIN machines : /\ machines'[m].remediationFor = machines[m].remediationFor
                                        /\ machines[m].deleting => machines'[m].deleting,
             rc'.pc \in Taking => /\ rc.pc \in Taking /\ rc'.why = rc.why /\ rc'.target = rc.target
                                  /\ rc'.data = rc.data
                                  /\ \A m \in DOMAIN machines : machines'[m].deleting = machines[m].deleting
      PROVE  RetryInv'
  <2>1. Used \subseteq Used' /\ InProgress' = InProgress
    <3>1. InProgress' = InProgress
      BY <1>3 DEF InProgress
    <3>2. Used' = 1..last /\ (Used = 1..last \/ Used = 1..(last - 1))
      BY <1>3 DEF Used
    <3>3. 1..(last - 1) \subseteq 1..last
      BY <1>1
    <3>4. QED
      BY <3>1, <3>2, <3>3
  <2>2. \A m \in DOMAIN machines' : /\ machines'[m].remediationFor = machines[m].remediationFor
                                    /\ ~machines'[m].deleting => ~machines[m].deleting
    BY <1>3
  <2>3. QED
    BY <1>1, <1>3, <2>1, <2>2, RetryQuiet
\* Reconciles that end: what is written then is what they had in memory.
<1>4. ASSUME rc'.pc = "idle", last' = last, machines' = machines, unrecorded' \in BOOLEAN,
             UNCHANGED <<origin, replacing, remediated>>,
             ~unrecorded' => ~unrecorded /\ kcp'.remediationInProgress = InProgress
      PROVE  RetryInv'
  <2>1. Used \subseteq Used'
    <3>1. Used' = 1..last /\ (Used = 1..last \/ Used = 1..(last - 1))
      BY <1>4 DEF Used, Cloning
    <3>2. 1..(last - 1) \subseteq 1..last
      BY <1>1
    <3>3. QED
      BY <3>1, <3>2
  <2>2. ~unrecorded' => ~unrecorded /\ InProgress' = InProgress
    BY <1>4 DEF InProgress
  <2>3. rc'.pc \notin Taking \cup Cloning
    BY <1>4 DEF Taking, Cloning
  <2>4. QED
    BY <1>4, <2>1, <2>2, <2>3, RetryQuiet
<1>5. CASE AddFinalizer \/ Scale \/ Rollout \/ DeleteControlPlane
  <2>1. /\ rc' = rc /\ last' = last /\ machines' = machines
        /\ UNCHANGED <<origin, replacing, remediated, unrecorded>>
    BY <1>5 DEF AddFinalizer, Scale, Rollout, DeleteControlPlane, Edit, history
  <2>2. kcp'.remediationInProgress = kcp.remediationInProgress
    <3>1. \/ \E b : kcp' = [kcp EXCEPT !.finalizer = b]
          \/ \E n : kcp' = [kcp EXCEPT !.replicas = n]
          \/ \E n : kcp' = [kcp EXCEPT !.revision = n]
          \/ \E s : kcp' = [kcp EXCEPT !.state = s]
      BY <1>5 DEF AddFinalizer, Scale, Rollout, DeleteControlPlane, Edit
    <3>2. QED
      BY <1>1, <3>1 DEF ControlPlane
  <2>3. QED
    BY <1>2, <2>1, <2>2
<1>6. CASE StartReconcile \/ StartDelete
  <2>1. rc.pc = "idle" /\ UNCHANGED <<kcp, machines, last, origin, replacing, remediated, unrecorded>>
    BY <1>6 DEF StartReconcile, StartDelete, Start, objects
  <2>2. /\ rc'.pc \in {"sync", "conditions", "patch"}
        /\ rc'.kcp.remediationInProgress = kcp.remediationInProgress
    <3> DEFINE k0 == [kcp EXCEPT !.finalizer = FALSE]
    <3>1. k0 \in ControlPlane /\ k0.remediationInProgress = kcp.remediationInProgress
      BY <1>1 DEF ControlPlane
    <3> HIDE DEF k0
    <3>2. PICK step \in {"sync", "conditions", "patch"}, k \in {kcp, k0}, seen \in GetMachinesForCluster :
              Start(step, k, seen)
      BY <1>6 DEF StartReconcile, StartDelete, k0
    <3>3. k \in ControlPlane /\ k.remediationInProgress = kcp.remediationInProgress /\ seen \in Lists
      BY <1>1, <3>1 DEF GetMachinesForCluster
    <3>4. QED
      BY <3>2, <3>3, StartType DEF Steps
  <2>3. InProgress' = InProgress /\ Used' = Used /\ rc'.pc \notin Taking \cup Cloning
    BY <2>1, <2>2 DEF InProgress, Used, Cloning, Taking
  <2>4. QED
    BY <1>1, <2>1, <2>2, <2>3, RetryQuiet
<1>7. CASE SyncMachines \/ ReconcileConditions
  <2>1. /\ kcp' = kcp /\ last' = last /\ rc.pc \notin {"idle", "patch"}
        /\ UNCHANGED <<origin, replacing, remediated, unrecorded>>
    BY <1>7 DEF SyncMachines, ReconcileConditions, history
  <2>2. /\ Kept(machines, machines') /\ rc'.kcp = rc.kcp
        /\ rc'.pc \in {"conditions", "decide", "deleteAll", "patch"}
    BY <1>1, <1>7, SyncEffect, ConditionsEffect
  <2>3. rc'.pc \notin Cloning \cup {"idle"} /\ rc'.pc \notin Taking
    BY <2>2 DEF Cloning, Taking
  <2>4. DOMAIN machines' = DOMAIN machines
        /\ \A m \in DOMAIN machines : /\ machines'[m].remediationFor = machines[m].remediationFor
                                      /\ machines[m].deleting => machines'[m].deleting
    BY <2>2 DEF Kept, Like
  <2>5. QED
    BY <1>3, <2>1, <2>2, <2>3, <2>4
<1>8. CASE Remediate
  BY <1>8, RetryTake
<1>9. CASE InitializeControlPlane \/ ScaleUpControlPlane \/ ScaleDownControlPlane \/ NothingToDo
  <2>1. OnlyLocal /\ rc.pc = "decide"
    BY <1>9 DEF InitializeControlPlane, ScaleUpControlPlane, ScaleDownControlPlane, NothingToDo, Decide
  <2>2. UNCHANGED <<kcp, machines, last, origin, replacing, remediated, unrecorded>>
    BY <2>1 DEF OnlyLocal, objects, history
  <2>3. \/ rc' = Idle \/ Goto("patch")
        \/ \E fd \in NextFailureDomainForScaleUp(rc.seen, rc.kcp.revision) : Clone(fd)
        \/ \E m \in selectMachineForScaleDown(rc.seen, MachinesNeedingRollout(rc.seen, rc.kcp.revision)) :
              Take(m, "scaleDown", NoData)
    BY <1>9 DEF InitializeControlPlane, ScaleUpControlPlane, ScaleDownControlPlane, NothingToDo
  <2>4. CASE rc' = Idle
    <3>1. rc'.pc = "idle" /\ InProgress = kcp.remediationInProgress
      BY <1>1, <2>1, <2>4 DEF Idle, InProgress
    <3>2. QED
      BY <1>1, <1>4, <2>2, <3>1
  <2>5. CASE Goto("patch") \/ \E fd \in NextFailureDomainForScaleUp(rc.seen, rc.kcp.revision) : Clone(fd)
    <3>1. rc'.pc \in {"patch", "infra"} /\ rc'.kcp = rc.kcp
      BY <1>1, <2>5, GotoType, DomainChosen, CloneType DEF Steps
    <3>2. rc'.pc \notin Cloning \cup {"idle"} /\ rc'.pc \notin Taking
      BY <3>1 DEF Cloning, Taking
    <3>3. QED
      BY <1>3, <2>1, <2>2, <3>1, <3>2
  <2>6. CASE \E m \in selectMachineForScaleDown(rc.seen, MachinesNeedingRollout(rc.seen, rc.kcp.revision)) :
               Take(m, "scaleDown", NoData)
    <3>1. PICK m \in Machine : Take(m, "scaleDown", NoData)
      <4>1. rc.seen \in Lists /\ MachinesNeedingRollout(rc.seen, rc.kcp.revision) \subseteq DOMAIN rc.seen
        BY <1>1 DEF Reconciles, MachinesNeedingRollout
      <4>2. QED
        BY <2>6, <4>1, SelectedListed, ListFacts
    <3>2. rc'.pc \in Taking /\ rc'.kcp = rc.kcp /\ rc'.why = "scaleDown"
      BY <1>1, <3>1, TakeType, IdleType DEF Taking
    <3>3. Used' = Used /\ InProgress' = InProgress /\ rc'.pc \notin Cloning /\ rc'.pc # "idle"
      BY <2>1, <2>2, <3>2 DEF Used, Cloning, InProgress, Taking
    <3>4. FreshInv' /\ LimitInv'
      BY <2>2, <3>2, <3>3 DEF RetryInv, FreshInv, LimitInv
    <3>5. NotedInv' /\ (~unrecorded' => LineInv')
      BY <1>1, <2>1, <2>2, <3>2, <3>3 DEF RetryInv, NotedInv, LineInv
    <3>6. QED
      BY <3>4, <3>5 DEF RetryInv
  <2>7. QED
    BY <2>3, <2>4, <2>5, <2>6
<1>10. CASE RemoveNode
  <2>1. /\ kcp' = kcp /\ last' = last /\ rc.pc = "remove"
        /\ UNCHANGED <<origin, replacing, remediated, unrecorded>>
    BY <1>10 DEF RemoveNode, history
  <2>2. /\ Kept(machines, machines') /\ rc'.kcp = rc.kcp /\ rc'.pc \in {"delete", "patch"}
        /\ rc'.target = rc.target /\ rc'.why = rc.why /\ rc'.data = rc.data
    BY <1>1, <1>10, RemoveEffect
  <2>3. rc'.pc \notin Cloning \cup {"idle"} /\ rc.pc \in Taking
    BY <2>1, <2>2 DEF Cloning, Taking
  <2>4. DOMAIN machines' = DOMAIN machines
        /\ \A m \in DOMAIN machines : /\ machines'[m].remediationFor = machines[m].remediationFor
                                      /\ machines'[m].deleting = machines[m].deleting
    BY <2>2 DEF Kept, Like
  <2>5. QED
    BY <1>3, <2>1, <2>2, <2>3, <2>4
<1>11. CASE DeleteMachine
  BY <1>11, RetryDelete
<1>12. CASE DeleteAllMachines
  <2>1. /\ kcp' = kcp /\ last' = last /\ rc.pc = "deleteAll"
        /\ UNCHANGED <<origin, replacing, remediated, unrecorded>>
    BY <1>12 DEF DeleteAllMachines, history
  <2>2. /\ DOMAIN machines' = DOMAIN machines
        /\ \A m \in DOMAIN machines : /\ machines'[m].remediationFor = machines[m].remediationFor
                                      /\ machines[m].deleting => machines'[m].deleting
        /\ rc'.pc = "patch" /\ rc'.kcp = rc.kcp
    BY <1>1, <1>12, DeleteAllEffect
  <2>3. rc'.pc \notin Cloning \cup {"idle"} /\ rc'.pc \notin Taking
    BY <2>2 DEF Cloning, Taking
  <2>4. QED
    BY <1>3, <2>1, <2>2, <2>3
<1>13. CASE CreateInfra
  <2>1. PICK step \in {"config", "patch"} : rc' = [rc EXCEPT !.pc = step, !.target = last + 1]
    BY <1>13 DEF CreateInfra
  <2>2. /\ rc.pc = "infra" /\ last' = last + 1
        /\ UNCHANGED <<kcp, machines, origin, replacing, remediated, unrecorded>>
    BY <1>13 DEF CreateInfra, history
  <2>3. rc'.pc = step /\ rc'.kcp = rc.kcp /\ rc'.target = last + 1
    BY <1>1, <2>1 DEF Reconciles
  <2>4. InProgress' = InProgress /\ rc'.pc \notin Taking
    BY <2>2, <2>3 DEF InProgress, Taking
  <2>5. Used = 1..last /\ Used \subseteq Used'
    <3>1. Used = 1..last /\ (Used' = 1..((last + 1) - 1) \/ Used' = 1..(last + 1))
      BY <2>2, <2>3 DEF Used, Cloning
    <3>2. QED
      BY <1>1, <3>1
  <2>6. QED
    BY <1>1, <2>2, <2>3, <2>4, <2>5, RetryQuiet
<1>14. CASE CreateConfig
  <2>1. /\ rc.pc = "config" /\ UNCHANGED <<kcp, machines, last, origin, replacing, remediated, unrecorded>>
    BY <1>14 DEF CreateConfig, history
  <2>2. Goto("machine") \/ CleanUp({"infra"})
    BY <1>14 DEF CreateConfig
  <2>3. rc'.pc \in {"machine", "cleanup"} /\ rc'.kcp = rc.kcp /\ rc'.target = rc.target
    BY <1>1, <2>2, GotoType, CleanUpType DEF Steps
  <2>4. InProgress' = InProgress /\ rc'.pc \notin Taking /\ rc.target = last
    BY <1>1, <2>1, <2>3 DEF InProgress, Taking, Cloning
  <2>5. Used \subseteq Used'
    <3>1. Used = 1..(last - 1) /\ (Used' = 1..(last - 1) \/ Used' = 1..last)
      BY <2>1, <2>3 DEF Used, Cloning
    <3>2. QED
      BY <1>1, <3>1
  <2>6. QED
    BY <1>1, <2>1, <2>3, <2>4, <2>5, RetryQuiet
<1>15. CASE CreateMachine
  BY <1>15, RetryCreate
<1>16. CASE CleanupFromGeneration
  <2>1. /\ rc.pc = "cleanup" /\ Goto("patch")
        /\ UNCHANGED <<kcp, machines, last, origin, replacing, remediated, unrecorded>>
    BY <1>16 DEF CleanupFromGeneration, history
  <2>2. rc'.pc = "patch" /\ rc'.kcp = rc.kcp
    BY <1>1, <2>1, GotoType DEF Steps
  <2>3. rc'.pc \notin Cloning \cup {"idle"} /\ rc'.pc \notin Taking
    BY <2>2 DEF Cloning, Taking
  <2>4. QED
    BY <1>3, <2>1, <2>2, <2>3
<1>17. CASE PatchControlPlane
  <2>1. /\ rc.pc = "patch" /\ rc'.pc = "idle"
        /\ UNCHANGED <<machines, last, origin, replacing, remediated>>
    BY <1>17 DEF PatchControlPlane, Idle
  <2>2. unrecorded' \in BOOLEAN
    BY <1>1, <1>17 DEF PatchControlPlane
  <2>3. ~unrecorded' => ~unrecorded /\ kcp'.remediationInProgress = InProgress
    <3>1. InProgress = rc.kcp.remediationInProgress
      BY <2>1 DEF InProgress
    <3>2. QED
      BY <1>1, <1>17, <3>1, PatchNotes
  <2>4. QED
    BY <1>4, <2>1, <2>2, <2>3
<1>18. CASE Crash
  <2>1. /\ rc.pc # "idle" /\ rc'.pc = "idle" /\ unrecorded' = (unrecorded \/ Pending)
        /\ UNCHANGED <<kcp, machines, last, origin, replacing, remediated>>
    BY <1>18 DEF Crash, Idle, objects
  <2>2. unrecorded' \in BOOLEAN /\ (~unrecorded' => ~unrecorded /\ ~Pending)
    BY <1>1, <2>1
  <2>3. ~Pending => kcp'.remediationInProgress = InProgress
    BY <2>1 DEF Pending, InProgress
  <2>4. QED
    BY <1>4, <2>1, <2>2, <2>3
<1>19. ASSUME NEW m \in DOMAIN machines, Environment(m) PROVE RetryInv'
  <2>1. UNCHANGED <<kcp, rc, last, origin, replacing, remediated, unrecorded>>
    BY <1>19 DEF Environment, Join, NodeFails, MarkUnhealthy, StartupTimeout, AskHook,
                 MachineReconcile, MarkDeleteFirst, OnlyMachines, history
  <2>2. Kept(machines, machines')
    BY <1>1, <1>19, EnvironmentEffect
  <2>3. QED
    BY <1>2, <2>1, <2>2 DEF Kept, Like
<1>20. ASSUME NEW m \in DOMAIN machines, FinishDelete(m) PROVE RetryInv'
  <2>1. UNCHANGED <<kcp, rc, last, origin, replacing, remediated, unrecorded>> /\ machines[m].deleting
    BY <1>20 DEF FinishDelete, OnlyMachines
  <2>2. DOMAIN machines' = DOMAIN machines \ {m} /\ \A n \in DOMAIN machines' : machines'[n] = machines[n]
    BY <1>1, <1>20, FinishEffect
  <2>3. QED
    BY <1>2, <2>1, <2>2
<1>21. CASE WorkersGone \/ Tick \/ UNCHANGED vars
  <2>1. UNCHANGED <<kcp, machines, rc, last, origin, replacing, remediated, unrecorded>>
    BY <1>21 DEF WorkersGone, Tick, vars, objects, history
  <2>2. QED
    BY <1>2, <2>1
<1>22. QED
  <2>1. CASE \E m \in DOMAIN machines :
               \/ Join(m) \/ NodeFails(m) \/ MarkUnhealthy(m) \/ StartupTimeout(m)
               \/ AskHook(m) \/ MachineReconcile(m) \/ FinishDelete(m) \/ MarkDeleteFirst(m)
    BY <1>19, <1>20, <2>1 DEF Environment
  <2>2. CASE ReconcileControlPlane
    BY <1>5, <1>6, <1>7, <1>8, <1>9, <1>10, <1>11, <1>12, <1>13, <1>14, <1>15, <1>16, <1>17, <2>2
       DEF ReconcileControlPlane
  <2>3. QED
    BY <1>5, <1>18, <1>21, <2>1, <2>2 DEF Next

LEMMA RetryInit == Init => RetryInv
<1> SUFFICES ASSUME Init PROVE RetryInv
  OBVIOUS
<1>1. /\ DOMAIN machines = {} /\ rc.pc = "idle" /\ kcp.remediationInProgress = NoData /\ last = 0
      /\ replacing = 0 /\ unrecorded = FALSE
      /\ origin = [m \in Machine |-> m] /\ remediated = [m \in Machine |-> <<>>]
  BY NoMachinesList DEF Init, Idle, Created
<1>2. <<>> \in Seq(0..MaxClock) /\ Limited(<<>>)
  BY DEF Limited
<1>3. FreshInv
  BY <1>1, <1>2 DEF FreshInv, Used, Cloning
<1>4. LimitInv /\ NotedInv
  BY <1>1 DEF LimitInv, NotedInv, Taking
<1>5. LineInv
  BY <1>1, <1>2 DEF LineInv, InProgress
<1>6. QED
  BY <1>3, <1>4, <1>5 DEF RetryInv

\* RetryBound: the number of retries a machine is created with counts the
\* remediations of its line that came close together, checkRetryLimits refuses one
\* more than MaxRetry or one too soon, and no two machines share a count.
THEOREM RemediationsAreBounded ==
  ASSUME ~MachineCacheLags
  PROVE  Spec => []RetryBound
<1>1. RetryInv => RetryBound
  <2> SUFFICES ASSUME RetryInv, ~unrecorded, NEW m \in Machine
               PROVE  LET s == remediated[m]
                          Same(i, j) == \A k \in i..(j - 1) : s[k + 1] - s[k] < MinHealthyPeriod
                      IN  \A i, j \in DOMAIN s : (i < j /\ Same(i, j)) =>
                              /\ s[i + 1] - s[i] >= RetryPeriod
                              /\ \A max \in MaxRetry : j - i <= max
    BY DEF RetryBound
  <2>1. Limited(remediated[m])
    BY DEF RetryInv, LineInv
  <2>2. QED
    BY <2>1 DEF Limited, Close
<1>2. TypeInv /\ Inv /\ [Next]_vars => Inv'
  BY InvStep
<1>3. TypeInv /\ Inv /\ RetryInv /\ [Next]_vars => RetryInv'
  BY RetryStep
<1>4. QED
  BY <1>1, <1>2, <1>3, InvInit, TypeInit, TypeStep, RetryInit, PTL DEF Spec
=============================================================================
