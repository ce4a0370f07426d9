-------------------------- MODULE ControlPlaneInitProofs --------------------------
(***************************************************************************)
(* Theorems about ControlPlaneInit, for any sets of machines and any       *)
(* number of failures.  The safety theorems assume that only the Cluster   *)
(* cache may lag; the runs with another lagging kind show why.             *)
(***************************************************************************)
EXTENDS ControlPlaneInit, TLAPS

USE NoMachineAssumption, LaggingAssumption, MaxFailuresAssumption

-----------------------------------------------------------------------------
\* One step of the environment or of the reconciler keeps the types.
LEMMA TypeStep == TypeOK /\ [Next]_vars => TypeOK'
<1> SUFFICES ASSUME TypeOK, [Next]_vars
             PROVE  TypeOK'
  OBVIOUS
<1> USE DEF TypeOK, Steps, Data, ClusterStatus, Machines, Goto, Return, Fail,
            apiVars, cacheVars, rcVars
<1>1. CASE UNCHANGED vars
  BY <1>1 DEF vars
<1>2. ASSUME NEW m \in Machines, Reconcile(m)
      PROVE  TypeOK'
  BY <1>2 DEF Reconcile, Reconcilable, ReconcileOwnerHasData,
              ReconcileNotInitialized, ReconcileJoin, Unlock
<1>3. CASE Lock
  BY <1>3 DEF Lock, LockCreate, LockHeldBySelf, LockHeldByOther, Unlock
<1>4. CASE GenerateInit \/ GenerateJoin
  BY <1>4 DEF GenerateInit, GenerateJoin
<1>5. CASE StoreBootstrapData
  BY <1>5 DEF StoreBootstrapData
<1>6. CASE UnlockOnError
  BY <1>6 DEF UnlockOnError, Unlock
<1>12. CASE PatchStatus
  <2>1. [ready EXCEPT ![target] = TRUE] \in [Machines -> BOOLEAN]
    OBVIOUS
  <2>2. ready' \in [Machines -> BOOLEAN]
    BY <1>12, <2>1 DEF PatchStatus
  <2>3. QED
    BY <1>12, <2>2 DEF PatchStatus
<1>7. CASE Restart
  BY <1>7 DEF Restart, FillCache
<1>8. ASSUME NEW k \in Kinds, SyncCache(k)
      PROVE  TypeOK'
  BY <1>8 DEF SyncCache, FillCache
<1>9. CASE InfrastructureReady \/ ClusterInitialized
  BY <1>9 DEF InfrastructureReady, ClusterInitialized
<1>10. ASSUME NEW m \in Machines, Environment(m)
       PROVE  TypeOK'
  <2>1. /\ [dataSecret EXCEPT ![m] = TRUE] \in [Machines -> BOOLEAN]
        /\ [ready EXCEPT ![m] = FALSE] \in [Machines -> BOOLEAN]
    OBVIOUS
  <2>2. CASE CreateMachine(m) \/ RemoveMachine(m) \/ Boot(m)
    BY <2>2 DEF CreateMachine, RemoveMachine, Boot
  <2>3. CASE CopyDataSecretName(m)
    BY <2>1, <2>3 DEF CopyDataSecretName
  <2>4. CASE LoseStatus(m)
    BY <2>1, <2>4 DEF LoseStatus
  <2>5. QED
    BY <1>10, <2>2, <2>3, <2>4 DEF Environment
<1>11. QED
  BY <1>1, <1>2, <1>3, <1>4, <1>5, <1>6, <1>7, <1>8, <1>9, <1>10, <1>12
     DEF Next, Continue

\* Every variable of the reconciler, its cache and the API objects keeps its
\* type, whatever kinds lag and however many calls fail.
THEOREM TypeCorrect == Spec => []TypeOK
<1>1. Init => TypeOK
  BY DEF Init, TypeOK, Steps, Data, ClusterStatus
<1>2. QED
  BY <1>1, TypeStep, PTL DEF Spec

-----------------------------------------------------------------------------
(***************************************************************************)
(* The inductive invariant.                                                *)
(***************************************************************************)
Inv == ReconcileInv /\ InitNodeHoldsLock /\ AtMostOneInit

\* Kinds other than Cluster are read as they are.
LEMMA CurrentReads ==
  ASSUME Lagging \subseteq {"Cluster"}
  PROVE  /\ SeenLock = lock /\ SeenReady = ready /\ SeenMachine = machine
         /\ SeenLock' = lock' /\ SeenReady' = ready' /\ SeenMachine' = machine'
BY DEF SeenLock, SeenReady, SeenMachine

\* The step lemma: one case per action, the shared definitions open throughout.
LEMMA InvStep ==
  ASSUME Lagging \subseteq {"Cluster"}, TypeOK, TypeOK', Inv, [Next]_vars
  PROVE  Inv'
<1> USE CurrentReads
<1> USE DEF Inv, ReconcileInv, InitNodeHoldsLock, AtMostOneInit, InitNode,
            HandedOut, InInitBranch, SeenCluster, TypeOK, ClusterStatus, Steps, Data,
            Goto, Return, apiVars, cacheVars, rcVars
<1>1. CASE UNCHANGED vars
  BY <1>1 DEF vars
<1>2. ASSUME NEW m \in Machines, ReconcileOwnerHasData(m)
      PROVE  Inv'
  BY <1>2 DEF ReconcileOwnerHasData, Reconcilable
<1>3. ASSUME NEW m \in Machines, ReconcileNotInitialized(m)
      PROVE  Inv'
  BY <1>3 DEF ReconcileNotInitialized, Reconcilable
<1>4. ASSUME NEW m \in Machines, ReconcileJoin(m)
      PROVE  Inv'
  BY <1>4 DEF ReconcileJoin, Reconcilable
<1>5. CASE LockCreate
  BY <1>5 DEF LockCreate
<1>6. CASE LockHeldBySelf
  BY <1>6 DEF LockHeldBySelf
<1>7. CASE LockHeldByOther
  BY <1>7 DEF LockHeldByOther, Unlock
<1>8. CASE GenerateInit
  BY <1>8 DEF GenerateInit
<1>9. CASE GenerateJoin
  BY <1>9 DEF GenerateJoin
<1>10. CASE StoreBootstrapData
  BY <1>10 DEF StoreBootstrapData
<1>11. CASE UnlockOnError
  BY <1>11 DEF UnlockOnError, Unlock
<1>12. CASE PatchStatus
  BY <1>12 DEF PatchStatus
<1>13. CASE Restart
  BY <1>13 DEF Restart, FillCache
<1>14. ASSUME NEW k \in Kinds, SyncCache(k)
       PROVE  Inv'
  BY <1>14 DEF SyncCache, FillCache
<1>15. CASE InfrastructureReady
  BY <1>15 DEF InfrastructureReady
<1>16. CASE ClusterInitialized
  BY <1>16 DEF ClusterInitialized
<1>17. ASSUME NEW m \in Machines, CreateMachine(m)
       PROVE  Inv'
  BY <1>17 DEF CreateMachine
<1>18. ASSUME NEW m \in Machines, CopyDataSecretName(m)
       PROVE  Inv'
  BY <1>18 DEF CopyDataSecretName
<1>19. ASSUME NEW m \in Machines, Boot(m)
       PROVE  Inv'
  BY <1>19 DEF Boot
<1>20. ASSUME NEW m \in Machines, RemoveMachine(m)
       PROVE  Inv'
  BY <1>20 DEF RemoveMachine
<1>21. ASSUME NEW m \in Machines, LoseStatus(m)
       PROVE  Inv'
  BY <1>21 DEF LoseStatus
<1>22. QED
  BY <1>1, <1>2, <1>3, <1>4, <1>5, <1>6, <1>7, <1>8, <1>9, <1>10, <1>11, <1>12,
     <1>13, <1>14, <1>15, <1>16, <1>17, <1>18, <1>19, <1>20, <1>21
     DEF Next, Reconcile, Continue, Lock, Environment

\* The invariant holds in every reachable state.
LEMMA InvHolds ==
  ASSUME Lagging \subseteq {"Cluster"}
  PROVE  Spec => []Inv
<1>1. Init => Inv
  BY DEF Init, Inv, ReconcileInv, InitNodeHoldsLock, AtMostOneInit, InitNode,
         HandedOut, InInitBranch
<1>2. TypeOK /\ TypeOK' /\ Inv /\ [Next]_vars => Inv'
  BY InvStep
<1>3. QED
  BY <1>1, <1>2, TypeCorrect, PTL DEF Spec

\* As long as ConfigMaps, configs and Machines are read as they are, at most one
\* existing machine is ever handed data that initialises a cluster
\* (ControlPlaneInitMutex.Lock and the Unlocks of handleClusterNotInitialized),
\* for any number of machines, errors and crashes and however far the Cluster
\* cache lags.
THEOREM InitMutualExclusion ==
  ASSUME Lagging \subseteq {"Cluster"}
  PROVE  Spec => []AtMostOneInit
<1>1. Inv => AtMostOneInit
  BY DEF Inv
<1>2. QED
  BY <1>1, InvHolds, PTL

\* Under the same reads, the machine with such data keeps the lock while another
\* could still ask for it: no Unlock, no crash and no second reconcile frees the
\* ConfigMap under it (ControlPlaneInitMutex.Unlock).
THEOREM InitLockHeld ==
  ASSUME Lagging \subseteq {"Cluster"}
  PROVE  Spec => []InitNodeHoldsLock
<1>1. Inv => InitNodeHoldsLock
  BY DEF Inv
<1>2. QED
  BY <1>1, InvHolds, PTL

-----------------------------------------------------------------------------
(***************************************************************************)
(* Refinement of ClusterFormation.                                         *)
(***************************************************************************)
\* A step that leaves every role and the Cluster condition alone is a stutter.
LEMMA SameRolesStutter ==
  ASSUME \A m \in Machines : Role(m)' = Role(m), UNCHANGED cluster.initialized
  PROVE  UNCHANGED Formation!vars
BY DEF Formation!vars

\* A step that changes one role.
LEMMA OneRoleChanges ==
  ASSUME NEW m \in Machines, NEW r,
         Role(m)' = r, \A n \in Machines \ {m} : Role(n)' = Role(n)
  PROVE  [n \in Machines |-> Role(n)]' = [[n \in Machines |-> Role(n)] EXCEPT ![m] = r]
OBVIOUS

\* Every step is a Seed, Form, Join, Leave or a stutter of ClusterFormation.
LEMMA RefinementStep ==
  ASSUME Lagging \subseteq {"Cluster"}, TypeOK, TypeOK', Inv, [Next]_vars
  PROVE  [Formation!Next]_(Formation!vars)
<1> USE CurrentReads
<1> USE DEF TypeOK, ClusterStatus, Steps, Data, Goto, Return, apiVars, cacheVars, rcVars
<1> DEFINE Same == /\ \A m \in Machines : Role(m)' = Role(m)
                   /\ UNCHANGED cluster.initialized
<1>1. CASE \/ UNCHANGED vars \/ Lock \/ GenerateInit \/ GenerateJoin \/ UnlockOnError
           \/ Restart \/ \E k \in Kinds : SyncCache(k)
           \/ \E m \in Machines : Reconcile(m)
  <2>1. UNCHANGED <<machine, dataSecret, ready, secret, booted, cluster>>
    BY <1>1 DEF vars, Lock, LockCreate, LockHeldBySelf, LockHeldByOther, GenerateInit,
       GenerateJoin, UnlockOnError, Restart, SyncCache, Reconcile,
       ReconcileOwnerHasData, ReconcileNotInitialized, ReconcileJoin
  <2>2. Same
    BY <2>1 DEF Role, HandedOut
  <2>3. QED
    BY <2>2, SameRolesStutter
<1>2. CASE StoreBootstrapData
  <2>1. Same
    BY <1>2 DEF StoreBootstrapData, Inv, ReconcileInv, Role, HandedOut
  <2>2. QED
    BY <2>1, SameRolesStutter
<1>3. CASE PatchStatus
  <2>0. PICK m \in Machines : m = target
    BY <1>3 DEF PatchStatus
  <2>1. CASE ready' = ready \/ kind = "none"
    <3>1. Same
      BY <1>3, <2>1 DEF PatchStatus, Inv, ReconcileInv, Role, HandedOut
    <3>2. QED
      BY <3>1, SameRolesStutter
  <2>2. CASE ready' # ready /\ kind # "none"
    <3>1. /\ m \in Machines /\ pc = "patch" /\ machine[m] = "present"
          /\ ready' = [ready EXCEPT ![m] = TRUE]
          /\ UNCHANGED <<machine, dataSecret, secret, lock, booted, cluster>>
      BY <1>3, <2>0, <2>2 DEF PatchStatus
    <3>2. /\ ~ready[m] /\ ~dataSecret[m] /\ booted[m] = "none" /\ secret[m] = kind
          /\ kind = "init" => lock = m
          /\ kind = "join" => cluster.initialized
      BY <2>0, <2>2, <3>1 DEF Inv, ReconcileInv, InInitBranch, SeenCluster
    <3>3. /\ Role(m) = "none" /\ Role(m)' = kind
          /\ \A n \in Machines \ {m} : Role(n)' = Role(n)
      BY <2>2, <3>1, <3>2 DEF Role, HandedOut
    <3>4. [n \in Machines |-> Role(n)]' = [[n \in Machines |-> Role(n)] EXCEPT ![m] = kind]
      BY <3>1, <3>3, OneRoleChanges
    <3>5. CASE kind = "init"
      <4>1. \A n \in Machines : Role(n) # "init"
        BY <3>1, <3>2, <3>3, <3>5 DEF Inv, InitNodeHoldsLock, InInitBranch, InitNode, Role
      <4>2. Formation!Seed(m)
        BY <3>1, <3>3, <3>4, <3>5, <4>1 DEF Formation!Seed
      <4>3. QED
        BY <3>1, <4>2 DEF Formation!Next
    <3>6. CASE kind = "join"
      <4>1. Formation!Join(m)
        BY <3>1, <3>2, <3>3, <3>4, <3>6 DEF Formation!Join
      <4>2. QED
        BY <3>1, <4>1 DEF Formation!Next
    <3>7. QED
      BY <2>2, <3>5, <3>6
  <2>3. QED
    BY <2>1, <2>2
<1>4. CASE InfrastructureReady
  <2>1. Same
    BY <1>4 DEF InfrastructureReady, Role, HandedOut
  <2>2. QED
    BY <2>1, SameRolesStutter
<1>5. CASE ClusterInitialized
  <2>1. /\ \A m \in Machines : Role(m)' = Role(m)
        /\ cluster'.initialized = TRUE
        /\ \E m \in Machines : Role(m) = "init"
    BY <1>5 DEF ClusterInitialized, Role, HandedOut
  <2>2. Formation!Form
    BY <2>1 DEF Formation!Form
  <2>3. QED
    BY <2>2 DEF Formation!Next
<1>6. ASSUME NEW m \in Machines, CreateMachine(m) \/ CopyDataSecretName(m) \/ Boot(m) \/ LoseStatus(m)
      PROVE  [Formation!Next]_(Formation!vars)
  <2>1. Same
    BY <1>6 DEF CreateMachine, CopyDataSecretName, Boot, LoseStatus, Inv, ReconcileInv,
                Role, HandedOut
  <2>2. QED
    BY <2>1, SameRolesStutter
<1>7. ASSUME NEW m \in Machines, RemoveMachine(m)
      PROVE  [Formation!Next]_(Formation!vars)
  <2>1. /\ Role(m)' = "gone" /\ \A n \in Machines \ {m} : Role(n)' = Role(n)
        /\ UNCHANGED cluster
    BY <1>7 DEF RemoveMachine, Role, HandedOut
  <2>2. Formation!Leave(m)
    BY <2>1, OneRoleChanges DEF Formation!Leave
  <2>3. QED
    BY <2>2 DEF Formation!Next
<1>8. QED
  BY <1>1, <1>2, <1>3, <1>4, <1>5, <1>6, <1>7 DEF Next, Continue, Environment

\* The reconciler and its lock implement ClusterFormation: the data handed out
\* makes one machine at a time the seed, lets others join only once it is up,
\* and never changes a machine's role (CK8sConfigReconciler.Reconcile).
THEOREM RefinesClusterFormation ==
  ASSUME Lagging \subseteq {"Cluster"}
  PROVE  Spec => FormationSpec
<1>1. Init => Formation!Init
  BY DEF Init, Formation!Init, Role, HandedOut
<1>2. TypeOK /\ TypeOK' /\ Inv /\ [Next]_vars => [Formation!Next]_(Formation!vars)
  BY RefinementStep
<1>3. QED
  BY <1>1, <1>2, InvHolds, TypeCorrect, PTL DEF Spec, FormationSpec, Formation!Spec
=============================================================================
