------------------------ MODULE CertificatesRefreshProofs ------------------------
(***************************************************************************)
(* Proofs about the Secrets of a cluster and the refresh of certificates:  *)
(* type correctness, the agreement of every machine with the Secrets, and  *)
(* that every replacement of a node's certificates is on the account of a  *)
(* request or of an outdated copy of the Machine, and is reported with     *)
(* their expiry date, for any number of machines, stale caches, failed     *)
(* calls and crashes.                                                      *)
(***************************************************************************)
EXTENDS CertificatesRefresh, ClusterSecretsProofs

USE MachinesAssumption, FirstAssumption, WorkersAssumption, NoMachineAssumption,
    LaggingAssumption, TornReadsAssumption, LegacyAssumption, MaxFaultsAssumption,
    TTLsAssumption, MaxRequestsAssumption, MaxOutdatedAssumption, RefreshFaultsAssumption

-----------------------------------------------------------------------------
(***************************************************************************)
(* The inductive invariant.                                                *)
(***************************************************************************)
\* The type of the reconcile in progress.
Reconciles == [pc : RefreshSteps, m : Machines \cup {NoMachine}, base : Annotations,
               stale : BOOLEAN, result : Expiries]

RefreshTypeOK ==
    /\ ann \in [Machines -> Annotations]
    /\ cert \in [Machines -> Nat]
    /\ approved \in BOOLEAN
    /\ requested \in [Machines -> Nat]
    /\ left \in Nat
    /\ older \in [Machines -> SUBSET Annotations]
    /\ lags \in Nat
    /\ outdated \in [Machines -> Nat]
    /\ cr \in Reconciles

\* An expiry date on a machine, or one the reconcile holds, is one the node had.
Dated(e, m) == e = NoExpiry \/ e <= cert[m]

\* A refresh of m may still happen: the reconcile is on its way to it, or one that
\* reads the annotations would be.
Pending(m) ==
    \/ cr.m = m /\ cr.pc \in {"mark", "plan", "run"}
    \/ cr.m = m /\ cr.pc = "expiry" /\ cr.base.refresh # NoTTL
    \/ ann[m].refresh # NoTTL /\ ann[m].status # "in-progress"

\* How often the node of m may have replaced its certificates.
Allowed(m) == requested[m] + outdated[m]

\* Requests and outdated copies are counted, a pending refresh has one of them to
\* use up, and a status of done comes with the expiry date.
MachinesInv ==
    \A m \in Machines :
        /\ requested[m] + left <= MaxRequests
        /\ outdated[m] + lags <= MaxOutdated
        /\ cert[m] <= Allowed(m)
        /\ Pending(m) => cert[m] < Allowed(m)
        /\ Dated(ann[m].expiry, m)
        /\ ann[m].status = "done" => ann[m].expiry = cert[m]

\* The copies the cache may hold show no date the node never had.
CacheInv == \A m \in Machines : \A a \in older[m] : Dated(a.expiry, m)

\* Where the reconcile is, the annotations it read and wrote agree with it.
ReconcileInv ==
    cr.pc # "idle" =>
        /\ cr.m \in Machines
        /\ Dated(cr.base.expiry, cr.m) /\ Dated(cr.result, cr.m)
        /\ cr.pc \in {"mark", "plan", "run", "finish"} => cr.base.refresh # NoTTL
        /\ cr.pc = "expiry" => cr.base.expiry = NoExpiry
        /\ cr.pc \in {"expiry", "mark"} => cr.base.status # "in-progress"
        /\ cr.pc \in {"mark", "fail"} /\ ~cr.stale => ann[cr.m].status # "in-progress"
        /\ cr.pc = "clear" /\ ~cr.stale => ann[cr.m].refresh = NoTTL
        /\ cr.pc \in {"plan", "run", "finish"} => cr.stale /\ ann[cr.m].status = "in-progress"
        /\ cr.pc = "finish" => cr.result = cert[cr.m] /\ cr.base.expiry # cr.result

RefreshInv == RefreshTypeOK /\ MachinesInv /\ ReconcileInv /\ CacheInv

Inv == SecretsInv /\ RefreshInv

-----------------------------------------------------------------------------
(***************************************************************************)
(* Values and patches.                                                     *)
(***************************************************************************)
\* The fields of annotations.
LEMMA AnnotationFields ==
  \A a \in Annotations : /\ a.refresh \in TTLs \cup {NoTTL}
                         /\ a.status \in {"none", "in-progress", "done", "failed"}
                         /\ a.expiry \in Expiries
BY DEF Annotations

\* The fields of the reconcile.
LEMMA ReconcileFields ==
  \A r \in Reconciles : /\ r.pc \in RefreshSteps /\ r.m \in Machines \cup {NoMachine}
                        /\ r.base \in Annotations /\ r.stale \in BOOLEAN
                        /\ r.result \in Expiries
BY DEF Reconciles

\* No expiry date is none of the dates.
LEMMA ExpiryRange ==
  /\ NoExpiry \in Nat /\ NoExpiry \in Expiries /\ Expiries \subseteq Nat
  /\ \A e \in Nat : e <= MaxRequests + MaxOutdated => e \in Expiries /\ e # NoExpiry
BY DEF NoExpiry, Expiries

\* A reconcile that has ended.
LEMMA AtRestFields ==
  AtRest \in Reconciles /\ AtRest.pc = "idle" /\ AtRest.m = NoMachine
BY ExpiryRange DEF AtRest, Reconciles, RefreshSteps, Annotations

\* What the Patch of an object leaves in the annotations.
LEMMA PatchEffect ==
  ASSUME RefreshTypeOK, NEW m \in Machines, m = cr.m, NEW obj \in Annotations, Patch(obj)
  PROVE  /\ ann' \in [Machines -> Annotations]
         /\ \A k \in Machines \ {m} : ann'[k] = ann[k]
         /\ ann'[m].refresh = IF obj.refresh # cr.base.refresh THEN obj.refresh ELSE ann[m].refresh
         /\ ann'[m].status = IF obj.status # cr.base.status THEN obj.status ELSE ann[m].status
         /\ ann'[m].expiry = IF obj.expiry # cr.base.expiry THEN obj.expiry ELSE ann[m].expiry
<1> DEFINE new == [refresh |-> IF obj.refresh # cr.base.refresh THEN obj.refresh ELSE ann[m].refresh,
                   status |-> IF obj.status # cr.base.status THEN obj.status ELSE ann[m].status,
                   expiry |-> IF obj.expiry # cr.base.expiry THEN obj.expiry ELSE ann[m].expiry]
<1>1. ann[m] \in Annotations /\ ann \in [Machines -> Annotations]
  BY DEF RefreshTypeOK
<1>2. new \in Annotations
  BY <1>1 DEF Annotations
<1>3. ann' = [ann EXCEPT ![m] = new]
  BY DEF Patch
<1>4. ann'[m] = new
  BY <1>1, <1>3
<1>5. QED
  BY <1>1, <1>2, <1>3, <1>4

\* The object in memory has the annotations that were read, and the expiry date
\* found since.
LEMMA MemoryFields ==
  ASSUME RefreshTypeOK
  PROVE  /\ Memory \in Annotations
         /\ Memory.refresh = cr.base.refresh /\ Memory.status = cr.base.status
         /\ Memory.expiry = IF cr.result = NoExpiry THEN cr.base.expiry ELSE cr.result
<1>1. cr.base \in Annotations /\ cr.result \in Expiries
  BY ReconcileFields DEF RefreshTypeOK
<1>2. QED
  BY <1>1 DEF Memory, Annotations

\* The annotations with another status (ClearStatus, RecordFailure).
LEMMA StatusSet ==
  ASSUME RefreshTypeOK, NEW m \in Machines, NEW st \in {"none", "failed"},
         ann' = [ann EXCEPT ![m].status = st]
  PROVE  /\ ann' \in [Machines -> Annotations]
         /\ \A k \in Machines \ {m} : ann'[k] = ann[k]
         /\ ann'[m].refresh = ann[m].refresh /\ ann'[m].status = st
         /\ ann'[m].expiry = ann[m].expiry
<1> DEFINE a == ann[m]
           new == [a EXCEPT !.status = st]
<1>1. a \in Annotations /\ ann \in [Machines -> Annotations]
  BY DEF RefreshTypeOK
<1>2. ann' = [ann EXCEPT ![m] = new]
  OBVIOUS
<1> HIDE DEF a
<1>3. /\ new \in Annotations /\ new.refresh = a.refresh /\ new.status = st
      /\ new.expiry = a.expiry
  BY <1>1 DEF Annotations
<1> HIDE DEF new
<1>4. ann'[m] = new /\ ann' \in [Machines -> Annotations] /\ \A k \in Machines \ {m} : ann'[k] = ann[k]
  BY <1>1, <1>2, <1>3
<1>5. QED
  BY <1>3, <1>4 DEF a

\* A reconcile that goes on, and one that holds a result.
LEMMA Went ==
  ASSUME cr \in Reconciles, NEW pc \in RefreshSteps, Goto(pc)
  PROVE  /\ cr' \in Reconciles /\ cr'.pc = pc /\ cr'.m = cr.m /\ cr'.base = cr.base
         /\ cr'.stale = cr.stale /\ cr'.result = cr.result
BY DEF Goto, Reconciles

\* What a step that writes annotations does to the copies in the cache.
LEMMA UnseenEffect ==
  ASSUME RefreshInv, Unseen, cert' = cert, ann' \in [Machines -> Annotations]
  PROVE  /\ older' \in [Machines -> SUBSET Annotations]
         /\ lags' = lags /\ outdated' = outdated
         /\ ann' = ann => older' = older
         /\ CacheInv'
<1>1. /\ older \in [Machines -> SUBSET Annotations] /\ ann \in [Machines -> Annotations]
      /\ lags' = lags /\ outdated' = outdated
      /\ older' = [m \in Machines |-> IF ann'[m] = ann[m] \/ lags = 0 THEN older[m]
                                      ELSE older[m] \cup {ann[m]}]
  BY DEF RefreshInv, RefreshTypeOK, Unseen
<1>2. \A m \in Machines : older'[m] \in SUBSET Annotations
                           /\ (ann' = ann => older'[m] = older[m])
                           /\ older'[m] \subseteq older[m] \cup {ann[m]}
  BY <1>1
<1>3. older' \in [Machines -> SUBSET Annotations]
  BY <1>1, <1>2
<1>4. ann' = ann => older' = older
  BY <1>1, <1>2, <1>3
<1>5. \A m \in Machines : Dated(ann[m].expiry, m) /\ \A a \in older[m] : Dated(a.expiry, m)
  BY DEF RefreshInv, MachinesInv, CacheInv
<1>6. CacheInv'
  BY <1>2, <1>5 DEF CacheInv, Dated
<1>7. QED
  BY <1>1, <1>3, <1>4, <1>6

-----------------------------------------------------------------------------
(***************************************************************************)
(* One lemma per step of the refresh.                                      *)
(***************************************************************************)
\* Reconcile up to createScope, with a Machine that was read: as it is, or as it
\* once was, on the account of the outdated copy.
LEMMA ReconcileKeeps ==
  ASSUME RefreshInv, NEW m \in Machines, NEW a \in Annotations, NEW stale \in BOOLEAN,
         cr.pc = "idle", Reconcile(m, a, stale), UNCHANGED <<ann, cert, approved, requested, left>>,
         older' \in [Machines -> SUBSET Annotations],
         \A k \in Machines : older'[k] \subseteq older[k],
         lags' \in Nat, outdated' \in [Machines -> Nat],
         \A k \in Machines : outdated[k] <= outdated'[k] /\ outdated'[k] + lags' <= MaxOutdated,
         Dated(a.expiry, m), ~stale => a = ann[m], stale => outdated[m] < outdated'[m]
  PROVE  RefreshInv'
<1> DEFINE pc == IF a.status = "in-progress" THEN "clear"
                 ELSE IF a.expiry = NoExpiry THEN "expiry" ELSE "mark"
           n == [pc |-> pc, m |-> m, base |-> a, stale |-> stale, result |-> NoExpiry]
<1>1. pc \in RefreshSteps
  BY DEF RefreshSteps
<1>2. /\ cr' = n
      /\ a.status = "in-progress" => a.refresh = NoTTL
      /\ a.status # "in-progress" => a.refresh # NoTTL \/ a.expiry = NoExpiry
  BY DEF Reconcile, Proceed
<1>3. /\ pc = "clear" => a.status = "in-progress" /\ a.refresh = NoTTL
      /\ pc = "expiry" => a.status # "in-progress" /\ a.expiry = NoExpiry
      /\ pc = "mark" => a.status # "in-progress" /\ a.refresh # NoTTL
      /\ pc \in {"clear", "expiry", "mark"}
  BY <1>2
<1> HIDE DEF pc
<1>4. n \in Reconciles /\ n.pc = pc /\ n.m = m /\ n.base = a /\ n.stale = stale
      /\ n.result = NoExpiry
  BY <1>1, ExpiryRange DEF Reconciles
<1> HIDE DEF n
<1>5. RefreshTypeOK'
  BY <1>2, <1>4 DEF RefreshInv, RefreshTypeOK
<1>6. MachinesInv'
  <2>1. ASSUME NEW k \in Machines
        PROVE  /\ requested[k] \in Nat /\ outdated[k] \in Nat /\ outdated'[k] \in Nat
               /\ cert[k] \in Nat /\ outdated[k] <= outdated'[k]
               /\ cert[k] <= requested[k] + outdated[k]
               /\ Pending(k) => cert[k] < requested[k] + outdated[k]
    BY DEF RefreshInv, RefreshTypeOK, MachinesInv, Allowed
  <2>2. ASSUME NEW k \in Machines, Pending(k)'
        PROVE  Pending(k) \/ (k = m /\ stale)
    BY <1>2, <1>3, <1>4, <2>2 DEF Pending
  <2>3. ASSUME NEW k \in Machines
        PROVE  cert[k] <= Allowed(k)' /\ (Pending(k)' => cert[k] < Allowed(k)')
    <3>1. Allowed(k)' = requested[k] + outdated'[k]
      BY DEF Allowed
    <3>2. CASE Pending(k)
      BY <2>1, <3>1, <3>2
    <3>3. CASE k = m /\ stale
      BY <2>1, <3>1, <3>3
    <3>4. CASE ~Pending(k)'
      BY <2>1, <3>1, <3>4
    <3>5. QED
      BY <2>2, <3>2, <3>3, <3>4
  <2>4. QED
    BY <2>3 DEF RefreshInv, MachinesInv, Dated
<1>7. ReconcileInv'
  <2>1. Dated(a.expiry, m)' /\ Dated(NoExpiry, m)'
    BY DEF Dated
  <2>2. QED
    BY <1>2, <1>3, <1>4, <2>1 DEF ReconcileInv
<1>8. CacheInv'
  BY DEF RefreshInv, CacheInv, Dated
<1>9. QED
  BY <1>5, <1>6, <1>7, <1>8 DEF RefreshInv

\* A reconcile starts, from the Machine as it is or from an outdated copy.
LEMMA StartRefreshKeeps ==
  ASSUME RefreshInv, NEW m \in Machines, StartRefresh(m)
  PROVE  RefreshInv'
<1>1. /\ older \in [Machines -> SUBSET Annotations] /\ lags \in Nat
      /\ outdated \in [Machines -> Nat] /\ ann[m] \in Annotations
      /\ Dated(ann[m].expiry, m) /\ \A a \in older[m] : Dated(a.expiry, m)
      /\ \A k \in Machines : outdated[k] + lags <= MaxOutdated
  BY DEF RefreshInv, RefreshTypeOK, MachinesInv, CacheInv
<1>2. CASE StartCurrent(m)
  <2>1. /\ cr.pc = "idle" /\ Reconcile(m, ann[m], FALSE)
        /\ UNCHANGED <<ann, cert, approved, requested, left>>
        /\ older' = [older EXCEPT ![m] = {}] /\ lags' = lags /\ outdated' = outdated
    BY <1>2 DEF StartCurrent, At, CacheHit
  <2>2. /\ older' \in [Machines -> SUBSET Annotations]
        /\ \A k \in Machines : older'[k] \subseteq older[k]
    BY <1>1, <2>1
  <2>3. /\ lags' \in Nat /\ outdated' \in [Machines -> Nat]
        /\ \A k \in Machines : outdated[k] <= outdated'[k] /\ outdated'[k] + lags' <= MaxOutdated
    BY <1>1, <2>1
  <2>4. QED
    BY <1>1, <2>1, <2>2, <2>3, ReconcileKeeps
<1>3. ASSUME NEW a \in older[m], StartOutdated(m, a)
      PROVE  RefreshInv'
  <2>1. /\ cr.pc = "idle" /\ Reconcile(m, a, TRUE)
        /\ UNCHANGED <<ann, cert, approved, requested, left>>
        /\ lags > 0 /\ lags' = lags - 1 /\ outdated' = [outdated EXCEPT ![m] = @ + 1]
        /\ older' = IF lags' = 0 THEN [k \in Machines |-> {}] ELSE older
    BY <1>3 DEF StartOutdated, At, CacheLags
  <2>2. /\ older' \in [Machines -> SUBSET Annotations]
        /\ \A k \in Machines : older'[k] \subseteq older[k]
    <3>1. CASE lags' = 0
      <4>1. older' = [k \in Machines |-> {}]
        BY <2>1, <3>1
      <4>2. QED
        BY <4>1
    <3>2. CASE lags' # 0
      BY <1>1, <2>1, <3>2
    <3>3. QED
      BY <3>1, <3>2
  <2>3. /\ lags' \in Nat /\ outdated' \in [Machines -> Nat] /\ outdated[m] < outdated'[m]
        /\ \A k \in Machines : outdated[k] <= outdated'[k] /\ outdated'[k] + lags' <= MaxOutdated
    BY <1>1, <2>1
  <2>4. a \in Annotations
    BY <1>1
  <2>5. QED
    BY <1>1, <2>1, <2>2, <2>3, <2>4, ReconcileKeeps
<1>4. QED
  BY <1>2, <1>3 DEF StartRefresh

\* A reconcile that ends without having written an annotation.
LEMMA EndsUnwritten ==
  ASSUME RefreshInv, End, UNCHANGED <<ann, cacheVars, cert, requested, left>>, approved' \in BOOLEAN
  PROVE  RefreshInv'
<1>1. cr' = AtRest
  BY DEF End
<1>2. RefreshTypeOK' /\ MachinesInv' /\ CacheInv'
  BY <1>1, AtRestFields
     DEF cacheVars, RefreshInv, RefreshTypeOK, MachinesInv, Allowed, Pending, Dated, CacheInv
<1>3. ReconcileInv'
  BY <1>1, AtRestFields DEF ReconcileInv
<1>4. QED
  BY <1>2, <1>3 DEF RefreshInv

\* The same of one whose write was refused.
LEMMA WritesNothing ==
  ASSUME RefreshInv, cr' = AtRest, Unseen, UNCHANGED <<ann, cert, approved, requested, left>>
  PROVE  RefreshInv'
<1>1. ann' \in [Machines -> Annotations] /\ approved' \in BOOLEAN
  BY DEF RefreshInv, RefreshTypeOK
<1>2. UNCHANGED cacheVars
  BY <1>1, UnseenEffect DEF cacheVars
<1>3. QED
  BY <1>1, <1>2, EndsUnwritten DEF End

\* The status of a withdrawn request is cleared.
LEMMA ClearStatusKeeps ==
  ASSUME RefreshInv, ClearStatus
  PROVE  RefreshInv'
<1>1. UNCHANGED <<cert, approved, requested, left>> /\ cr' = AtRest /\ cr.pc = "clear"
  BY DEF ClearStatus, At, End
<1>2. PICK m \in Machines : m = cr.m
  BY <1>1 DEF RefreshInv, ReconcileInv
<1>3. ReconcileInv'
  BY <1>1, AtRestFields DEF ReconcileInv
<1>4. CASE cr.stale
  BY <1>1, <1>4, WritesNothing DEF ClearStatus
<1>5. CASE ~cr.stale
  <2>1. /\ ann' \in [Machines -> Annotations]
        /\ \A k \in Machines \ {m} : ann'[k] = ann[k]
        /\ ann'[m].refresh = ann[m].refresh /\ ann'[m].status = "none"
        /\ ann'[m].expiry = ann[m].expiry
    BY <1>2, <1>5, StatusSet DEF ClearStatus, RefreshInv
  <2>2. ann[m].refresh = NoTTL
    BY <1>1, <1>2, <1>5 DEF RefreshInv, ReconcileInv
  <2>cache. /\ older' \in [Machines -> SUBSET Annotations] /\ lags' = lags /\ outdated' = outdated
        /\ CacheInv'
    BY <1>1, <2>1, UnseenEffect DEF ClearStatus
  <2>3. RefreshTypeOK'
    BY <1>1, <2>1, <2>cache, AtRestFields DEF RefreshInv, RefreshTypeOK
  <2>4. MachinesInv'
    BY <1>1, <2>1, <2>2, <2>cache, AtRestFields
       DEF RefreshInv, MachinesInv, Allowed, Pending, Dated
  <2>5. QED
    BY <1>3, <2>cache, <2>3, <2>4 DEF RefreshInv
<1>6. QED
  BY <1>4, <1>5

\* updateExpiryDateAnnotation.
LEMMA UpdateExpiryDateKeeps ==
  ASSUME RefreshInv, UpdateExpiryDate
  PROVE  RefreshInv'
<1>1. UNCHANGED <<cert, approved, requested, left>> /\ cr.pc = "expiry" /\ approved \in BOOLEAN
  BY DEF UpdateExpiryDate, At, RefreshInv, RefreshTypeOK
<1>2. PICK m \in Machines : m = cr.m
  BY <1>1 DEF RefreshInv, ReconcileInv
<1>3. CASE ~(HasNodeToken /\ Authorized)
  BY <1>1, <1>3, WritesNothing DEF UpdateExpiryDate, End
<1>4. CASE HasNodeToken /\ Authorized
  <2> DEFINE b == cr.base
             obj == [b EXCEPT !.expiry = cert[m]]
             n == [cr EXCEPT !.stale = TRUE, !.result = cert[m], !.pc = "mark"]
  <2>1. /\ b \in Annotations /\ cert[m] \in Nat /\ cert[m] <= MaxRequests + MaxOutdated
        /\ b.expiry = NoExpiry /\ b.status # "in-progress" /\ cr \in Reconciles
        /\ RefreshTypeOK
    BY <1>1, <1>2, ReconcileFields
       DEF RefreshInv, RefreshTypeOK, MachinesInv, Allowed, ReconcileInv
  <2>2. cert[m] \in Expiries /\ cert[m] # NoExpiry
    BY <2>1, ExpiryRange
  <2>3. /\ Patch(obj)
        /\ b.refresh = NoTTL => cr' = AtRest
        /\ b.refresh # NoTTL => cr' = n
    BY <1>2, <1>4 DEF UpdateExpiryDate, End
  <2>4. b = cr.base
    OBVIOUS
  <2> HIDE DEF b
  <2>5. /\ obj \in Annotations /\ obj.refresh = b.refresh /\ obj.status = b.status
        /\ obj.expiry = cert[m]
    BY <2>1, <2>2 DEF Annotations
  <2> HIDE DEF obj
  <2>6. /\ ann' \in [Machines -> Annotations]
        /\ \A k \in Machines \ {m} : ann'[k] = ann[k]
        /\ ann'[m].refresh = ann[m].refresh /\ ann'[m].status = ann[m].status
        /\ ann'[m].expiry = cert[m]
    BY <1>2, <2>1, <2>2, <2>3, <2>4, <2>5, PatchEffect
  <2>7. /\ n \in Reconciles /\ n.pc = "mark" /\ n.m = cr.m /\ n.base = cr.base
        /\ n.stale = TRUE /\ n.result = cert[m]
    BY <2>1, <2>2 DEF Reconciles, RefreshSteps
  <2> HIDE DEF n
  <2>cache. /\ older' \in [Machines -> SUBSET Annotations] /\ lags' = lags /\ outdated' = outdated
        /\ CacheInv'
    BY <1>1, <2>6, UnseenEffect DEF UpdateExpiryDate
  <2>8. RefreshTypeOK'
    BY <1>1, <2>cache, <2>3, <2>6, <2>7, AtRestFields DEF RefreshInv, RefreshTypeOK
  <2>9. MachinesInv'
    BY <1>1, <1>2, <2>cache, <2>1, <2>3, <2>4, <2>6, <2>7, AtRestFields
       DEF RefreshInv, MachinesInv, Allowed, Pending, Dated
  <2>10. ReconcileInv'
    BY <1>1, <1>2, <2>1, <2>3, <2>4, <2>6, <2>7, AtRestFields
       DEF RefreshInv, ReconcileInv, Dated
  <2>11. QED
    BY <2>cache, <2>8, <2>9, <2>10 DEF RefreshInv
<1>5. QED
  BY <1>3, <1>4

\* refreshCertificates up to the in-progress mark.
LEMMA MarkInProgressKeeps ==
  ASSUME RefreshInv, MarkInProgress
  PROVE  RefreshInv'
<1>1. /\ UNCHANGED <<cert, approved, requested, left>> /\ cr.pc = "mark"
      /\ RefreshTypeOK /\ cr \in Reconciles
  BY DEF MarkInProgress, At, RefreshInv, RefreshTypeOK
<1>2. PICK m \in Machines : m = cr.m
  BY <1>1 DEF RefreshInv, ReconcileInv
<1>3. CASE ~HasNodeToken
  <2>1. /\ cr' \in Reconciles /\ cr'.pc = "fail" /\ cr'.m = cr.m /\ cr'.base = cr.base
        /\ cr'.stale = cr.stale /\ cr'.result = cr.result /\ ann' = ann
    BY <1>1, <1>3, Went DEF MarkInProgress, RefreshSteps
  <2>cache. /\ older' \in [Machines -> SUBSET Annotations] /\ lags' = lags /\ outdated' = outdated
        /\ CacheInv'
    BY <1>1, <2>1, UnseenEffect DEF MarkInProgress, RefreshTypeOK
  <2>2. RefreshTypeOK'
    BY <1>1, <2>cache, <2>1 DEF RefreshTypeOK
  <2>3. MachinesInv'
    BY <1>1, <2>cache, <2>1 DEF RefreshInv, MachinesInv, Allowed, Pending, Dated
  <2>4. ReconcileInv'
    BY <1>1, <2>1 DEF RefreshInv, ReconcileInv, Dated
  <2>5. QED
    BY <2>cache, <2>2, <2>3, <2>4 DEF RefreshInv
<1>4. CASE HasNodeToken
  <2> DEFINE mem == Memory
             obj == [mem EXCEPT !.status = "in-progress"]
             n == [cr EXCEPT !.stale = TRUE, !.pc = "plan"]
  <2>1. /\ mem \in Annotations
        /\ mem.refresh = cr.base.refresh /\ mem.status = cr.base.status
        /\ mem.expiry = IF cr.result = NoExpiry THEN cr.base.expiry ELSE cr.result
    BY <1>1, MemoryFields
  <2>2. Patch(obj) /\ cr' = n
    BY <1>4 DEF MarkInProgress
  <2> HIDE DEF mem
  <2>3. /\ obj \in Annotations /\ obj.refresh = mem.refresh /\ obj.status = "in-progress"
        /\ obj.expiry = mem.expiry
    BY <2>1 DEF Annotations
  <2> HIDE DEF obj
  <2>4. cr.base.status # "in-progress" /\ Dated(cr.base.expiry, m) /\ Dated(cr.result, m)
    BY <1>1, <1>2 DEF RefreshInv, ReconcileInv
  <2>5. /\ ann' \in [Machines -> Annotations]
        /\ \A k \in Machines \ {m} : ann'[k] = ann[k]
        /\ ann'[m].status = "in-progress"
        /\ ann'[m].expiry \in {ann[m].expiry, cr.result}
    BY <1>1, <1>2, <2>1, <2>2, <2>3, <2>4, PatchEffect
  <2>6. /\ n \in Reconciles /\ n.pc = "plan" /\ n.m = cr.m /\ n.base = cr.base
        /\ n.stale = TRUE /\ n.result = cr.result
    BY <1>1 DEF Reconciles, RefreshSteps
  <2> HIDE DEF n
  <2>cache. /\ older' \in [Machines -> SUBSET Annotations] /\ lags' = lags /\ outdated' = outdated
        /\ CacheInv'
    BY <1>1, <2>5, UnseenEffect DEF MarkInProgress
  <2>7. RefreshTypeOK'
    BY <1>1, <2>cache, <2>2, <2>5, <2>6 DEF RefreshTypeOK
  <2>8. MachinesInv'
    BY <1>1, <1>2, <2>cache, <2>2, <2>4, <2>5, <2>6
       DEF RefreshInv, MachinesInv, Allowed, Pending, Dated
  <2>9. ReconcileInv'
    BY <1>1, <1>2, <2>2, <2>5, <2>6 DEF RefreshInv, ReconcileInv, Dated
  <2>10. QED
    BY <2>cache, <2>7, <2>8, <2>9 DEF RefreshInv
<1>5. QED
  BY <1>3, <1>4

\* A reconcile that goes on to run the refresh, or to record a failure, without
\* having written an annotation.
LEMMA GoesOn ==
  ASSUME RefreshInv, NEW pc \in {"run", "fail"}, Goto(pc),
         cr.pc \in {"mark", "plan", "run", "finish"}, pc = "run" => cr.pc = "plan",
         UNCHANGED <<ann, cacheVars, cert, requested, left>>, approved' \in BOOLEAN
  PROVE  RefreshInv'
<1>1. /\ cr' \in Reconciles /\ cr'.pc = pc /\ cr'.m = cr.m /\ cr'.base = cr.base
      /\ cr'.stale = cr.stale /\ cr'.result = cr.result
  BY Went DEF RefreshInv, RefreshTypeOK, RefreshSteps
<1>2. RefreshTypeOK' /\ CacheInv'
  BY <1>1 DEF cacheVars, RefreshInv, RefreshTypeOK, CacheInv, Dated
<1>3. MachinesInv'
  BY <1>1 DEF cacheVars, RefreshInv, MachinesInv, Allowed, Pending, Dated
<1>4. ReconcileInv'
  BY <1>1 DEF RefreshInv, ReconcileInv, Dated
<1>5. QED
  BY <1>2, <1>3, <1>4 DEF RefreshInv

\* TTLToSeconds and refreshCertificatesPlan.
LEMMA PlanKeeps ==
  ASSUME RefreshInv, Plan
  PROVE  RefreshInv'
<1>1. /\ cr.pc = "plan" /\ (Goto("run") \/ Goto("fail"))
      /\ UNCHANGED <<ann, cacheVars, cert, requested, left>> /\ approved' \in BOOLEAN
  BY DEF Plan, At
<1>2. QED
  BY <1>1, GoesOn

\* ApproveCertificates.
LEMMA ApproveKeeps ==
  ASSUME RefreshInv, Approve
  PROVE  RefreshInv'
BY DEF Approve, At, cacheVars, RefreshInv, RefreshTypeOK, MachinesInv, Allowed, ReconcileInv,
       CacheInv, Pending, Dated

\* The node replaces its certificates, on behalf of the pending request; the
\* reconcile goes on with the new expiry date or with a failure.
LEMMA ReplacedKeeps ==
  ASSUME RefreshInv, cr.pc = "run", UNCHANGED <<ann, cacheVars, approved, requested, left>>,
         cert' = [cert EXCEPT ![cr.m] = @ + 1],
         \/ cr' = [cr EXCEPT !.result = cert[cr.m] + 1, !.pc = "finish"]
         \/ Goto("fail")
  PROVE  RefreshInv'
<1>1. PICK m \in Machines : m = cr.m
  BY DEF RefreshInv, ReconcileInv
<1> DEFINE n == [cr EXCEPT !.result = cert[m] + 1, !.pc = "finish"]
<1>2. /\ cr \in Reconciles /\ cert \in [Machines -> Nat] /\ cert[m] \in Nat
      /\ requested[m] \in Nat /\ left \in Nat /\ outdated[m] \in Nat /\ lags \in Nat
      /\ cert[m] < requested[m] + outdated[m] /\ requested[m] + left <= MaxRequests
      /\ outdated[m] + lags <= MaxOutdated
      /\ UNCHANGED <<older, lags, outdated>>
  BY <1>1 DEF cacheVars, RefreshInv, RefreshTypeOK, MachinesInv, Allowed, Pending
<1>3. cert[m] + 1 \in Expiries /\ cert[m] + 1 # NoExpiry
  BY <1>2, ExpiryRange
<1>4. cert' \in [Machines -> Nat] /\ cert'[m] = cert[m] + 1
      /\ \A k \in Machines \ {m} : cert'[k] = cert[k]
  BY <1>1, <1>2
<1>5. /\ n \in Reconciles /\ n.pc = "finish" /\ n.m = cr.m /\ n.base = cr.base
      /\ n.stale = cr.stale /\ n.result = cert[m] + 1
  BY <1>2, <1>3 DEF Reconciles, RefreshSteps
<1>6. /\ cr' \in Reconciles /\ cr'.m = cr.m /\ cr'.base = cr.base /\ cr'.stale = cr.stale
      /\ \/ cr'.pc = "finish" /\ cr'.result = cert[m] + 1
         \/ cr'.pc = "fail" /\ cr'.result = cr.result
  BY <1>1, <1>2, <1>5, Went DEF RefreshSteps
<1> HIDE DEF n
<1>7. RefreshTypeOK'
  BY <1>2, <1>4, <1>6 DEF RefreshInv, RefreshTypeOK
<1>8. \A e \in Expiries : Dated(e, m) => e # cert[m] + 1 /\ Dated(e, m)'
  BY <1>2, <1>3, <1>4, ExpiryRange DEF Dated
<1>9. /\ ann[m].status = "in-progress" /\ cr.stale /\ ann[m].expiry \in Expiries
      /\ Dated(ann[m].expiry, m) /\ Dated(cr.base.expiry, m) /\ Dated(cr.result, m)
      /\ cr.base.expiry \in Expiries /\ cr.result \in Expiries
  BY <1>1, ReconcileFields, AnnotationFields
     DEF RefreshInv, RefreshTypeOK, MachinesInv, ReconcileInv
<1>10. MachinesInv'
  <2>1. ASSUME NEW k \in Machines \ {m}
        PROVE  /\ (requested[k] + left <= MaxRequests)'
               /\ (outdated[k] + lags <= MaxOutdated)'
               /\ (cert[k] <= Allowed(k))'
               /\ Pending(k)' => (cert[k] < Allowed(k))'
               /\ Dated(ann[k].expiry, k)'
               /\ (ann[k].status = "done" => ann[k].expiry = cert[k])'
    BY <1>1, <1>2, <1>4, <1>6 DEF RefreshInv, MachinesInv, Allowed, Pending, Dated
  <2>2. /\ (requested[m] + left <= MaxRequests)'
        /\ (outdated[m] + lags <= MaxOutdated)'
        /\ (cert[m] <= Allowed(m))'
        /\ ~Pending(m)'
        /\ (ann[m].status = "done" => ann[m].expiry = cert[m])'
    BY <1>2, <1>4, <1>6, <1>9 DEF Pending, Allowed
  <2>3. Dated(ann[m].expiry, m)'
    BY <1>8, <1>9 DEF Dated
  <2>4. QED
    BY <2>1, <2>2, <2>3 DEF MachinesInv
<1>11. ReconcileInv'
  BY <1>1, <1>2, <1>4, <1>6, <1>8, <1>9 DEF RefreshInv, ReconcileInv, Dated
<1>12. CacheInv'
  <2>1. ASSUME NEW k \in Machines, NEW a \in older[k]
        PROVE  Dated(a.expiry, k)'
    <3>1. a.expiry \in Expiries /\ Dated(a.expiry, k)
      BY AnnotationFields DEF RefreshInv, RefreshTypeOK, CacheInv
    <3>2. CASE k = m
      BY <1>8, <3>1, <3>2 DEF Dated
    <3>3. CASE k # m
      BY <1>4, <3>1, <3>3 DEF Dated
    <3>4. QED
      BY <3>2, <3>3
  <2>2. QED
    BY <1>2, <2>1 DEF CacheInv
<1>13. QED
  BY <1>7, <1>10, <1>11, <1>12 DEF RefreshInv

\* The last Patch: the request goes, the status and the new expiry date are set.
LEMMA FinishKeeps ==
  ASSUME RefreshInv, Finish
  PROVE  RefreshInv'
<1>1. /\ UNCHANGED <<cert, approved, requested, left>> /\ cr.pc = "finish"
      /\ cr' = AtRest /\ RefreshTypeOK
  BY DEF Finish, At, End, RefreshInv
<1>2. PICK m \in Machines : m = cr.m
  BY <1>1 DEF RefreshInv, ReconcileInv
<1> DEFINE mem == Memory
           obj == [mem EXCEPT !.refresh = NoTTL, !.status = "done"]
<1>3. /\ mem \in Annotations
      /\ mem.expiry = IF cr.result = NoExpiry THEN cr.base.expiry ELSE cr.result
  BY <1>1, MemoryFields
<1>4. Patch(obj)
  BY DEF Finish
<1> HIDE DEF mem
<1>5. obj \in Annotations /\ obj.refresh = NoTTL /\ obj.status = "done" /\ obj.expiry = mem.expiry
  BY <1>3 DEF Annotations
<1> HIDE DEF obj
<1>6. /\ cr.base.refresh # NoTTL /\ cr.result = cert[m] /\ cr.base.expiry # cr.result
      /\ ann[m].status = "in-progress"
      /\ cert[m] \in Nat /\ cert[m] <= MaxRequests + MaxOutdated
  BY <1>1, <1>2 DEF RefreshInv, RefreshTypeOK, MachinesInv, Allowed, ReconcileInv
<1>7. cr.result # NoExpiry
  BY <1>6, ExpiryRange
<1>8. /\ ann' \in [Machines -> Annotations]
      /\ \A k \in Machines \ {m} : ann'[k] = ann[k]
      /\ ann'[m].refresh = NoTTL /\ ann'[m].expiry = cert[m]
  BY <1>1, <1>2, <1>3, <1>4, <1>5, <1>6, <1>7, PatchEffect
<1>cache. /\ older' \in [Machines -> SUBSET Annotations] /\ lags' = lags /\ outdated' = outdated
      /\ CacheInv'
  BY <1>1, <1>8, UnseenEffect DEF Finish
<1>9. RefreshTypeOK'
  BY <1>1, <1>cache, <1>8, AtRestFields DEF RefreshTypeOK
<1>10. MachinesInv'
  BY <1>1, <1>cache, <1>6, <1>8, AtRestFields DEF RefreshInv, MachinesInv, Allowed, Pending, Dated
<1>11. ReconcileInv'
  BY <1>1, AtRestFields DEF ReconcileInv
<1>12. QED
  BY <1>cache, <1>9, <1>10, <1>11 DEF RefreshInv

\* An error of the refresh is recorded, on a machine nobody wrote since.
LEMMA RecordFailureKeeps ==
  ASSUME RefreshInv, RecordFailure
  PROVE  RefreshInv'
<1>1. /\ UNCHANGED <<cert, approved, requested, left>> /\ cr' = AtRest /\ End /\ cr.pc = "fail"
      /\ approved \in BOOLEAN
  BY DEF RecordFailure, At, End, RefreshInv, RefreshTypeOK
<1>2. PICK m \in Machines : m = cr.m
  BY <1>1 DEF RefreshInv, ReconcileInv
<1>3. CASE cr.stale
  BY <1>1, <1>3, WritesNothing DEF RecordFailure
<1>4. CASE ~cr.stale
  <2>1. /\ ann' \in [Machines -> Annotations]
        /\ \A k \in Machines \ {m} : ann'[k] = ann[k]
        /\ ann'[m].refresh = ann[m].refresh /\ ann'[m].status = "failed"
        /\ ann'[m].expiry = ann[m].expiry
    BY <1>2, <1>4, StatusSet DEF RecordFailure, RefreshInv
  <2>2. ann[m].status # "in-progress"
    BY <1>1, <1>2, <1>4 DEF RefreshInv, ReconcileInv
  <2>cache. /\ older' \in [Machines -> SUBSET Annotations] /\ lags' = lags /\ outdated' = outdated
        /\ CacheInv'
    BY <1>1, <2>1, UnseenEffect DEF RecordFailure
  <2>3. RefreshTypeOK'
    BY <1>1, <2>1, <2>cache, AtRestFields DEF RefreshInv, RefreshTypeOK
  <2>4. MachinesInv'
    BY <1>1, <2>1, <2>2, <2>cache, AtRestFields
       DEF RefreshInv, MachinesInv, Allowed, Pending, Dated
  <2>5. ReconcileInv'
    BY <1>1, AtRestFields DEF ReconcileInv
  <2>6. QED
    BY <2>cache, <2>3, <2>4, <2>5 DEF RefreshInv
<1>5. QED
  BY <1>3, <1>4

\* A call of the refresh that fails, the run of which may have succeeded.
LEMMA RefreshFailsKeeps ==
  ASSUME RefreshInv, RefreshFails
  PROVE  RefreshInv'
<1>1. /\ UNCHANGED <<ann, cacheVars, approved, requested, left>> /\ approved \in BOOLEAN
      /\ \/ cert' = cert
         \/ cr.pc = "run" /\ cert' = [cert EXCEPT ![cr.m] = @ + 1]
      /\ IF cr.pc \in {"mark", "plan", "run", "finish"} THEN Goto("fail") ELSE End
  BY DEF RefreshFails, RefreshInv, RefreshTypeOK
<1>2. CASE cert' = cert
  BY <1>1, <1>2, GoesOn, EndsUnwritten
<1>3. CASE cr.pc = "run" /\ cert' = [cert EXCEPT ![cr.m] = @ + 1]
  BY <1>1, <1>3, ReplacedKeeps
<1>4. QED
  BY <1>1, <1>2, <1>3

\* A user writes the annotation: the reconcile of the machine holds a version that
\* is behind, and a new request may be used up.
LEMMA AnnotateKeeps ==
  ASSUME RefreshInv, NEW m \in Machines, NEW ttl \in TTLs \cup {NoTTL}, Annotate(m, ttl),
         \/ ttl = NoTTL /\ UNCHANGED <<requested, left>>
         \/ /\ left > 0 /\ left' = left - 1
            /\ requested' = [requested EXCEPT ![m] = @ + 1]
  PROVE  RefreshInv'
<1> DEFINE a == ann[m]
           new == [a EXCEPT !.refresh = ttl]
           n == [cr EXCEPT !.stale = TRUE]
<1>1. /\ a \in Annotations /\ ann \in [Machines -> Annotations] /\ cr \in Reconciles
      /\ left \in Nat /\ requested \in [Machines -> Nat]
  BY DEF RefreshInv, RefreshTypeOK
<1>2. /\ ann' = [ann EXCEPT ![m] = new] /\ UNCHANGED <<cert, approved>>
      /\ cr' = IF cr.m = m THEN n ELSE cr
  BY DEF Annotate
<1>3. a = ann[m]
  OBVIOUS
<1> HIDE DEF a
<1>4. new \in Annotations /\ new.refresh = ttl /\ new.status = a.status /\ new.expiry = a.expiry
  BY <1>1 DEF Annotations
<1>5. /\ n \in Reconciles /\ n.pc = cr.pc /\ n.m = cr.m /\ n.base = cr.base
      /\ n.stale = TRUE /\ n.result = cr.result
  BY <1>1 DEF Reconciles
<1> HIDE DEF new, n
<1>6. /\ ann' \in [Machines -> Annotations]
      /\ \A k \in Machines \ {m} : ann'[k] = ann[k]
      /\ ann'[m].refresh = ttl /\ ann'[m].status = ann[m].status
      /\ ann'[m].expiry = ann[m].expiry
  BY <1>1, <1>2, <1>3, <1>4
<1>7. /\ cr' \in Reconciles /\ cr'.pc = cr.pc /\ cr'.m = cr.m /\ cr'.base = cr.base
      /\ cr'.result = cr.result /\ cr'.stale = (cr.stale \/ cr.m = m)
  BY <1>1, <1>2, <1>5, ReconcileFields
<1>8. /\ left' \in Nat /\ requested' \in [Machines -> Nat]
      /\ \A k \in Machines : requested[k] <= requested'[k] /\ requested'[k] + left' <= requested[k] + left
      /\ ttl # NoTTL => requested[m] < requested'[m]
  BY <1>1
<1>cache. /\ older' \in [Machines -> SUBSET Annotations] /\ lags' = lags /\ outdated' = outdated
      /\ CacheInv'
  BY <1>2, <1>6, UnseenEffect DEF Annotate
<1>9. RefreshTypeOK'
  BY <1>2, <1>cache, <1>6, <1>7, <1>8 DEF RefreshInv, RefreshTypeOK
<1>10. MachinesInv'
  <2>1. ASSUME NEW k \in Machines
        PROVE  /\ requested'[k] + left' <= MaxRequests
               /\ cert[k] <= Allowed(k)'
               /\ Pending(k)' => cert[k] < Allowed(k)'
    <3>1. /\ cert[k] \in Nat /\ requested[k] \in Nat /\ requested'[k] \in Nat /\ left' \in Nat
          /\ outdated[k] \in Nat /\ requested[k] + left <= MaxRequests
          /\ cert[k] <= requested[k] + outdated[k]
          /\ Pending(k) => cert[k] < requested[k] + outdated[k]
          /\ Allowed(k)' = requested'[k] + outdated[k]
      BY <1>8, <1>cache DEF RefreshInv, RefreshTypeOK, MachinesInv, Allowed
    <3>2. Pending(k)' => Pending(k) \/ (k = m /\ ttl # NoTTL)
      BY <1>6, <1>7 DEF Pending
    <3>3. QED
      BY <1>1, <1>8, <3>1, <3>2
  <2>2. QED
    BY <1>2, <1>cache, <1>6, <2>1 DEF RefreshInv, MachinesInv, Dated
<1>11. ReconcileInv'
  <2>1. SUFFICES ASSUME cr'.pc # "idle"
                 PROVE  ReconcileInv'
    BY DEF ReconcileInv
  <2>2. cr.pc # "idle" /\ cr.m \in Machines /\ ReconcileInv
    BY <1>7, <2>1 DEF RefreshInv, ReconcileInv
  <2>3. /\ ann'[cr.m].status = ann[cr.m].status
        /\ ~cr'.stale => ~cr.stale /\ ann'[cr.m] = ann[cr.m]
        /\ cr.stale => cr'.stale
    BY <1>6, <1>7, <2>2
  <2>4. Dated(cr.base.expiry, cr.m) /\ Dated(cr.result, cr.m)
    BY <2>2 DEF ReconcileInv
  <2>5. Dated(cr.base.expiry, cr.m)' /\ Dated(cr.result, cr.m)'
    BY <1>2, <1>7, <2>4 DEF Dated
  <2>6. QED
    BY <1>2, <1>7, <2>2, <2>3, <2>5 DEF ReconcileInv
<1>12. QED
  BY <1>cache, <1>9, <1>10, <1>11 DEF RefreshInv

-----------------------------------------------------------------------------
(***************************************************************************)
(* The theorems.                                                           *)
(***************************************************************************)
\* Both kinds of initial states satisfy the invariant.
LEMMA Start ==
  ASSUME Init
  PROVE  Inv
<1>1. SecretsInv
  <2>1. CASE SecretsInit
    BY <2>1, SecretsStart
  <2>2. CASE Joined
    <3> DEFINE pair == [p \in Purposes |-> 1]
               tok == [value |-> 1, owner |-> "CK8sControlPlane", node |-> [m \in Machines |-> 1]]
    <3>1. /\ secrets = [cert |-> pair, tok |-> tok, kubeconfig |-> pair]
          /\ seen = [a \in Managers |-> secrets] /\ endpoint = TRUE
          /\ data = [m \in Machines |->
                        [pair |-> IF m = First THEN pair ELSE NoPairs,
                         auth |-> IF m \in Workers \cup {First} THEN 1 ELSE 0, node |-> 1]]
          /\ ready = [m \in Machines |-> TRUE] /\ node = [m \in Machines |-> 1]
          /\ formed = data[First] /\ run = [a \in Managers |-> Idle] /\ faults = 0
      BY <2>2 DEF Joined
    <3>2. pair \in KeyPairs /\ Complete(pair) /\ pair # NoPairs
      BY DEF KeyPairs, Complete, NoPairs, Purposes
    <3>3. tok \in Tokens /\ tok.value = 1 /\ \A m \in Machines : tok.node[m] = 1
      BY DEF Tokens
    <3>4. \A m \in Machines : /\ data[m].pair = IF m = First THEN pair ELSE NoPairs
                              /\ m = First => data[m].auth = 1
                              /\ data[m].node = 1
      BY <3>1
    <3>5. data \in [Machines -> Payloads] /\ formed \in Payloads
      BY <3>1, <3>2, EmptyValues DEF Payloads
    <3> HIDE DEF pair, tok
    <3>6. secrets \in Secrets /\ secrets.cert = pair /\ secrets.kubeconfig = pair /\ secrets.tok = tok
      BY <3>1, <3>2, <3>3 DEF Secrets
    <3>7. SecretsTypeOK
      <4>1. \A a \in Managers : run[a] = Idle
        BY <3>1
      <4>2. \A a \in Managers : run[a].pc = "save" <=> run[a].gen # {}
        BY <4>1, EmptyValues
      <4>3. run \in [Managers -> Runs] /\ seen \in [Managers -> Secrets]
        BY <3>1, <3>6, EmptyValues
      <4>4. ready \in [Machines -> BOOLEAN] /\ node \in [Machines -> Nat]
        BY <3>1
      <4>5. endpoint \in BOOLEAN
        BY <3>1
      <4>6. faults \in 0..MaxFaults
        BY <3>1
      <4>7. QED
        BY <3>5, <3>6, <4>2, <4>3, <4>4, <4>5, <4>6 DEF SecretsTypeOK
    <3>8. AuthorityInv
      <4>1. Kept(secrets, secrets) /\ SignedBy(secrets, secrets)
        BY <3>2, <3>6 DEF Kept, SignedBy
      <4>2. Holds(Idle, secrets)
        BY EmptyValues DEF Holds, NoPairs
      <4>3. \A m \in Machines : Initialises(data[m], secrets)
        BY <3>2, <3>3, <3>4, <3>6 DEF Initialises
      <4>4. formed = data[First] /\ First \in Machines /\ formed.pair # NoPairs
        BY <3>1, <3>2, <3>4
      <4>5. QED
        BY <3>1, <4>1, <4>2, <4>3, <4>4 DEF AuthorityInv
    <3>9. CFG \in Managers
      BY DEF CFG, Managers
    <3>10. MachineChosen
      BY <3>1, <3>9, EmptyValues DEF MachineChosen
    <3>11. NodeTokenInv
      <4>1. NodesKept(secrets, secrets) /\ NodeHeld(Idle, secrets)
        BY EmptyValues DEF NodesKept, NodeHeld
      <4>2. QED
        BY <3>1, <3>3, <3>4, <3>6, <3>9, <4>1 DEF NodeTokenInv
    <3>12. QED
      BY <3>7, <3>8, <3>10, <3>11 DEF SecretsInv
  <2>3. QED
    BY <2>1, <2>2 DEF Init
<1>2. RefreshInv
  <2> DEFINE a == [refresh |-> NoTTL, status |-> "none", expiry |-> NoExpiry]
  <2>1. a \in Annotations /\ a.refresh = NoTTL /\ a.status = "none" /\ a.expiry = NoExpiry
    BY ExpiryRange DEF Annotations
  <2>2. /\ ann = [m \in Machines |-> a] /\ cert = [m \in Machines |-> 0] /\ approved = FALSE
        /\ requested = [m \in Machines |-> 0] /\ cr = AtRest /\ left \in {0, MaxRequests}
        /\ older = [m \in Machines |-> {}] /\ outdated = [m \in Machines |-> 0]
        /\ lags \in {0, MaxOutdated}
    BY DEF Init
  <2> HIDE DEF a
  <2>3. /\ ann \in [Machines -> Annotations] /\ cert \in [Machines -> Nat]
        /\ requested \in [Machines -> Nat] /\ left \in Nat
        /\ outdated \in [Machines -> Nat] /\ lags \in Nat
        /\ older \in [Machines -> SUBSET Annotations]
    BY <2>1, <2>2
  <2>4. approved \in BOOLEAN /\ cr \in Reconciles
    BY <2>2, AtRestFields
  <2>5. MachinesInv
    BY <2>1, <2>2, AtRestFields DEF MachinesInv, Allowed, Pending, Dated
  <2>6. ReconcileInv /\ CacheInv
    BY <2>2, AtRestFields DEF ReconcileInv, CacheInv
  <2>7. QED
    BY <2>3, <2>4, <2>5, <2>6 DEF RefreshInv, RefreshTypeOK
<1>3. QED
  BY <1>1, <1>2 DEF Inv

\* Every step keeps the invariant.
LEMMA Step ==
  ASSUME Inv, [Next]_vars
  PROVE  Inv'
<1>1. SecretsInv /\ RefreshInv /\ faults \in 0..MaxFaults
  BY DEF Inv, SecretsInv, SecretsTypeOK
<1>2. ASSUME UNCHANGED secretVars
      PROVE  SecretsInv'
  BY <1>1, <1>2, RefreshLeavesSecrets DEF secretVars, worldVars
<1>3. ASSUME UNCHANGED refreshVars
      PROVE  RefreshInv'
  BY <1>1, <1>3 DEF refreshVars, cacheVars, RefreshInv, RefreshTypeOK, MachinesInv, Allowed,
                    ReconcileInv, CacheInv, Pending, Dated
<1>4. CASE UNCHANGED vars
  BY <1>2, <1>3, <1>4 DEF vars, Inv
<1>5. CASE SecretsNext /\ UNCHANGED refreshVars
  BY <1>1, <1>3, <1>5, SecretsStep DEF Inv
<1>6. CASE RefreshStep
  <2>1. UNCHANGED secretVars
    BY <1>6 DEF RefreshStep, ClearStatus, UpdateExpiryDate, MarkInProgress, Plan, Approve,
                Run, Finish, RecordFailure, At
  <2>2. ASSUME Run
        PROVE  RefreshInv'
    BY <1>1, <2>2, ReplacedKeeps DEF Run, At
  <2>3. RefreshInv'
    BY <1>1, <1>6, <2>2, ClearStatusKeeps, UpdateExpiryDateKeeps, MarkInProgressKeeps,
       PlanKeeps, ApproveKeeps, FinishKeeps, RecordFailureKeeps DEF RefreshStep
  <2>4. QED
    BY <1>2, <2>1, <2>3 DEF Inv
<1>7. CASE RefreshFails
  <2>1. faults' \in 0..MaxFaults
    BY <1>1, <1>7 DEF RefreshFails
  <2>2. QED
    BY <1>1, <1>7, <2>1, RefreshFailsKeeps, RefreshLeavesSecrets DEF RefreshFails, Inv
<1>8. CASE Crash
  <2>1. faults' \in 0..MaxFaults
    BY <1>1, <1>8 DEF Crash
  <2>2. approved' \in BOOLEAN
    BY <1>1, <1>8 DEF Crash, RefreshInv, RefreshTypeOK
  <2>3. QED
    BY <1>1, <1>8, <2>1, <2>2, EndsUnwritten, RefreshLeavesSecrets DEF Crash, Inv
<1>9. ASSUME NEW m \in Machines, StartRefresh(m)
      PROVE  Inv'
  BY <1>1, <1>2, <1>9, StartRefreshKeeps
     DEF StartRefresh, StartCurrent, StartOutdated, At, Inv
<1>10. ASSUME NEW m \in Machines, Withdraw(m)
       PROVE  Inv'
  BY <1>1, <1>2, <1>10, AnnotateKeeps DEF Withdraw, Annotate, Inv
<1>11. ASSUME NEW m \in Machines, NEW ttl \in TTLs, Request(m, ttl)
       PROVE  Inv'
  BY <1>1, <1>2, <1>11, AnnotateKeeps DEF Request, Annotate, Inv
<1>12. QED
  BY <1>4, <1>5, <1>6, <1>7, <1>8, <1>9, <1>10, <1>11 DEF Next

\* The invariant holds in every reachable state.
LEMMA InvHolds == Spec => []Inv
BY Start, Step, PTL DEF Spec

\* Type correctness.  That the counts stay within their bounds is not a matter of
\* types: the node never replaces its certificates more often than users ask and
\* reconciles start from outdated copies.
THEOREM CertificatesTypeCorrect == Spec => []TypeOK
<1>1. Inv => TypeOK
  <2>1. SUFFICES ASSUME Inv PROVE TypeOK
    OBVIOUS
  <2>2. SecretsTypeOK /\ RefreshTypeOK /\ MachinesInv
    BY <2>1 DEF Inv, SecretsInv, RefreshInv
  <2>3. \A m \in Machines : /\ cert[m] \in 0..(MaxRequests + MaxOutdated)
                              /\ requested[m] \in 0..MaxRequests
                              /\ outdated[m] \in 0..MaxOutdated
    BY <2>2 DEF RefreshTypeOK, MachinesInv, Allowed
  <2>4. left \in 0..MaxRequests /\ lags \in 0..MaxOutdated
    BY <2>2 DEF RefreshTypeOK, MachinesInv
  <2>5. /\ cert \in [Machines -> 0..(MaxRequests + MaxOutdated)]
        /\ requested \in [Machines -> 0..MaxRequests]
        /\ outdated \in [Machines -> 0..MaxOutdated]
    BY <2>2, <2>3 DEF RefreshTypeOK
  <2>6. QED
    BY <2>2, <2>4, <2>5 DEF TypeOK, RefreshTypeOK, Reconciles
<1>2. QED
  BY <1>1, InvHolds, PTL

\* Whatever the two managers do in whatever order and however far their caches lag,
\* the cluster is initialised with the authorities and the auth token that the
\* Secrets hold, and the kubeconfig is signed by them (SaveGenerated,
\* token.Reconcile, generateKubeconfig), with or without torn reads and Secrets of
\* an older release.
THEOREM OneAuthorityHolds == Spec => []OneAuthority
<1>1. Inv => OneAuthority
  BY SecretsAgree DEF Inv
<1>2. QED
  BY <1>1, InvHolds, PTL

\* As long as the cache stands still between the two reads of EnsureNodeToken, the
\* token Secret names for every machine the node token it booted with.
THEOREM TokensAgreeHolds ==
  ASSUME ~TornReads
  PROVE  Spec => []TokensAgree
<1>1. Inv => TokensAgree
  BY SecretsAgree DEF Inv
<1>2. QED
  BY <1>1, InvHolds, PTL

\* Every replacement of a node's certificates is on the account of a request, each
\* used at most once also when the answer of the run, the final patch or the manager
\* itself is lost, or of a reconcile that started from a Machine older than the last
\* write (Reconcile).
THEOREM RefreshesAreAccounted == Spec => []RefreshesAccounted
<1>1. Inv => RefreshesAccounted
  BY DEF Inv, RefreshInv, MachinesInv, Allowed, RefreshesAccounted
<1>2. QED
  BY <1>1, InvHolds, PTL

\* As long as every reconcile finds the Machine as it is, which the Get from the
\* informer cache does not promise, a request is used at most once (Reconcile).
THEOREM OncePerRequestWhenCurrent ==
  ASSUME MaxOutdated = 0
  PROVE  Spec => [](\A m \in Machines : cert[m] <= requested[m])
<1>1. Inv => \A m \in Machines : cert[m] <= requested[m]
  <2>1. SUFFICES ASSUME Inv, NEW m \in Machines
                 PROVE  cert[m] <= requested[m]
    OBVIOUS
  <2>2. /\ cert[m] <= requested[m] + outdated[m] /\ outdated[m] + lags <= MaxOutdated
        /\ cert[m] \in Nat /\ requested[m] \in Nat /\ outdated[m] \in Nat /\ lags \in Nat
    BY <2>1 DEF Inv, RefreshInv, RefreshTypeOK, MachinesInv, Allowed
  <2>3. QED
    BY <2>2
<1>2. QED
  BY <1>1, InvHolds, PTL

\* A machine whose status says done shows the expiry date of the certificates its
\* node uses, whatever failed before (refreshCertificates).
THEOREM DoneShowsExpiry == Spec => []DoneMeansRefreshed
<1>1. Inv => DoneMeansRefreshed
  BY DEF Inv, RefreshInv, MachinesInv, DoneMeansRefreshed
<1>2. QED
  BY <1>1, InvHolds, PTL
=============================================================================
