--------------------------- MODULE CertificatesRefresh ---------------------------
(***************************************************************************)
(* The certificates reconciler of the bootstrap manager, on top of the     *)
(* Secrets it reads.  A user asks for a refresh of a machine's             *)
(* certificates by an annotation with a time to live; the reconciler marks *)
(* the machine in progress, has the node plan and run the refresh, and     *)
(* records the outcome.  Everything it knows between two calls is in the   *)
(* machine's annotations.                                                  *)
(*                                                                         *)
(* It reads the Machine from the manager's informer cache, whose copy may  *)
(* be older than the last write, its own patches included.                 *)
(*                                                                         *)
(* Patches of the scope's helper are merge patches of the difference       *)
(* between the object as it was read and the object in memory, and carry   *)
(* no resourceVersion; the Updates of the reconciler carry the             *)
(* resourceVersion of the read, and fail once anything was written since.  *)
(***************************************************************************)
EXTENDS ClusterSecrets

CONSTANTS
    TTLs,          \* the annotation values users write
    Malformed,     \* those of them TTLToSeconds rejects
    NoTTL,         \* no annotation
    MaxRequests,   \* bound on the requests of the users
    MaxOutdated,   \* bound on the reconciles that start from an outdated copy of a Machine
    RefreshFaults  \* steps of the refresh at which a call may fail, and "crash"

ASSUME TTLsAssumption == Malformed \subseteq TTLs /\ NoTTL \notin TTLs
ASSUME MaxRequestsAssumption == MaxRequests \in Nat
ASSUME MaxOutdatedAssumption == MaxOutdated \in Nat
ASSUME RefreshFaultsAssumption ==
    RefreshFaults \subseteq {"crash", "clear", "expiry", "mark", "plan", "run", "finish", "fail"}

VARIABLES
    ann,       \* ann[m]: the annotations of the Machine
    older,     \* older[m]: outdated copies of them the manager's cache may still hold
    lags,      \* reconciles left that may start from an outdated copy
    outdated,  \* history: how many reconciles of m started from an outdated copy
    cert,      \* cert[m]: how often the node of m replaced its certificates
    approved,  \* the signing requests of the worker being refreshed are approved
    requested, \* requested[m]: how often users asked for m
    left,      \* requests the users have left
    cr         \* the certificates reconcile in progress

cacheVars == <<older, lags, outdated>>
refreshVars == <<ann, cacheVars, cert, approved, requested, left, cr>>
vars == <<secretVars, refreshVars>>

NoExpiry == MaxRequests + MaxOutdated + 1
Expiries == 0..NoExpiry
Annotations == [refresh : TTLs \cup {NoTTL},
                status : {"none", "in-progress", "done", "failed"},
                expiry : Expiries]

RefreshSteps == {"idle", "clear", "expiry", "mark", "plan", "run", "finish", "fail"}
AtRest == [pc |-> "idle", m |-> NoMachine,
           base |-> [refresh |-> NoTTL, status |-> "none", expiry |-> NoExpiry],
           stale |-> FALSE, result |-> NoExpiry]

TypeOK ==
    /\ SecretsTypeOK
    /\ ann \in [Machines -> Annotations]
    /\ older \in [Machines -> SUBSET Annotations]
    /\ lags \in 0..MaxOutdated
    /\ outdated \in [Machines -> 0..MaxOutdated]
    /\ cert \in [Machines -> 0..(MaxRequests + MaxOutdated)]
    /\ approved \in BOOLEAN
    /\ requested \in [Machines -> 0..MaxRequests]
    /\ left \in 0..MaxRequests
    /\ cr \in [pc : RefreshSteps, m : Machines \cup {NoMachine}, base : Annotations,
               stale : BOOLEAN, result : Expiries]

\* A cluster all of whose machines have joined.
Joined ==
    LET pair == [p \in Purposes |-> 1]
        tok  == [value |-> 1, owner |-> "CK8sControlPlane", node |-> [m \in Machines |-> 1]]
    IN  /\ secrets = [cert |-> pair, tok |-> tok, kubeconfig |-> pair]
        /\ seen = [a \in Managers |-> secrets]
        /\ endpoint = TRUE
        /\ data = [m \in Machines |->
                      [pair |-> IF m = First THEN pair ELSE NoPairs,
                       auth |-> IF m \in Workers \cup {First} THEN 1 ELSE 0, node |-> 1]]
        /\ ready = [m \in Machines |-> TRUE]
        /\ node = [m \in Machines |-> 1]
        /\ formed = data[First]
        /\ run = [a \in Managers |-> Idle]
        /\ faults = 0

\* To bound the instance, users ask for refreshes of a cluster that is complete;
\* while it forms, the reconciler only records the expiry dates.
Init ==
    /\ \/ SecretsInit /\ left = 0 /\ lags = 0
       \/ Joined /\ left = MaxRequests /\ lags = MaxOutdated
    /\ ann = [m \in Machines |-> [refresh |-> NoTTL, status |-> "none", expiry |-> NoExpiry]]
    /\ older = [m \in Machines |-> {}]
    /\ outdated = [m \in Machines |-> 0]
    /\ cert = [m \in Machines |-> 0]
    /\ approved = FALSE
    /\ requested = [m \in Machines |-> 0]
    /\ cr = AtRest

-----------------------------------------------------------------------------
(***************************************************************************)
(* The Machine in the cache of the bootstrap manager.                      *)
(***************************************************************************)
\* What a step that may write annotations does: what it overwrites stays in the
\* cache for a while.  The copies are not ordered, since a manager that restarts
\* may list an older one; none is kept that no reconcile will read.
Unseen ==
    /\ older' = [m \in Machines |-> IF ann'[m] = ann[m] \/ lags = 0 THEN older[m]
                                    ELSE older[m] \cup {ann[m]}]
    /\ UNCHANGED <<lags, outdated>>

\* A reconcile finds that the cache has caught up with m.
CacheHit(m) ==
    /\ older' = [older EXCEPT ![m] = {}]
    /\ UNCHANGED <<lags, outdated>>

\* A reconcile finds an outdated copy of m.
CacheLags(m) ==
    /\ lags > 0 /\ lags' = lags - 1
    /\ outdated' = [outdated EXCEPT ![m] = @ + 1]
    /\ older' = IF lags' = 0 THEN [k \in Machines |-> {}] ELSE older

-----------------------------------------------------------------------------
(***************************************************************************)
(* Calls of the reconcile.                                                 *)
(***************************************************************************)
At(pc) == cr.pc = pc /\ UNCHANGED secretVars

Goto(pc) == cr' = [cr EXCEPT !.pc = pc]
End == cr' = AtRest

\* The Patch of the scope's helper: only what differs from the object as it was
\* read is sent.
Patch(obj) ==
    LET live == ann[cr.m]
        merge(read, new, now) == IF new # read THEN new ELSE now
    IN  ann' = [ann EXCEPT ![cr.m] =
                   [refresh |-> merge(cr.base.refresh, obj.refresh, live.refresh),
                    status  |-> merge(cr.base.status, obj.status, live.status),
                    expiry  |-> merge(cr.base.expiry, obj.expiry, live.expiry)]]

\* The object in memory: as it was read, with the expiry date found since.
Memory == IF cr.result = NoExpiry THEN cr.base ELSE [cr.base EXCEPT !.expiry = cr.result]

\* LookupNodeToken finds a token, and the node accepts it.
HasNodeToken == View(CFG).tok.node[cr.m] # 0
Authorized   == View(CFG).tok.node[cr.m] = node[cr.m]

\* createScope needs the kubeconfig and the auth token of GetWorkloadCluster.
createScope == View(CFG).kubeconfig # NoPairs /\ View(CFG).tok.value # 0

\* TTLToSeconds: the value is a time to live.
TTLToSeconds(ttl) == ttl \notin Malformed

\* The reconcile of m goes on to pc with the Machine a it read, stale when that
\* was outdated.
Proceed(m, a, stale, pc) ==
    cr' = [pc |-> pc, m |-> m, base |-> a, stale |-> stale, result |-> NoExpiry]

\* Faulty variant: a machine that is in progress and still requested starts over.
ReconcileAgain(m, a, stale) ==
    IF a.status = "in-progress" /\ a.refresh = NoTTL
    THEN Proceed(m, a, stale, "clear")
    ELSE /\ a.refresh # NoTTL \/ a.expiry = NoExpiry
         /\ createScope
         /\ Proceed(m, a, stale, IF a.expiry = NoExpiry THEN "expiry" ELSE "mark")

\* Faulty variant: a machine that is in progress is left alone, requested or not.
ReconcileNoClear(m, a, stale) ==
    /\ a.status # "in-progress"
    /\ a.refresh # NoTTL \/ a.expiry = NoExpiry
    /\ createScope
    /\ Proceed(m, a, stale, IF a.expiry = NoExpiry THEN "expiry" ELSE "mark")

\* Reconcile up to createScope, with the Machine a.  One that is in progress and
\* still requested is left alone, and one with nothing to do is done.
Reconcile(m, a, stale) ==
    IF a.status = "in-progress"
    THEN a.refresh = NoTTL /\ Proceed(m, a, stale, "clear")
    ELSE /\ a.refresh # NoTTL \/ a.expiry = NoExpiry
         /\ createScope
         /\ Proceed(m, a, stale, IF a.expiry = NoExpiry THEN "expiry" ELSE "mark")

\* The Get at the start of a reconcile answers from the cache, with the Machine as
\* it is or with an outdated copy.  A machine without a node is retried.
StartCurrent(m) ==
    /\ At("idle")
    /\ node[m] # 0
    /\ CacheHit(m)
    /\ Reconcile(m, ann[m], FALSE)
    /\ UNCHANGED <<ann, cert, approved, requested, left>>

StartOutdated(m, a) ==
    /\ At("idle")
    /\ node[m] # 0
    /\ CacheLags(m)
    /\ Reconcile(m, a, TRUE)
    /\ UNCHANGED <<ann, cert, approved, requested, left>>

StartRefresh(m) == StartCurrent(m) \/ \E a \in older[m] : StartOutdated(m, a)

\* The status of a withdrawn request is cleared by an Update.
ClearStatus ==
    /\ At("clear")
    /\ ann' = IF cr.stale THEN ann ELSE [ann EXCEPT ![cr.m].status = "none"]
    /\ End
    /\ Unseen
    /\ UNCHANGED <<cert, approved, requested, left>>

\* updateExpiryDateAnnotation; its errors end the reconcile.
UpdateExpiryDate ==
    /\ At("expiry")
    /\ IF HasNodeToken /\ Authorized
       THEN /\ Patch([cr.base EXCEPT !.expiry = cert[cr.m]])
            /\ IF cr.base.refresh = NoTTL
               THEN End
               ELSE cr' = [cr EXCEPT !.stale = TRUE, !.result = cert[cr.m], !.pc = "mark"]
       ELSE End /\ UNCHANGED ann
    /\ Unseen
    /\ UNCHANGED <<cert, approved, requested, left>>

\* refreshCertificates up to the in-progress mark.
MarkInProgress ==
    /\ At("mark")
    /\ IF HasNodeToken
       THEN /\ Patch([Memory EXCEPT !.status = "in-progress"])
            /\ cr' = [cr EXCEPT !.stale = TRUE, !.pc = "plan"]
       ELSE Goto("fail") /\ UNCHANGED ann
    /\ Unseen
    /\ UNCHANGED <<cert, approved, requested, left>>

\* TTLToSeconds and refreshCertificatesPlan.  On a worker the plan creates the
\* certificate signing requests.
Plan ==
    /\ At("plan")
    /\ IF TTLToSeconds(cr.base.refresh) /\ Authorized THEN Goto("run") ELSE Goto("fail")
    /\ approved' = FALSE
    /\ UNCHANGED <<ann, cacheVars, cert, requested, left>>

\* ApproveCertificates, concurrent with the run on a worker.
Approve ==
    /\ At("run")
    /\ cr.m \in Workers /\ ~approved
    /\ View(CFG).tok.value = formed.auth
    /\ approved' = TRUE
    /\ UNCHANGED <<ann, cacheVars, cert, requested, left, cr>>

\* refreshCertificatesRun: on a worker it returns once the requests are approved.
Run ==
    /\ At("run")
    /\ cr.m \in Workers => approved
    /\ cert' = [cert EXCEPT ![cr.m] = @ + 1]
    /\ cr' = [cr EXCEPT !.result = cert[cr.m] + 1, !.pc = "finish"]
    /\ UNCHANGED <<ann, cacheVars, approved, requested, left>>

\* Faulty variant: the expiry date is left as it was.
FinishOldExpiry ==
    /\ At("finish")
    /\ Patch([cr.base EXCEPT !.refresh = NoTTL, !.status = "done"])
    /\ End
    /\ Unseen
    /\ UNCHANGED <<cert, approved, requested, left>>

\* The last Patch: the request goes, the status and the new expiry date are set.
Finish ==
    /\ At("finish")
    /\ Patch([Memory EXCEPT !.refresh = NoTTL, !.status = "done"])
    /\ End
    /\ Unseen
    /\ UNCHANGED <<cert, approved, requested, left>>

\* Any error of refreshCertificates: the status becomes failed by an Update of
\* the machine as it was read, and the error is returned.
RecordFailure ==
    /\ At("fail")
    /\ ann' = IF cr.stale THEN ann ELSE [ann EXCEPT ![cr.m].status = "failed"]
    /\ End
    /\ Unseen
    /\ UNCHANGED <<cert, approved, requested, left>>

\* A call of the refresh fails.  A run that fails may have replaced the
\* certificates, once nothing held it back.
RefreshFails ==
    /\ cr.pc \in RefreshFaults
    /\ faults < MaxFaults /\ faults' = faults + 1
    /\ \/ cert' = cert
       \/ cr.pc = "run" /\ (cr.m \in Workers => approved)
          /\ cert' = [cert EXCEPT ![cr.m] = @ + 1]
    /\ IF cr.pc \in {"mark", "plan", "run", "finish"} THEN Goto("fail") ELSE End
    /\ UNCHANGED <<secrets, seen, worldVars, run, ann, cacheVars, approved, requested, left>>

\* The bootstrap manager stops: both of its reconciles are gone.
Crash ==
    /\ "crash" \in RefreshFaults /\ cr.pc # "idle"
    /\ faults < MaxFaults /\ faults' = faults + 1
    /\ Return(CFG) /\ End
    /\ UNCHANGED <<secrets, seen, worldVars, ann, cacheVars, cert, approved, requested, left>>

-----------------------------------------------------------------------------
(***************************************************************************)
(* The users.  Any write makes the resourceVersion the reconcile holds     *)
(* stale.                                                                  *)
(***************************************************************************)
Annotate(m, ttl) ==
    /\ ann' = [ann EXCEPT ![m].refresh = ttl]
    /\ cr' = IF cr.m = m THEN [cr EXCEPT !.stale = TRUE] ELSE cr
    /\ Unseen
    /\ UNCHANGED <<secretVars, cert, approved>>

Request(m, ttl) ==
    /\ left > 0 /\ left' = left - 1
    /\ ann[m].refresh = NoTTL
    /\ requested' = [requested EXCEPT ![m] = @ + 1]
    /\ Annotate(m, ttl)

Withdraw(m) ==
    /\ ann[m].refresh # NoTTL
    /\ Annotate(m, NoTTL)
    /\ UNCHANGED <<requested, left>>

RefreshStep ==
    \/ ClearStatus
    \/ UpdateExpiryDate
    \/ MarkInProgress
    \/ Plan
    \/ Approve
    \/ Run
    \/ Finish
    \/ RecordFailure

Next ==
    \/ SecretsNext /\ UNCHANGED refreshVars
    \/ RefreshStep
    \/ RefreshFails
    \/ Crash
    \/ \E m \in Machines : StartRefresh(m) \/ Withdraw(m)
    \/ \E m \in Machines, ttl \in TTLs : Request(m, ttl)

Spec == Init /\ [][Next]_vars

Bootstrap == BootstrapStep \/ \E m \in Machines : StartBootstrap(m)
Refresh   == RefreshStep \/ \E m \in Machines : StartCurrent(m)

\* Each reconciler goes on while it has anything to do, informers catch up, and
\* machines with data boot.  Users, faults and outdated copies are not fair.
FairSpec ==
    /\ Spec
    /\ WF_vars(ControlPlaneStep /\ UNCHANGED refreshVars)
    /\ WF_vars(Bootstrap /\ UNCHANGED refreshVars)
    /\ WF_vars(Refresh)
    /\ WF_vars((\E a \in Managers : SyncSecrets(a)) /\ UNCHANGED refreshVars)
    /\ WF_vars((SetEndpoint \/ \E m \in Machines : Boot(m)) /\ UNCHANGED refreshVars)

-----------------------------------------------------------------------------
(***************************************************************************)
(* Properties.                                                             *)
(***************************************************************************)
\* A machine whose status says done shows the expiry date of the certificates
\* its node really uses, whatever failed before (refreshCertificates).
DoneMeansRefreshed ==
    \A m \in Machines : ann[m].status = "done" => ann[m].expiry = cert[m]

\* The node replaces its certificates at most once for a request, also when the
\* answer of the run, the final patch or the manager itself is lost, and once more
\* at most for each reconcile that started from a Machine older than the last
\* write: a machine that is seen in progress is not refreshed again, and a
\* reconcile that did not see it never makes another one refresh it (Reconcile).
RefreshesAccounted == \A m \in Machines : cert[m] <= requested[m] + outdated[m]

\* A request withdrawn while its refresh hangs in progress does not leave the
\* machine in progress for ever: the status is cleared, unless the user asks
\* again first (Reconcile).
WithdrawalClears ==
    \A m \in Machines :
        (ann[m].status = "in-progress" /\ ann[m].refresh = NoTTL)
            ~> (ann[m].status # "in-progress" \/ ann[m].refresh # NoTTL)

\* A well-formed request is served, however often a call fails on the way: "On
\* error, we requeue the request to retry" (Reconcile).
EventuallyRefreshed ==
    \A m \in Machines :
        (ann[m].refresh \in TTLs \ Malformed) ~> (ann[m].refresh = NoTTL)
=============================================================================
