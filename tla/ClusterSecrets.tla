----------------------------- MODULE ClusterSecrets -----------------------------
(***************************************************************************)
(* The Secrets both managers share for one cluster: the two certificate    *)
(* authorities, the auth token with one node token per machine, and the    *)
(* kubeconfig.  The control plane manager creates all of them; the         *)
(* bootstrap manager also creates missing authorities while it prepares    *)
(* the machine that initialises the cluster, adds a node token for every   *)
(* machine, and writes what it read into the machine's bootstrap data.     *)
(* Nothing serialises the two managers but the API server: Create fails on *)
(* a name that exists, and a write that carries a resourceVersion fails on *)
(* an object that changed.                                                 *)
(*                                                                         *)
(* A Secret is abstracted to which key pair or token it holds.  A newly    *)
(* generated value is the least number that nothing in the state holds, so *)
(* two generations are never confused.                                     *)
(***************************************************************************)
EXTENDS Naturals, FiniteSetsExt

CONSTANTS
    Machines,    \* machines with a CK8sConfig
    First,       \* the machine that holds the init lock
    Workers,     \* the machines that are not control plane machines
    NoMachine,
    Lagging,     \* managers whose informer cache of Secrets may be behind
    TornReads,   \* the cache may move on between two consecutive reads
    Legacy,      \* an older release may have left a token Secret it owns
    MaxFaults    \* bound on failed calls and crashes

ASSUME MachinesAssumption == IsFiniteSet(Machines)
ASSUME FirstAssumption == First \in Machines \ Workers
ASSUME WorkersAssumption == Workers \subseteq Machines
ASSUME NoMachineAssumption == NoMachine \notin Machines
ASSUME LaggingAssumption == Lagging \subseteq {"controlplane", "bootstrap"}
ASSUME TornReadsAssumption == TornReads \in BOOLEAN
ASSUME LegacyAssumption == Legacy \in BOOLEAN
ASSUME MaxFaultsAssumption == MaxFaults \in Nat

Managers == {"controlplane", "bootstrap"}

VARIABLES
    secrets,    \* the shared Secrets in the API server
    seen,       \* seen[a]: the same Secrets in the informer cache of manager a
    endpoint,   \* Cluster.Spec.ControlPlaneEndpoint is valid
    data,       \* data[m]: what the bootstrap data Secret of m holds
    ready,      \* ready[m]: CK8sConfig.Status.Ready
    node,       \* node[m]: the node token m booted with, 0 before it has a node
    formed,     \* authorities and auth token the cluster was initialised with
    run,        \* run[a]: the reconcile in progress in manager a
    faults

secretVars == <<secrets, seen, endpoint, data, ready, node, formed,
                run, faults>>

\* NewCertificatesForInitialControlPlane, with the managed datastore.
Purposes == {"ca", "client-ca"}
KeyPairs == [Purposes -> Nat]
NoPairs  == [p \in Purposes |-> 0]
Complete(pairs) == \A p \in Purposes : pairs[p] # 0

Tokens  == [value : Nat, owner : {"none", "CK8sConfig", "CK8sControlPlane"},
            node : [Machines -> Nat]]
NoToken == [value |-> 0, owner |-> "none", node |-> [m \in Machines |-> 0]]

Secrets  == [cert : KeyPairs, tok : Tokens, kubeconfig : KeyPairs]
Payloads == [pair : KeyPairs, auth : Nat, node : Nat]
NoData   == [pair |-> NoPairs, auth |-> 0, node |-> 0]

Steps == {"idle", "lookup", "save", "token", "createToken", "ownToken",
          "kubeconfig", "createKubeconfig", "auth", "ensure", "newToken",
          "patchToken", "workload", "store", "status"}

\* A reconcile: its machine, the authorities it holds and which of them it
\* generated and has not saved, the token Secret it read, the tokens it holds.
Idle == [pc |-> "idle", m |-> NoMachine, next |-> "ca", pair |-> NoPairs,
         gen |-> {}, tok |-> NoToken, auth |-> 0, node |-> 0]
Runs == [pc : Steps, m : Machines \cup {NoMachine}, next : Purposes,
         pair : KeyPairs, gen : SUBSET Purposes, tok : Tokens, auth : Nat,
         node : Nat]

SecretsTypeOK ==
    /\ secrets \in Secrets
    /\ seen \in [Managers -> Secrets]
    /\ endpoint \in BOOLEAN
    /\ data \in [Machines -> Payloads]
    /\ ready \in [Machines -> BOOLEAN]
    /\ node \in [Machines -> Nat]
    /\ formed \in Payloads
    /\ run \in [Managers -> Runs]
    /\ \A a \in Managers : run[a].pc = "save" <=> run[a].gen # {}
    /\ faults \in 0..MaxFaults

SecretsInit ==
    /\ \E t \in {NoToken} \cup
               {[NoToken EXCEPT !.value = 1, !.owner = "CK8sConfig"] : b \in {Legacy} \ {FALSE}} :
           secrets = [cert |-> NoPairs, tok |-> t, kubeconfig |-> NoPairs]
    /\ seen = [a \in Managers |-> secrets]
    /\ endpoint = FALSE
    /\ data = [m \in Machines |-> NoData]
    /\ ready = [m \in Machines |-> FALSE]
    /\ node = [m \in Machines |-> 0]
    /\ formed = NoData
    /\ run = [a \in Managers |-> Idle]
    /\ faults = 0

-----------------------------------------------------------------------------
(***************************************************************************)
(* Reads, fresh values and the reconcile's own state.                      *)
(***************************************************************************)
View(a) == IF a \in Lagging THEN seen[a] ELSE secrets

Least(used) == Min((1..Cardinality(used) + 1) \ used)

\* generateCACert, randomB64.
NewPair(p) ==
    Least({secrets.cert[p], secrets.kubeconfig[p], formed.pair[p]}
          \cup {run[a].pair[p] : a \in Managers} \cup {data[m].pair[p] : m \in Machines})
NewAuth == Least({secrets.tok.value, formed.auth})
NewNodeToken(m) ==
    Least({secrets.tok.node[m], data[m].node, node[m]} \cup {seen[a].tok.node[m] : a \in Managers})

Become(a, r) == run' = [run EXCEPT ![a] = r]
GoTo(a, pc)  == Become(a, [run[a] EXCEPT !.pc = pc])
Return(a)    == Become(a, Idle)
Store(s)     == secrets' = s

worldVars == <<endpoint, data, ready, node, formed>>

\* One API call of manager a, which leaves everything else alone.
Call(a, pc) ==
    /\ run[a].pc = pc
    /\ UNCHANGED <<seen, worldVars, faults>>

-----------------------------------------------------------------------------
(***************************************************************************)
(* Certificates.LookupOrGenerate, for either manager.                      *)
(***************************************************************************)
AfterCertificates(a) == IF a = "controlplane" THEN "token" ELSE "auth"

\* Lookup reads one authority after the other; Generate makes the missing ones.
Lookup(a) ==
    /\ Call(a, "lookup")
    /\ LET r    == run[a]
           pair == [r.pair EXCEPT ![r.next] = View(a).cert[r.next]]
           gen  == {p \in Purposes : pair[p] = 0}
       IN  IF r.next = "ca"
           THEN Become(a, [r EXCEPT !.pair = pair, !.next = "client-ca"])
           ELSE Become(a, [r EXCEPT
                    !.pair = [p \in Purposes |-> IF p \in gen THEN NewPair(p) ELSE pair[p]],
                    !.gen = gen,
                    !.pc = IF gen = {} THEN AfterCertificates(a) ELSE "save"])
    /\ UNCHANGED secrets

\* Faulty variant: an authority that exists already is taken for saved.
SaveGeneratedTolerant(a) ==
    /\ Call(a, "save")
    /\ LET p == IF "ca" \in run[a].gen THEN "ca" ELSE "client-ca"
           left == run[a].gen \ {p}
       IN  /\ Store([secrets EXCEPT !.cert[p] = IF @ # 0 THEN @ ELSE run[a].pair[p]])
           /\ Become(a, [run[a] EXCEPT !.gen = left,
                  !.pc = IF left = {} THEN AfterCertificates(a) ELSE "save"])

\* Faulty variant: the loop over the authorities ends after the first one.
SaveGeneratedFirst(a) ==
    /\ Call(a, "save")
    /\ LET p == IF "ca" \in run[a].gen THEN "ca" ELSE "client-ca"
       IN  IF secrets.cert[p] # 0
           THEN Return(a) /\ UNCHANGED secrets
           ELSE /\ Store([secrets EXCEPT !.cert[p] = run[a].pair[p]])
                /\ Become(a, [run[a] EXCEPT !.gen = @ \ {p}, !.pc = AfterCertificates(a)])

\* SaveGenerated creates one Secret per generated authority, in order; the
\* first Create that fails ends the reconcile.
SaveGenerated(a) ==
    /\ Call(a, "save")
    /\ LET p == IF "ca" \in run[a].gen THEN "ca" ELSE "client-ca"
           left == run[a].gen \ {p}
       IN  IF secrets.cert[p] # 0
           THEN Return(a) /\ UNCHANGED secrets
           ELSE /\ Store([secrets EXCEPT !.cert[p] = run[a].pair[p]])
                /\ Become(a, [run[a] EXCEPT !.gen = left,
                       !.pc = IF left = {} THEN AfterCertificates(a) ELSE "save"])

-----------------------------------------------------------------------------
(***************************************************************************)
(* The control plane manager: reconcile of the CK8sControlPlane up to the  *)
(* kubeconfig.                                                             *)
(***************************************************************************)
KCP == "controlplane"

StartControlPlane ==
    /\ Call(KCP, "idle")
    /\ GoTo(KCP, "lookup")
    /\ UNCHANGED secrets

\* Faulty variant: a Secret that another object controls is an error.
ReconcileTokenStrict ==
    /\ Call(KCP, "token")
    /\ LET t == View(KCP).tok
       IN  CASE t.value = 0                   -> GoTo(KCP, "createToken")
             [] t.owner = "CK8sControlPlane"  -> GoTo(KCP, "kubeconfig")
             [] OTHER                         -> Return(KCP)
    /\ UNCHANGED secrets

\* token.Reconcile: the Secret is created when it is missing, and taken over
\* when another object controls it.
ReconcileToken ==
    /\ Call(KCP, "token")
    /\ LET t == View(KCP).tok
       IN  Become(KCP, [run[KCP] EXCEPT !.tok = t,
               !.pc = CASE t.value = 0                  -> "createToken"
                        [] t.owner = "CK8sControlPlane" -> "kubeconfig"
                        [] OTHER                        -> "ownToken"])
    /\ UNCHANGED secrets

\* generateAndStore.
CreateToken ==
    /\ Call(KCP, "createToken")
    /\ IF secrets.tok.value # 0
       THEN Return(KCP) /\ UNCHANGED secrets
       ELSE /\ Store([secrets EXCEPT !.tok.value = NewAuth, !.tok.owner = "CK8sControlPlane"])
            /\ GoTo(KCP, "kubeconfig")

\* Faulty variant: the Update does not carry the resourceVersion.
OwnTokenUnlocked ==
    /\ Call(KCP, "ownToken")
    /\ Store([secrets EXCEPT !.tok = [run[KCP].tok EXCEPT !.owner = "CK8sControlPlane"]])
    /\ GoTo(KCP, "kubeconfig")

\* upsertControllerRef and an Update of the whole object, under the
\* resourceVersion that was read.
OwnToken ==
    /\ Call(KCP, "ownToken")
    /\ IF secrets.tok # run[KCP].tok
       THEN Return(KCP) /\ UNCHANGED secrets
       ELSE /\ Store([secrets EXCEPT !.tok = [run[KCP].tok EXCEPT !.owner = "CK8sControlPlane"]])
            /\ GoTo(KCP, "kubeconfig")

\* generateKubeconfig: signed by the authorities it finds, or nothing.
generateKubeconfig(view) == IF Complete(view.cert) THEN view.cert ELSE NoPairs

\* reconcileKubeconfig.  A missing authority is not an error: the reconcile goes
\* on without a kubeconfig.
ReconcileKubeconfig ==
    /\ Call(KCP, "kubeconfig")
    /\ LET new == generateKubeconfig(View(KCP))
       IN  IF endpoint /\ View(KCP).kubeconfig = NoPairs /\ new # NoPairs
           THEN Become(KCP, [run[KCP] EXCEPT !.pair = new, !.pc = "createKubeconfig"])
           ELSE Return(KCP)
    /\ UNCHANGED secrets

CreateKubeconfig ==
    /\ Call(KCP, "createKubeconfig")
    /\ Store([secrets EXCEPT !.kubeconfig = IF @ = NoPairs THEN run[KCP].pair ELSE @])
    /\ Return(KCP)

ControlPlaneStep ==
    \/ StartControlPlane
    \/ Lookup(KCP)
    \/ SaveGenerated(KCP)
    \/ ReconcileToken
    \/ CreateToken
    \/ OwnToken
    \/ ReconcileKubeconfig
    \/ CreateKubeconfig

-----------------------------------------------------------------------------
(***************************************************************************)
(* The bootstrap manager: bootstrap data of one machine at a time.  Which  *)
(* machine initialises the cluster is ControlPlaneInit's subject; here it  *)
(* is First.                                                               *)
(***************************************************************************)
CFG == "bootstrap"

StartBootstrap(m) ==
    /\ Call(CFG, "idle")
    /\ ~ready[m]
    /\ formed = NoData => m = First
    /\ Become(CFG, [run[CFG] EXCEPT !.m = m,
           !.pc = CASE formed = NoData                  -> "lookup"
                    [] formed # NoData /\ m \in Workers -> "auth"
                    [] OTHER                            -> "ensure"])
    /\ UNCHANGED secrets

\* token.Lookup.
LookupToken ==
    /\ Call(CFG, "auth")
    /\ IF View(CFG).tok.value = 0
       THEN Return(CFG)
       ELSE Become(CFG, [run[CFG] EXCEPT !.auth = View(CFG).tok.value, !.pc = "ensure"])
    /\ UNCHANGED secrets

\* The data of the initial machine needs no cluster; a join asks it for a token.
AfterNodeToken == IF run[CFG].pair # NoPairs THEN "store" ELSE "workload"

\* LookupNodeToken inside EnsureNodeToken: any error is taken for a missing token.
EnsureNodeToken ==
    /\ Call(CFG, "ensure")
    /\ LET t == View(CFG).tok.node[run[CFG].m]
       IN  IF t # 0
           THEN Become(CFG, [run[CFG] EXCEPT !.node = t, !.pc = AfterNodeToken])
           ELSE Become(CFG, [run[CFG] EXCEPT !.tok = View(CFG).tok, !.pc = "newToken"])
    /\ UNCHANGED secrets

\* EnsureNodeToken generates a token and reads the Secret once more, from the
\* same cache as a moment ago.
GenerateNodeToken ==
    /\ Call(CFG, "newToken")
    /\ LET t == IF TornReads THEN View(CFG).tok ELSE run[CFG].tok
       IN  IF t.value = 0
           THEN Return(CFG)
           ELSE Become(CFG, [run[CFG] EXCEPT !.tok = t,
                    !.node = NewNodeToken(run[CFG].m), !.pc = "patchToken"])
    /\ UNCHANGED secrets

\* The Patch of EnsureNodeToken carries the resourceVersion of that second read.
PatchNodeToken ==
    /\ Call(CFG, "patchToken")
    /\ IF secrets.tok # run[CFG].tok
       THEN Return(CFG) /\ UNCHANGED secrets
       ELSE /\ Store([secrets EXCEPT !.tok.node[run[CFG].m] = run[CFG].node])
            /\ GoTo(CFG, AfterNodeToken)

\* The workload cluster trusts a client whose kubeconfig its authorities signed
\* and a request that carries its auth token.
Reaches(view) ==
    /\ view.kubeconfig # NoPairs /\ view.tok.value # 0
    /\ formed # NoData
    /\ view.kubeconfig = formed.pair
    /\ view.tok.value = formed.auth

\* GetWorkloadCluster and requestJoinToken.
RequestJoinToken ==
    /\ Call(CFG, "workload")
    /\ IF Reaches(View(CFG)) THEN GoTo(CFG, "store") ELSE Return(CFG)
    /\ UNCHANGED secrets

\* storeBootstrapData creates the data Secret or overwrites it.
StoreBootstrapData ==
    /\ run[CFG].pc = "store"
    /\ data' = [data EXCEPT ![run[CFG].m] =
                   [pair |-> run[CFG].pair, auth |-> run[CFG].auth, node |-> run[CFG].node]]
    /\ GoTo(CFG, "status")
    /\ UNCHANGED <<secrets, seen, endpoint, ready, node, formed, faults>>

\* The deferred patch of the CK8sConfig.
PatchConfigStatus ==
    /\ run[CFG].pc = "status"
    /\ ready' = [ready EXCEPT ![run[CFG].m] = TRUE]
    /\ Return(CFG)
    /\ UNCHANGED <<secrets, seen, endpoint, data, node, formed, faults>>

BootstrapStep ==
    \/ Lookup(CFG)
    \/ SaveGenerated(CFG)
    \/ LookupToken
    \/ EnsureNodeToken
    \/ GenerateNodeToken
    \/ PatchNodeToken
    \/ RequestJoinToken
    \/ StoreBootstrapData
    \/ PatchConfigStatus

-----------------------------------------------------------------------------
(***************************************************************************)
(* Surroundings: the infrastructure provider, the nodes, the informers,    *)
(* and calls that fail.                                                    *)
(***************************************************************************)
SetEndpoint ==
    /\ ~endpoint /\ endpoint' = TRUE
    /\ UNCHANGED <<secrets, seen, data, ready, node, formed, run, faults>>

\* The machine boots with the data its Secret holds; the initial one forms the
\* cluster from it.
Boot(m) ==
    /\ ready[m] /\ node[m] = 0
    /\ node' = [node EXCEPT ![m] = data[m].node]
    /\ formed' = IF data[m].pair # NoPairs THEN data[m] ELSE formed
    /\ UNCHANGED <<secrets, seen, endpoint, data, ready, run, faults>>

SyncSecrets(a) ==
    /\ a \in Lagging /\ seen[a] # secrets
    /\ seen' = [seen EXCEPT ![a] = secrets]
    /\ UNCHANGED <<secrets, worldVars, run, faults>>

\* A call fails, or its answer is lost after it took effect: the reconcile
\* returns the error and starts over.
Abort(a) ==
    /\ run[a].pc # "idle"
    /\ faults < MaxFaults /\ faults' = faults + 1
    /\ Return(a)
    /\ UNCHANGED <<secrets, seen, worldVars>>

SecretsNext ==
    \/ ControlPlaneStep
    \/ BootstrapStep
    \/ \E m \in Machines : StartBootstrap(m) \/ Boot(m)
    \/ \E a \in Managers : SyncSecrets(a) \/ Abort(a)
    \/ SetEndpoint

-----------------------------------------------------------------------------
(***************************************************************************)
(* Properties.                                                             *)
(***************************************************************************)
\* Whatever the two managers and their caches do in whatever order, the cluster
\* is initialised with the authorities and the auth token that the Secrets hold,
\* and the kubeconfig is signed by them (SaveGenerated, token.Reconcile,
\* generateKubeconfig).
OneAuthority ==
    /\ formed # NoData => formed.pair = secrets.cert /\ formed.auth = secrets.tok.value
    /\ secrets.kubeconfig # NoPairs => secrets.kubeconfig = secrets.cert

\* The node token a machine booted with is the one the token Secret names for it,
\* so every later request to its k8sd is accepted: neither the other writer of
\* the Secret nor a second reconcile replaces it (EnsureNodeToken).
TokensAgree == \A m \in Machines : node[m] # 0 => secrets.tok.node[m] = node[m]

\* Every machine gets its data and joins, whatever calls fail on the way.
AllJoin == <>(\A m \in Machines : node[m] # 0)
=============================================================================
