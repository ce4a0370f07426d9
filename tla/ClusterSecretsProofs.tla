-------------------------- MODULE ClusterSecretsProofs --------------------------
(***************************************************************************)
(* What every step of the two managers keeps true of the Secrets they      *)
(* share.  The argument: an authority, the auth token and, as long as the  *)
(* cache stands still between the two reads of EnsureNodeToken, a node     *)
(* token are written once; so whatever a cache, a reconcile, the bootstrap *)
(* data or the cluster holds is either nothing or what the Secrets hold,   *)
(* whenever it was read.  CertificatesRefreshProofs draws the conclusions  *)
(* for the whole specification.                                            *)
(***************************************************************************)
EXTENDS ClusterSecrets, NumberLemmas

USE MachinesAssumption, FirstAssumption, WorkersAssumption, NoMachineAssumption,
    LaggingAssumption, TornReadsAssumption, LegacyAssumption, MaxFaultsAssumption

-----------------------------------------------------------------------------
(***************************************************************************)
(* The inductive invariant, as relations between values.                   *)
(***************************************************************************)
\* What S holds of the authorities and the auth token, T holds too.
Kept(S, T) ==
    /\ \A p \in Purposes : S.cert[p] # 0 => T.cert[p] = S.cert[p]
    /\ S.tok.value # 0 => T.tok.value = S.tok.value

\* The kubeconfig in S, if any, is signed by the authorities of T.
SignedBy(S, T) == S.kubeconfig # NoPairs => Complete(T.cert) /\ S.kubeconfig = T.cert

\* A reconcile r holds authorities and an auth token of T, but for those it has
\* generated and not saved; its authorities are complete once it looked them up.
Holds(r, T) ==
    /\ \A p \in Purposes \ r.gen : r.pair[p] # 0 => r.pair[p] = T.cert[p]
    /\ r.pc = "idle" => r.pair = NoPairs
    /\ r.pc # "lookup" => r.pair = NoPairs \/ Complete(r.pair)
    /\ r.pc \in {"save", "createKubeconfig"} => Complete(r.pair)
    /\ r.auth # 0 => r.auth = T.tok.value
    /\ r.pc \in {"ensure", "newToken", "patchToken", "workload", "store", "status"}
         /\ r.pair # NoPairs => r.auth # 0

\* Data that initialises a cluster does so with the authorities and the token of T.
Initialises(d, T) ==
    d.pair # NoPairs =>
        Complete(d.pair) /\ d.pair = T.cert /\ d.auth # 0 /\ d.auth = T.tok.value

AuthorityInv ==
    /\ \A a \in Managers : Kept(seen[a], secrets) /\ SignedBy(seen[a], secrets)
    /\ SignedBy(secrets, secrets)
    /\ \A a \in Managers : Holds(run[a], secrets)
    /\ \A m \in Machines : Initialises(data[m], secrets)
    /\ formed # NoData => formed.pair # NoPairs
    /\ Initialises(formed, secrets)

\* The bootstrap manager works on a machine.
MachineChosen == run[CFG].pc # "idle" => run[CFG].m \in Machines

\* A node token in S is the one T holds.
NodesKept(S, T) == \A m \in Machines : S.tok.node[m] # 0 => T.tok.node[m] = S.tok.node[m]

\* A reconcile r that adds a node token read a Secret without one; a node token
\* it goes on with is the one of T.
NodeHeld(r, T) ==
    /\ r.pc \in {"newToken", "patchToken"} => r.tok.node[r.m] = 0
    /\ r.pc = "patchToken" => r.node # 0
    /\ r.pc \in {"workload", "store", "status"} => r.node # 0 /\ r.node = T.tok.node[r.m]

NodeTokenInv ==
    /\ \A a \in Managers : NodesKept(seen[a], secrets)
    /\ NodeHeld(run[CFG], secrets)
    /\ \A m \in Machines : data[m].node # 0 => data[m].node = secrets.tok.node[m]
    /\ \A m \in Machines : node[m] # 0 => node[m] = secrets.tok.node[m]

SecretsInv ==
    /\ SecretsTypeOK
    /\ AuthorityInv
    /\ MachineChosen
    /\ ~TornReads => NodeTokenInv

\* What a step of manager a must see to: the reconcile r it goes on with and the
\* Secrets T it leaves.
Good(a, r, T) ==
    /\ r \in Runs /\ T \in Secrets
    /\ r.pc = "save" <=> r.gen # {}
    /\ Kept(secrets, T) /\ SignedBy(T, T) /\ Holds(r, T)
    /\ a = CFG /\ r.pc # "idle" => r.m \in Machines
    /\ ~TornReads => NodesKept(secrets, T) /\ (a = CFG => NodeHeld(r, T))

Moves(a) == \E r, T : Good(a, r, T) /\ run' = [run EXCEPT ![a] = r] /\ secrets' = T

\* What a step must see to when it hands out bootstrap data.
HandsOut ==
    /\ data' \in [Machines -> Payloads] /\ ready' \in [Machines -> BOOLEAN]
    /\ \A m \in Machines : Initialises(data'[m], secrets)
    /\ ~TornReads =>
           \A m \in Machines : data'[m].node # 0 => data'[m].node = secrets.tok.node[m]

-----------------------------------------------------------------------------
(***************************************************************************)
(* Types.                                                                  *)
(***************************************************************************)
\* The empty values have their types, and a reconcile that returns is at rest.
LEMMA EmptyValues ==
  /\ NoPairs \in KeyPairs /\ NoToken \in Tokens /\ NoData \in Payloads /\ Idle \in Runs
  /\ NoData.pair = NoPairs /\ NoData.auth = 0 /\ NoData.node = 0
  /\ Idle.pc = "idle" /\ Idle.pair = NoPairs /\ Idle.gen = {} /\ Idle.auth = 0
BY DEF NoPairs, KeyPairs, NoToken, Tokens, NoData, Payloads, Idle, Runs, Steps, Purposes

\* The fields of the values of each type.
LEMMA FieldTypes ==
  /\ \A s \in Secrets : s.cert \in KeyPairs /\ s.tok \in Tokens /\ s.kubeconfig \in KeyPairs
  /\ \A t \in Tokens : t.value \in Nat /\ t.node \in [Machines -> Nat]
  /\ \A d \in Payloads : d.pair \in KeyPairs /\ d.auth \in Nat /\ d.node \in Nat
  /\ \A r \in Runs : /\ r.pc \in Steps /\ r.next \in Purposes /\ r.pair \in KeyPairs
                     /\ r.gen \in SUBSET Purposes /\ r.tok \in Tokens
                     /\ r.auth \in Nat /\ r.node \in Nat
BY DEF Secrets, Tokens, Payloads, Runs

-----------------------------------------------------------------------------
(***************************************************************************)
(* Written once is kept.                                                   *)
(***************************************************************************)
\* Two complete sets of authorities that agree are equal.
LEMMA CompleteKept ==
  ASSUME NEW P \in KeyPairs, NEW Q \in KeyPairs, Complete(P),
         \A p \in Purposes : P[p] # 0 => Q[p] = P[p]
  PROVE  Q = P
BY DEF KeyPairs, Complete

\* What was read from Secrets that are kept is still right.
LEMMA KeptReads ==
  ASSUME NEW S \in Secrets, NEW T \in Secrets, Kept(S, T)
  PROVE  /\ \A x \in Secrets : Kept(x, S) => Kept(x, T)
         /\ \A x \in Secrets : SignedBy(x, S) => SignedBy(x, T)
         /\ \A r \in Runs : Holds(r, S) => Holds(r, T)
         /\ \A d \in Payloads : Initialises(d, S) => Initialises(d, T)
<1>1. S.cert \in KeyPairs /\ T.cert \in KeyPairs
  BY FieldTypes
<1>2. \A x \in Secrets : Kept(x, S) => Kept(x, T)
  BY DEF Kept
<1>3. Complete(S.cert) => T.cert = S.cert
  BY <1>1, CompleteKept DEF Kept
<1>4. \A x \in Secrets : SignedBy(x, S) => SignedBy(x, T)
  BY <1>3 DEF SignedBy
<1>5. \A r \in Runs : Holds(r, S) => Holds(r, T)
  BY FieldTypes DEF Kept, Holds
<1>6. \A d \in Payloads : Initialises(d, S) => Initialises(d, T)
  BY <1>3 DEF Kept, Initialises
<1>7. QED
  BY <1>2, <1>4, <1>5, <1>6

\* A generated value is a number other than 0, whatever is in use.
LEMMA Generated ==
  ASSUME SecretsTypeOK
  PROVE  /\ \A p \in Purposes : NewPair(p) \in Nat \ {0}
         /\ NewAuth \in Nat \ {0}
         /\ \A m \in Machines : NewNodeToken(m) \in Nat \ {0}
<1>1. IsFiniteSet(Managers)
  BY FewValues DEF Managers
<1>2. ASSUME NEW p \in Purposes
      PROVE  NewPair(p) \in Nat \ {0}
  <2> DEFINE f == [a \in Managers |-> run[a].pair[p]]
             g == [m \in Machines |-> data[m].pair[p]]
             A == {secrets.cert[p], secrets.kubeconfig[p], formed.pair[p]}
             B == {f[a] : a \in Managers}
             C == {g[m] : m \in Machines}
  <2>1. IsFiniteSet(A)
    BY FewValues
  <2>2. f = [a \in Managers |-> f[a]] /\ g = [m \in Machines |-> g[m]]
    OBVIOUS
  <2>3. B = {run[a].pair[p] : a \in Managers} /\ C = {data[m].pair[p] : m \in Machines}
    OBVIOUS
  <2>4. NewPair(p) = Least(A \cup B \cup C)
    BY <2>3 DEF NewPair
  <2> HIDE DEF f, g
  <2>5. IsFiniteSet(B)
    BY <1>1, <2>2, FiniteRange
  <2>6. IsFiniteSet(C)
    BY <2>2, FiniteRange
  <2> HIDE DEF A, B, C
  <2>7. IsFiniteSet(A \cup B)
    BY <2>1, <2>5, FS_Union
  <2>8. IsFiniteSet(A \cup B \cup C)
    BY <2>6, <2>7, FS_Union
  <2>9. QED
    BY <2>4, <2>8, UnusedNumber DEF Least
<1>3. NewAuth \in Nat \ {0}
  BY FewValues, UnusedNumber DEF NewAuth, Least
<1>4. ASSUME NEW m \in Machines
      PROVE  NewNodeToken(m) \in Nat \ {0}
  <2> DEFINE f == [a \in Managers |-> seen[a].tok.node[m]]
             A == {secrets.tok.node[m], data[m].node, node[m]}
             B == {f[a] : a \in Managers}
  <2>1. IsFiniteSet(A)
    BY FewValues
  <2>2. f = [a \in Managers |-> f[a]]
    OBVIOUS
  <2>3. B = {seen[a].tok.node[m] : a \in Managers}
    OBVIOUS
  <2>4. NewNodeToken(m) = Least(A \cup B)
    BY <2>3 DEF NewNodeToken
  <2> HIDE DEF f
  <2>5. IsFiniteSet(B)
    BY <1>1, <2>2, FiniteRange
  <2> HIDE DEF A, B
  <2>6. IsFiniteSet(A \cup B)
    BY <2>1, <2>5, FS_Union
  <2>7. QED
    BY <2>4, <2>6, UnusedNumber DEF Least
<1>5. QED
  BY <1>2, <1>3, <1>4

\* Whatever the cache of a manager shows was in the Secrets and is kept there.
LEMMA ViewKept ==
  ASSUME SecretsTypeOK, AuthorityInv, NEW a \in Managers
  PROVE  /\ View(a) \in Secrets
         /\ Kept(View(a), secrets) /\ SignedBy(View(a), secrets)
         /\ NodeTokenInv => NodesKept(View(a), secrets)
BY DEF SecretsTypeOK, AuthorityInv, NodeTokenInv, View, Kept, NodesKept

\* A step that sees to that keeps the invariant.
LEMMA ManagerStep ==
  ASSUME SecretsInv, NEW a \in Managers, Moves(a), HandsOut,
         UNCHANGED <<seen, endpoint, node, formed>>, faults' \in 0..MaxFaults
  PROVE  SecretsInv'
<1>1. PICK r, T : Good(a, r, T) /\ run' = [run EXCEPT ![a] = r] /\ secrets' = T
  BY DEF Moves
<1>2. r \in Runs /\ T \in Secrets /\ secrets \in Secrets /\ Kept(secrets, T)
  BY <1>1 DEF Good, SecretsInv, SecretsTypeOK
<1>3. /\ run'[a] = r
      /\ \A b \in Managers \ {a} : run'[b] = run[b]
      /\ run' \in [Managers -> Runs]
  BY <1>1, <1>2 DEF SecretsInv, SecretsTypeOK
<1>4. SecretsTypeOK'
  BY <1>1, <1>2, <1>3 DEF SecretsInv, SecretsTypeOK, Good, HandsOut
<1>5. AuthorityInv'
  <2>1. \A b \in Managers : seen'[b] = seen[b] /\ seen[b] \in Secrets
    BY DEF SecretsInv, SecretsTypeOK
  <2>2. \A b \in Managers : Kept(seen'[b], T) /\ SignedBy(seen'[b], T)
    BY <1>2, <2>1, KeptReads DEF SecretsInv, AuthorityInv
  <2>3. \A b \in Managers : Holds(run'[b], T)
    <3>1. Holds(r, T)
      BY <1>1 DEF Good
    <3>2. \A b \in Managers : run[b] \in Runs /\ Holds(run[b], secrets)
      BY DEF SecretsInv, SecretsTypeOK, AuthorityInv
    <3>3. QED
      BY <1>2, <1>3, <3>1, <3>2, KeptReads
  <2>4. \A m \in Machines : Initialises(data'[m], T)
    <3>1. \A m \in Machines : data'[m] \in Payloads /\ Initialises(data'[m], secrets)
      BY DEF HandsOut
    <3>2. QED
      BY <1>2, <3>1, KeptReads
  <2>5. Initialises(formed', T)
    <3>1. formed \in Payloads /\ Initialises(formed, secrets)
      BY DEF SecretsInv, SecretsTypeOK, AuthorityInv
    <3>2. QED
      BY <1>2, <3>1, KeptReads
  <2>6. formed' # NoData => formed'.pair # NoPairs
    BY DEF SecretsInv, AuthorityInv
  <2>7. SignedBy(T, T)
    BY <1>1 DEF Good
  <2>8. QED
    BY <1>1, <2>2, <2>3, <2>4, <2>5, <2>6, <2>7 DEF AuthorityInv
<1>6. MachineChosen'
  BY <1>1, <1>3 DEF Good, MachineChosen, SecretsInv, CFG, Managers
<1>7. ASSUME ~TornReads
      PROVE  NodeTokenInv'
  <2>1. NodeTokenInv /\ NodesKept(secrets, T)
    BY <1>1, <1>7 DEF SecretsInv, Good
  <2>2. NodeHeld(run'[CFG], T)
    <3>1. CASE a = CFG
      BY <1>1, <1>3, <1>7, <3>1 DEF Good
    <3>2. CASE a # CFG
      <4>1. run'[CFG] = run[CFG] /\ NodeHeld(run[CFG], secrets)
        BY <1>3, <2>1, <3>2 DEF NodeTokenInv, CFG, Managers
      <4>2. run[CFG].pc # "idle" => run[CFG].m \in Machines
        BY DEF SecretsInv, MachineChosen
      <4>3. QED
        BY <2>1, <4>1, <4>2 DEF NodeHeld, NodesKept
    <3>3. QED
      BY <3>1, <3>2
  <2>3. \A b \in Managers : NodesKept(seen'[b], T)
    BY <2>1 DEF NodeTokenInv, NodesKept
  <2>4. QED
    BY <1>1, <1>7, <2>1, <2>2, <2>3 DEF NodeTokenInv, NodesKept, HandsOut
<1>8. QED
  BY <1>4, <1>5, <1>6, <1>7 DEF SecretsInv

-----------------------------------------------------------------------------
(***************************************************************************)
(* One lemma per call of a manager.                                        *)
(***************************************************************************)
\* What the invariant says of the reconcile in progress.
LEMMA CurrentRun ==
  ASSUME SecretsInv, NEW a \in Managers
  PROVE  /\ run[a] \in Runs /\ Holds(run[a], secrets)
         /\ run[a].pc = "save" <=> run[a].gen # {}
         /\ a = CFG /\ run[a].pc # "idle" => run[a].m \in Machines
         /\ ~TornReads /\ a = CFG => NodeHeld(run[a], secrets)
         /\ secrets \in Secrets /\ SignedBy(secrets, secrets)
BY DEF SecretsInv, SecretsTypeOK, AuthorityInv, MachineChosen, NodeTokenInv

\* A call that writes no Secret.
LEMMA ReadsOnly ==
  ASSUME SecretsInv, NEW a \in Managers, NEW r \in Runs,
         r.pc = "save" <=> r.gen # {}, Holds(r, secrets),
         a = CFG /\ r.pc # "idle" => r.m \in Machines,
         ~TornReads /\ a = CFG => NodeHeld(r, secrets),
         run' = [run EXCEPT ![a] = r], UNCHANGED secrets
  PROVE  Moves(a)
<1>1. Good(a, r, secrets)
  BY CurrentRun DEF Good, Kept, NodesKept
<1>2. QED
  BY <1>1 DEF Moves

\* A reconcile that returns.
LEMMA Returns ==
  ASSUME SecretsInv, NEW a \in Managers, Return(a), UNCHANGED secrets
  PROVE  Moves(a)
<1>1. Holds(Idle, secrets)
  BY EmptyValues DEF Holds, NoPairs
<1>2. NodeHeld(Idle, secrets)
  BY EmptyValues DEF NodeHeld
<1>3. QED
  BY <1>1, <1>2, EmptyValues, ReadsOnly DEF Return, Become

\* Lookup and Generate.
LEMMA LookupMoves ==
  ASSUME SecretsInv, NEW a \in Managers, Lookup(a)
  PROVE  Moves(a)
<1> DEFINE r == run[a]
           v == View(a)
           pair == [r.pair EXCEPT ![r.next] = v.cert[r.next]]
           gen == {p \in Purposes : pair[p] = 0}
           all == [p \in Purposes |-> IF p \in gen THEN NewPair(p) ELSE pair[p]]
           pc == IF gen = {} THEN AfterCertificates(a) ELSE "save"
           r1 == [r EXCEPT !.pair = pair, !.next = "client-ca"]
           r2 == [r EXCEPT !.pair = all, !.gen = gen, !.pc = pc]
<1>1. /\ r \in Runs /\ Holds(r, secrets)
      /\ r.pc = "lookup" /\ r.gen = {} /\ UNCHANGED secrets
      /\ a = CFG => r.m \in Machines
  BY CurrentRun DEF Lookup, Call
<1>2. v \in Secrets /\ Kept(v, secrets)
  BY ViewKept DEF SecretsInv
<1>3. /\ r.pair \in KeyPairs /\ v.cert \in KeyPairs /\ r.next \in Purposes
      /\ r.auth \in Nat
  BY <1>1, <1>2, FieldTypes
<1>4. /\ pair \in KeyPairs
      /\ \A p \in Purposes : pair[p] # 0 => pair[p] = secrets.cert[p]
  BY <1>1, <1>2, <1>3 DEF KeyPairs, Holds, Kept
<1>5. /\ all \in KeyPairs /\ Complete(all) /\ gen \in SUBSET Purposes
      /\ \A p \in Purposes \ gen : all[p] = secrets.cert[p]
  BY <1>4, Generated DEF KeyPairs, Complete, SecretsInv
<1>6. pc \in Steps /\ pc \in {"token", "auth", "save"} /\ (pc = "save" <=> gen # {})
  BY DEF AfterCertificates, Steps
<1>7. /\ r.next = "ca" => run' = [run EXCEPT ![a] = r1]
      /\ r.next # "ca" => run' = [run EXCEPT ![a] = r2]
  BY DEF Lookup, Become
<1> HIDE DEF r, v, gen, all, pc
<1>8. CASE r.next = "ca"
  <2> HIDE DEF pair
  <2>1. /\ r1 \in Runs /\ r1.pc = "lookup" /\ r1.pair = pair /\ r1.m = r.m
        /\ r1.gen = {} /\ r1.auth = r.auth
    BY <1>1, <1>4 DEF Runs, Purposes
  <2> HIDE DEF r1
  <2>2. Holds(r1, secrets)
    BY <1>1, <1>4, <2>1 DEF Holds
  <2>3. NodeHeld(r1, secrets)
    BY <2>1 DEF NodeHeld
  <2>4. QED
    BY <1>1, <1>7, <1>8, <2>1, <2>2, <2>3, ReadsOnly
<1>9. CASE r.next # "ca"
  <2> HIDE DEF pair, r1
  <2>1. /\ r2 \in Runs /\ r2.pc = pc /\ r2.pair = all /\ r2.m = r.m
        /\ r2.gen = gen /\ r2.auth = r.auth
    BY <1>1, <1>5, <1>6 DEF Runs
  <2> HIDE DEF r2
  <2>2. Holds(r2, secrets)
    BY <1>1, <1>5, <1>6, <2>1 DEF Holds
  <2>3. NodeHeld(r2, secrets)
    BY <1>6, <2>1 DEF NodeHeld
  <2>4. QED
    BY <1>1, <1>6, <1>7, <1>9, <2>1, <2>2, <2>3, ReadsOnly
<1>10. QED
  BY <1>8, <1>9

\* SaveGenerated: only a missing authority is written, by what was generated.
LEMMA SaveGeneratedMoves ==
  ASSUME SecretsInv, NEW a \in Managers, SaveGenerated(a)
  PROVE  Moves(a)
<1> DEFINE r == run[a]
           p == IF "ca" \in r.gen THEN "ca" ELSE "client-ca"
           left == r.gen \ {p}
           pc == IF left = {} THEN AfterCertificates(a) ELSE "save"
           n == [r EXCEPT !.gen = left, !.pc = pc]
           T == [secrets EXCEPT !.cert[p] = r.pair[p]]
<1>1. /\ r \in Runs /\ Holds(r, secrets) /\ r.pc = "save" /\ r.gen # {}
      /\ a = CFG => r.m \in Machines
      /\ secrets \in Secrets /\ SignedBy(secrets, secrets)
  BY CurrentRun DEF SaveGenerated, Call
<1>2. /\ r.gen \in SUBSET Purposes /\ r.pair \in KeyPairs /\ r.auth \in Nat
      /\ secrets.cert \in KeyPairs /\ secrets.kubeconfig \in KeyPairs
  BY <1>1, FieldTypes
<1>3. p \in r.gen /\ p \in Purposes /\ left \in SUBSET Purposes /\ r.pair[p] \in Nat \ {0}
  BY <1>1, <1>2 DEF Purposes, KeyPairs, Holds, Complete
<1>4. /\ secrets.cert[p] # 0 => Return(a) /\ UNCHANGED secrets
      /\ secrets.cert[p] = 0 => run' = [run EXCEPT ![a] = n] /\ secrets' = T
  BY DEF SaveGenerated, Become, Store
<1>5. pc \in Steps /\ pc \in {"token", "auth", "save"} /\ (pc = "save" <=> left # {})
  BY DEF AfterCertificates, Steps
<1> HIDE DEF r, pc
<1>6. CASE secrets.cert[p] = 0
  <2> HIDE DEF p, left
  <2>1. /\ n \in Runs /\ n.pc = pc /\ n.gen = left
        /\ n.m = r.m /\ n.pair = r.pair /\ n.auth = r.auth /\ n.node = r.node
    BY <1>1, <1>3, <1>5 DEF Runs
  <2>2. /\ T \in Secrets /\ T.cert = [secrets.cert EXCEPT ![p] = r.pair[p]]
        /\ T.tok = secrets.tok /\ T.kubeconfig = secrets.kubeconfig
    BY <1>1, <1>3 DEF Secrets, KeyPairs
  <2> HIDE DEF n, T
  <2>3. Kept(secrets, T)
    BY <1>2, <1>6, <2>2 DEF Kept, KeyPairs
  <2>4. SignedBy(T, T)
    BY <1>1, <1>2, <1>3, <1>6, <2>2 DEF SignedBy, Complete
  <2>5. Holds(n, T)
    BY <1>1, <1>2, <1>3, <1>5, <2>1, <2>2 DEF Holds, KeyPairs, left
  <2>6. NodeHeld(n, T) /\ NodesKept(secrets, T)
    BY <1>5, <2>1, <2>2 DEF NodeHeld, NodesKept
  <2>7. Good(a, n, T)
    BY <1>1, <1>5, <2>1, <2>2, <2>3, <2>4, <2>5, <2>6 DEF Good
  <2>8. QED
    BY <1>4, <1>6, <2>7 DEF Moves
<1>7. CASE secrets.cert[p] # 0
  BY <1>4, <1>7, Returns
<1>8. QED
  BY <1>6, <1>7

\* The reconcile of the CK8sControlPlane starts with the authorities.
LEMMA StartControlPlaneMoves ==
  ASSUME SecretsInv, StartControlPlane
  PROVE  Moves(KCP)
<1> DEFINE r == run[KCP]
           n == [r EXCEPT !.pc = "lookup"]
<1>1. KCP \in Managers /\ KCP # CFG
  BY DEF KCP, CFG, Managers
<1>2. r \in Runs /\ Holds(r, secrets) /\ r.gen = {} /\ r.pc = "idle"
  BY <1>1, CurrentRun DEF StartControlPlane, Call
<1>3. run' = [run EXCEPT ![KCP] = n] /\ UNCHANGED secrets
  BY DEF StartControlPlane, GoTo, Become
<1> HIDE DEF r
<1>4. /\ n \in Runs /\ n.pc = "lookup" /\ n.pair = r.pair /\ n.gen = r.gen
      /\ n.m = r.m /\ n.auth = r.auth
  BY <1>2 DEF Runs, Steps
<1> HIDE DEF n
<1>5. Holds(n, secrets)
  BY <1>2, <1>4 DEF Holds
<1>6. QED
  BY <1>1, <1>2, <1>3, <1>4, <1>5, ReadsOnly

\* token.Reconcile.
LEMMA ReconcileTokenMoves ==
  ASSUME SecretsInv, ReconcileToken
  PROVE  Moves(KCP)
<1> DEFINE r == run[KCP]
           t == View(KCP).tok
           pc == CASE t.value = 0                  -> "createToken"
                   [] t.owner = "CK8sControlPlane" -> "kubeconfig"
                   [] OTHER                        -> "ownToken"
           n == [r EXCEPT !.tok = t, !.pc = pc]
<1>1. KCP \in Managers /\ KCP # CFG
  BY DEF KCP, CFG, Managers
<1>2. r \in Runs /\ Holds(r, secrets) /\ r.gen = {} /\ r.pc = "token"
  BY <1>1, CurrentRun DEF ReconcileToken, Call
<1>3. run' = [run EXCEPT ![KCP] = n] /\ UNCHANGED secrets
  BY DEF ReconcileToken, Become
<1>4. t \in Tokens
  BY <1>1, ViewKept, FieldTypes DEF SecretsInv
<1>5. pc \in {"createToken", "kubeconfig", "ownToken"} /\ pc \in Steps
  BY DEF Steps
<1> HIDE DEF r, t, pc
<1>6. /\ n \in Runs /\ n.pc = pc /\ n.pair = r.pair /\ n.gen = r.gen
      /\ n.m = r.m /\ n.auth = r.auth
  BY <1>2, <1>4, <1>5 DEF Runs
<1> HIDE DEF n
<1>7. Holds(n, secrets)
  BY <1>2, <1>5, <1>6 DEF Holds
<1>8. QED
  BY <1>1, <1>2, <1>3, <1>5, <1>6, <1>7, ReadsOnly

\* A call of the control plane manager that writes T and moves on to the kubeconfig.
LEMMA TokenWritten ==
  ASSUME SecretsInv, NEW T \in Secrets, run[KCP].pc \in {"createToken", "ownToken"},
         T.cert = secrets.cert, T.kubeconfig = secrets.kubeconfig,
         secrets.tok.value # 0 => T.tok.value = secrets.tok.value,
         T.tok.node = secrets.tok.node,
         secrets' = T, GoTo(KCP, "kubeconfig")
  PROVE  Moves(KCP)
<1> DEFINE r == run[KCP]
           n == [r EXCEPT !.pc = "kubeconfig"]
<1>1. KCP \in Managers /\ KCP # CFG
  BY DEF KCP, CFG, Managers
<1>2. /\ r \in Runs /\ Holds(r, secrets) /\ r.gen = {} /\ r.pc \in {"createToken", "ownToken"}
      /\ secrets \in Secrets /\ SignedBy(secrets, secrets)
  BY <1>1, CurrentRun
<1>3. run' = [run EXCEPT ![KCP] = n]
  BY DEF GoTo, Become
<1>4. Kept(secrets, T) /\ SignedBy(T, T) /\ NodesKept(secrets, T)
  BY <1>2 DEF Kept, SignedBy, NodesKept
<1>5. Holds(r, T)
  BY <1>2, <1>4, KeptReads
<1> HIDE DEF r
<1>6. /\ n \in Runs /\ n.pc = "kubeconfig" /\ n.pair = r.pair /\ n.gen = r.gen
      /\ n.m = r.m /\ n.auth = r.auth
  BY <1>2 DEF Runs, Steps
<1> HIDE DEF n
<1>7. Holds(n, T)
  BY <1>2, <1>5, <1>6 DEF Holds
<1>8. Good(KCP, n, T)
  BY <1>1, <1>2, <1>4, <1>6, <1>7 DEF Good
<1>9. QED
  BY <1>3, <1>8 DEF Moves

\* generateAndStore: the Create fails when the Secret exists.
LEMMA CreateTokenMoves ==
  ASSUME SecretsInv, CreateToken
  PROVE  Moves(KCP)
<1> DEFINE T == [secrets EXCEPT !.tok.value = NewAuth, !.tok.owner = "CK8sControlPlane"]
<1>1. KCP \in Managers /\ secrets \in Secrets /\ run[KCP].pc = "createToken"
  BY DEF KCP, Managers, SecretsInv, SecretsTypeOK, CreateToken, Call
<1>2. CASE secrets.tok.value # 0
  BY <1>1, <1>2, Returns DEF CreateToken
<1>3. CASE secrets.tok.value = 0
  <2>1. secrets' = T /\ GoTo(KCP, "kubeconfig")
    BY <1>3 DEF CreateToken, Store
  <2>2. NewAuth \in Nat
    BY Generated DEF SecretsInv
  <2>3. /\ T \in Secrets /\ T.cert = secrets.cert /\ T.kubeconfig = secrets.kubeconfig
        /\ T.tok.node = secrets.tok.node
    BY <1>1, <2>2 DEF Secrets, Tokens
  <2> HIDE DEF T
  <2>4. QED
    BY <1>1, <1>3, <2>1, <2>3, TokenWritten
<1>4. QED
  BY <1>2, <1>3

\* OwnToken: the Update fails unless the Secret is the one that was read.
LEMMA OwnTokenMoves ==
  ASSUME SecretsInv, OwnToken
  PROVE  Moves(KCP)
<1> DEFINE T == [secrets EXCEPT !.tok = [secrets.tok EXCEPT !.owner = "CK8sControlPlane"]]
<1>1. KCP \in Managers /\ secrets \in Secrets /\ run[KCP].pc = "ownToken"
  BY DEF KCP, Managers, SecretsInv, SecretsTypeOK, OwnToken, Call
<1>2. CASE secrets.tok # run[KCP].tok
  BY <1>1, <1>2, Returns DEF OwnToken
<1>3. CASE secrets.tok = run[KCP].tok
  <2>1. secrets' = T /\ GoTo(KCP, "kubeconfig")
    BY <1>3 DEF OwnToken, Store
  <2>2. /\ T \in Secrets /\ T.cert = secrets.cert /\ T.kubeconfig = secrets.kubeconfig
        /\ T.tok.value = secrets.tok.value /\ T.tok.node = secrets.tok.node
    BY <1>1 DEF Secrets, Tokens
  <2> HIDE DEF T
  <2>3. QED
    BY <1>1, <2>1, <2>2, TokenWritten
<1>4. QED
  BY <1>2, <1>3

\* reconcileKubeconfig and generateKubeconfig.
LEMMA ReconcileKubeconfigMoves ==
  ASSUME SecretsInv, ReconcileKubeconfig
  PROVE  Moves(KCP)
<1> DEFINE r == run[KCP]
           new == generateKubeconfig(View(KCP))
           n == [r EXCEPT !.pair = new, !.pc = "createKubeconfig"]
<1>1. KCP \in Managers /\ KCP # CFG
  BY DEF KCP, CFG, Managers
<1>2. /\ r \in Runs /\ Holds(r, secrets) /\ r.gen = {} /\ r.pc = "kubeconfig"
      /\ UNCHANGED secrets /\ secrets \in Secrets
  BY <1>1, CurrentRun DEF ReconcileKubeconfig, Call
<1>3. CASE new = NoPairs \/ Return(KCP)
  BY <1>1, <1>2, <1>3, Returns DEF ReconcileKubeconfig
<1>4. CASE new # NoPairs /\ ~Return(KCP)
  <2>1. run' = [run EXCEPT ![KCP] = n]
    BY <1>4 DEF ReconcileKubeconfig, Become
  <2>2. View(KCP) \in Secrets /\ Kept(View(KCP), secrets)
    BY <1>1, ViewKept DEF SecretsInv
  <2>3. new \in KeyPairs /\ Complete(new) /\ new = secrets.cert
    <3>1. new = View(KCP).cert /\ Complete(View(KCP).cert)
      BY <1>4 DEF generateKubeconfig
    <3>2. View(KCP).cert \in KeyPairs /\ secrets.cert \in KeyPairs
      BY <1>2, <2>2, FieldTypes
    <3>3. QED
      BY <2>2, <3>1, <3>2, CompleteKept DEF Kept
  <2> HIDE DEF r, new
  <2>4. /\ n \in Runs /\ n.pc = "createKubeconfig" /\ n.pair = new /\ n.gen = r.gen
        /\ n.m = r.m /\ n.auth = r.auth
    BY <1>2, <2>3 DEF Runs, Steps
  <2> HIDE DEF n
  <2>5. Holds(n, secrets)
    BY <1>2, <2>3, <2>4 DEF Holds
  <2>6. QED
    BY <1>1, <1>2, <2>1, <2>4, <2>5, ReadsOnly
<1>5. QED
  BY <1>3, <1>4

\* The Create of the kubeconfig.
LEMMA CreateKubeconfigMoves ==
  ASSUME SecretsInv, CreateKubeconfig
  PROVE  Moves(KCP)
<1> DEFINE r == run[KCP]
           k == IF secrets.kubeconfig = NoPairs THEN r.pair ELSE secrets.kubeconfig
           T == [secrets EXCEPT !.kubeconfig = k]
<1>1. KCP \in Managers /\ KCP # CFG
  BY DEF KCP, CFG, Managers
<1>2. /\ r \in Runs /\ Holds(r, secrets) /\ r.gen = {} /\ r.pc = "createKubeconfig"
      /\ secrets \in Secrets /\ SignedBy(secrets, secrets)
  BY <1>1, CurrentRun DEF CreateKubeconfig, Call
<1>3. r.pair \in KeyPairs /\ secrets.kubeconfig \in KeyPairs /\ secrets.cert \in KeyPairs
  BY <1>2, FieldTypes
<1>4. Complete(r.pair) /\ r.pair = secrets.cert
  <2>1. Complete(r.pair) /\ \A p \in Purposes : r.pair[p] # 0 => secrets.cert[p] = r.pair[p]
    BY <1>2 DEF Holds
  <2>2. QED
    BY <1>3, <2>1, CompleteKept
<1>5. secrets' = T /\ run' = [run EXCEPT ![KCP] = Idle]
  BY <1>2 DEF CreateKubeconfig, Store, Return, Become, Secrets
<1>6. k \in KeyPairs /\ (k # NoPairs => Complete(secrets.cert) /\ k = secrets.cert)
  BY <1>2, <1>3, <1>4 DEF SignedBy
<1> HIDE DEF r, k
<1>7. /\ T \in Secrets /\ T.cert = secrets.cert /\ T.tok = secrets.tok /\ T.kubeconfig = k
  BY <1>2, <1>6 DEF Secrets
<1> HIDE DEF T
<1>8. Kept(secrets, T) /\ SignedBy(T, T) /\ NodesKept(secrets, T)
  BY <1>6, <1>7 DEF Kept, SignedBy, NodesKept
<1>9. Holds(Idle, T)
  BY EmptyValues DEF Holds, NoPairs
<1>10. Good(KCP, Idle, T)
  BY <1>1, <1>7, <1>8, <1>9, EmptyValues DEF Good
<1>11. QED
  BY <1>5, <1>10 DEF Moves

\* The reconcile of a CK8sConfig starts.
LEMMA StartBootstrapMoves ==
  ASSUME SecretsInv, NEW m \in Machines, StartBootstrap(m)
  PROVE  Moves(CFG)
<1> DEFINE r == run[CFG]
           pc == CASE formed = NoData                  -> "lookup"
                   [] formed # NoData /\ m \in Workers -> "auth"
                   [] OTHER                            -> "ensure"
           n == [r EXCEPT !.m = m, !.pc = pc]
<1>1. CFG \in Managers
  BY DEF CFG, Managers
<1>2. r \in Runs /\ Holds(r, secrets) /\ r.gen = {} /\ r.pc = "idle"
  BY <1>1, CurrentRun DEF StartBootstrap, Call
<1>3. run' = [run EXCEPT ![CFG] = n] /\ UNCHANGED secrets
  BY DEF StartBootstrap, Become
<1>4. pc \in Steps /\ pc \in {"lookup", "auth", "ensure"}
  BY DEF Steps
<1> HIDE DEF r, pc
<1>5. /\ n \in Runs /\ n.pc = pc /\ n.pair = r.pair /\ n.gen = r.gen
      /\ n.m = m /\ n.auth = r.auth
  BY <1>2, <1>4 DEF Runs
<1> HIDE DEF n
<1>6. Holds(n, secrets) /\ NodeHeld(n, secrets)
  BY <1>2, <1>4, <1>5 DEF Holds, NodeHeld
<1>7. QED
  BY <1>1, <1>2, <1>3, <1>4, <1>5, <1>6, ReadsOnly

\* token.Lookup.
LEMMA LookupTokenMoves ==
  ASSUME SecretsInv, LookupToken
  PROVE  Moves(CFG)
<1> DEFINE r == run[CFG]
           v == View(CFG).tok.value
           n == [r EXCEPT !.auth = v, !.pc = "ensure"]
<1>1. CFG \in Managers
  BY DEF CFG, Managers
<1>2. /\ r \in Runs /\ Holds(r, secrets) /\ r.gen = {} /\ r.pc = "auth"
      /\ r.m \in Machines /\ UNCHANGED secrets
  BY <1>1, CurrentRun DEF LookupToken, Call
<1>3. v \in Nat /\ (v # 0 => v = secrets.tok.value)
  BY <1>1, ViewKept, FieldTypes DEF SecretsInv, Kept
<1>4. IF v = 0 THEN Return(CFG) ELSE run' = [run EXCEPT ![CFG] = n]
  BY DEF LookupToken, Become
<1> HIDE DEF r, v
<1>5. CASE v = 0
  BY <1>1, <1>2, <1>4, <1>5, Returns
<1>6. CASE v # 0
  <2>1. /\ n \in Runs /\ n.pc = "ensure" /\ n.pair = r.pair /\ n.gen = r.gen
        /\ n.m = r.m /\ n.auth = v
    BY <1>2, <1>3 DEF Runs, Steps
  <2> HIDE DEF n
  <2>2. Holds(n, secrets) /\ NodeHeld(n, secrets)
    BY <1>2, <1>3, <1>6, <2>1 DEF Holds, NodeHeld
  <2>3. QED
    BY <1>1, <1>2, <1>4, <1>6, <2>1, <2>2, ReadsOnly
<1>7. QED
  BY <1>5, <1>6

\* The first read of EnsureNodeToken.
LEMMA EnsureNodeTokenMoves ==
  ASSUME SecretsInv, EnsureNodeToken
  PROVE  Moves(CFG)
<1> DEFINE r == run[CFG]
           t == View(CFG).tok
           v == t.node[r.m]
           n1 == [r EXCEPT !.node = v, !.pc = AfterNodeToken]
           n2 == [r EXCEPT !.tok = t, !.pc = "newToken"]
<1>1. CFG \in Managers
  BY DEF CFG, Managers
<1>2. /\ r \in Runs /\ Holds(r, secrets) /\ r.gen = {} /\ r.pc = "ensure"
      /\ r.m \in Machines /\ UNCHANGED secrets
  BY <1>1, CurrentRun DEF EnsureNodeToken, Call
<1>3. t \in Tokens /\ t.node \in [Machines -> Nat] /\ v \in Nat
  BY <1>1, <1>2, ViewKept, FieldTypes DEF SecretsInv
<1>4. ~TornReads /\ v # 0 => v = secrets.tok.node[r.m]
  BY <1>1, <1>2, ViewKept DEF SecretsInv, NodesKept
<1>5. IF v # 0 THEN run' = [run EXCEPT ![CFG] = n1] ELSE run' = [run EXCEPT ![CFG] = n2]
  BY DEF EnsureNodeToken, Become
<1>6. AfterNodeToken \in {"store", "workload"}
  BY DEF AfterNodeToken
<1>7. v = t.node[r.m]
  OBVIOUS
<1> HIDE DEF r, t, v
<1>8. CASE v # 0
  <2>1. /\ n1 \in Runs /\ n1.pc = AfterNodeToken /\ n1.pair = r.pair /\ n1.gen = r.gen
        /\ n1.m = r.m /\ n1.auth = r.auth /\ n1.node = v
    BY <1>2, <1>3, <1>6 DEF Runs, Steps
  <2> HIDE DEF n1, n2
  <2>2. Holds(n1, secrets)
    BY <1>2, <1>6, <2>1 DEF Holds
  <2>3. ~TornReads => NodeHeld(n1, secrets)
    BY <1>4, <1>6, <1>8, <2>1 DEF NodeHeld
  <2>4. QED
    BY <1>1, <1>2, <1>5, <1>6, <1>8, <2>1, <2>2, <2>3, ReadsOnly
<1>9. CASE v = 0
  <2>1. /\ n2 \in Runs /\ n2.pc = "newToken" /\ n2.pair = r.pair /\ n2.gen = r.gen
        /\ n2.m = r.m /\ n2.auth = r.auth /\ n2.tok = t
    BY <1>2, <1>3 DEF Runs, Steps
  <2> HIDE DEF n1, n2
  <2>2. Holds(n2, secrets) /\ NodeHeld(n2, secrets)
    BY <1>2, <1>7, <1>9, <2>1 DEF Holds, NodeHeld
  <2>3. QED
    BY <1>1, <1>2, <1>5, <1>9, <2>1, <2>2, ReadsOnly
<1>10. QED
  BY <1>8, <1>9

\* The second read of EnsureNodeToken; without torn reads it shows what the first
\* one did, a Secret without a token of the machine.
LEMMA GenerateNodeTokenMoves ==
  ASSUME SecretsInv, GenerateNodeToken
  PROVE  Moves(CFG)
<1> DEFINE r == run[CFG]
           t == IF TornReads THEN View(CFG).tok ELSE r.tok
           v == NewNodeToken(r.m)
           n == [r EXCEPT !.tok = t, !.node = v, !.pc = "patchToken"]
<1>1. CFG \in Managers
  BY DEF CFG, Managers
<1>2. /\ r \in Runs /\ Holds(r, secrets) /\ r.gen = {} /\ r.pc = "newToken"
      /\ r.m \in Machines /\ UNCHANGED secrets
      /\ ~TornReads => NodeHeld(r, secrets)
  BY <1>1, CurrentRun DEF GenerateNodeToken, Call
<1>3. t \in Tokens /\ v \in Nat \ {0}
  BY <1>1, <1>2, ViewKept, FieldTypes, Generated DEF SecretsInv
<1>4. ~TornReads => t.node[r.m] = 0
  BY <1>2 DEF NodeHeld
<1>5. IF t.value = 0 THEN Return(CFG) ELSE run' = [run EXCEPT ![CFG] = n]
  BY DEF GenerateNodeToken, Become
<1> HIDE DEF r, t, v
<1>6. CASE t.value = 0
  BY <1>1, <1>2, <1>5, <1>6, Returns
<1>7. CASE t.value # 0
  <2>1. /\ n \in Runs /\ n.pc = "patchToken" /\ n.pair = r.pair /\ n.gen = r.gen
        /\ n.m = r.m /\ n.auth = r.auth /\ n.tok = t /\ n.node = v
    BY <1>2, <1>3 DEF Runs, Steps
  <2> HIDE DEF n
  <2>2. Holds(n, secrets)
    BY <1>2, <2>1 DEF Holds
  <2>3. ~TornReads => NodeHeld(n, secrets)
    BY <1>3, <1>4, <2>1 DEF NodeHeld
  <2>4. QED
    BY <1>1, <1>2, <1>5, <1>7, <2>1, <2>2, <2>3, ReadsOnly
<1>8. QED
  BY <1>6, <1>7

\* The Patch of EnsureNodeToken fails unless the Secret is the one that was read.
LEMMA PatchNodeTokenMoves ==
  ASSUME SecretsInv, PatchNodeToken
  PROVE  Moves(CFG)
<1> DEFINE r == run[CFG]
           m == r.m
           v == r.node
           T == [secrets EXCEPT !.tok.node[m] = v]
           n == [r EXCEPT !.pc = AfterNodeToken]
<1>1. CFG \in Managers
  BY DEF CFG, Managers
<1>2. /\ r \in Runs /\ Holds(r, secrets) /\ r.gen = {} /\ r.pc = "patchToken"
      /\ m = r.m /\ v = r.node /\ m \in Machines /\ v \in Nat
      /\ ~TornReads => NodeHeld(r, secrets)
      /\ secrets \in Secrets /\ SignedBy(secrets, secrets)
  BY <1>1, CurrentRun, FieldTypes DEF PatchNodeToken, Call
<1>3. AfterNodeToken \in {"store", "workload"}
  BY DEF AfterNodeToken
<1>4. IF secrets.tok # r.tok
      THEN Return(CFG) /\ UNCHANGED secrets
      ELSE run' = [run EXCEPT ![CFG] = n] /\ secrets' = T
  BY DEF PatchNodeToken, Store, GoTo, Become
<1>5. secrets.tok.node \in [Machines -> Nat]
  BY <1>2, FieldTypes
<1> HIDE DEF r, m, v
<1>6. CASE secrets.tok # r.tok
  BY <1>1, <1>4, <1>6, Returns
<1>7. CASE secrets.tok = r.tok
  <2>1. /\ T \in Secrets /\ T.cert = secrets.cert /\ T.kubeconfig = secrets.kubeconfig
        /\ T.tok.value = secrets.tok.value
        /\ T.tok.node = [secrets.tok.node EXCEPT ![m] = v]
    BY <1>2 DEF Secrets, Tokens
  <2>2. /\ n \in Runs /\ n.pc = AfterNodeToken /\ n.pair = r.pair /\ n.gen = r.gen
        /\ n.m = r.m /\ n.auth = r.auth /\ n.node = r.node
    BY <1>2, <1>3 DEF Runs, Steps
  <2> HIDE DEF n, T
  <2>3. Kept(secrets, T) /\ SignedBy(T, T)
    BY <1>2, <2>1 DEF Kept, SignedBy
  <2>4. Holds(n, T)
    BY <1>2, <1>3, <2>1, <2>2 DEF Holds
  <2>5. ~TornReads => NodesKept(secrets, T) /\ NodeHeld(n, T)
    BY <1>2, <1>3, <1>5, <1>7, <2>1, <2>2 DEF NodesKept, NodeHeld
  <2>6. Good(CFG, n, T)
    BY <1>2, <1>3, <2>1, <2>2, <2>3, <2>4, <2>5 DEF Good
  <2>7. QED
    BY <1>4, <1>7, <2>6 DEF Moves
<1>8. QED
  BY <1>6, <1>7

\* A reconcile that goes on to store the data, or to patch the status, with what
\* it holds (RequestJoinToken, StoreBootstrapData).
LEMMA Proceeds ==
  ASSUME SecretsInv, run[CFG].pc \in {"workload", "store"}, NEW pc \in {"store", "status"},
         GoTo(CFG, pc), UNCHANGED secrets
  PROVE  Moves(CFG)
<1> DEFINE r == run[CFG]
           n == [r EXCEPT !.pc = pc]
<1>1. CFG \in Managers
  BY DEF CFG, Managers
<1>2. /\ r \in Runs /\ Holds(r, secrets) /\ r.gen = {} /\ r.pc \in {"workload", "store"}
      /\ r.m \in Machines
      /\ ~TornReads => NodeHeld(r, secrets)
  BY <1>1, CurrentRun
<1>3. run' = [run EXCEPT ![CFG] = n]
  BY DEF GoTo, Become
<1> HIDE DEF r
<1>4. /\ n \in Runs /\ n.pc = pc /\ n.pair = r.pair /\ n.gen = r.gen
      /\ n.m = r.m /\ n.auth = r.auth /\ n.node = r.node
  BY <1>2 DEF Runs, Steps
<1> HIDE DEF n
<1>5. Holds(n, secrets) /\ (~TornReads => NodeHeld(n, secrets))
  BY <1>2, <1>4 DEF Holds, NodeHeld
<1>6. QED
  BY <1>1, <1>2, <1>3, <1>4, <1>5, ReadsOnly

\* A step that leaves the bootstrap data alone.
LEMMA SameData ==
  ASSUME SecretsInv, UNCHANGED data, ready' \in [Machines -> BOOLEAN]
  PROVE  HandsOut
BY DEF SecretsInv, SecretsTypeOK, AuthorityInv, NodeTokenInv, HandsOut

\* storeBootstrapData writes what the reconcile holds.
LEMMA StoreBootstrapDataKeeps ==
  ASSUME SecretsInv, StoreBootstrapData
  PROVE  SecretsInv'
<1> DEFINE r == run[CFG]
           d == [pair |-> r.pair, auth |-> r.auth, node |-> r.node]
<1>1. CFG \in Managers
  BY DEF CFG, Managers
<1>2. /\ r \in Runs /\ Holds(r, secrets) /\ r.gen = {} /\ r.pc = "store"
      /\ r.m \in Machines /\ secrets \in Secrets
      /\ ~TornReads => NodeHeld(r, secrets)
  BY <1>1, CurrentRun DEF StoreBootstrapData
<1>3. Moves(CFG)
  BY Proceeds DEF StoreBootstrapData
<1>4. r.pair \in KeyPairs /\ r.auth \in Nat /\ r.node \in Nat /\ secrets.cert \in KeyPairs
  BY <1>2, FieldTypes
<1>5. r.pair # NoPairs => /\ Complete(r.pair) /\ secrets.cert = r.pair
                          /\ r.auth # 0 /\ r.auth = secrets.tok.value
  BY <1>2, <1>4, CompleteKept DEF Holds
<1>6. ~TornReads => r.node = secrets.tok.node[r.m]
  BY <1>2 DEF NodeHeld
<1>7. data' = [data EXCEPT ![r.m] = d] /\ UNCHANGED <<seen, endpoint, ready, node, formed, faults>>
  BY DEF StoreBootstrapData
<1> HIDE DEF r
<1>8. d \in Payloads /\ Initialises(d, secrets)
  BY <1>4, <1>5 DEF Payloads, Initialises
<1>9. d.node = r.node
  OBVIOUS
<1> HIDE DEF d
<1>10. HandsOut
  BY <1>2, <1>6, <1>7, <1>8, <1>9
     DEF HandsOut, SecretsInv, SecretsTypeOK, AuthorityInv, NodeTokenInv
<1>11. faults' \in 0..MaxFaults
  BY <1>7 DEF SecretsInv, SecretsTypeOK
<1>12. QED
  BY <1>1, <1>3, <1>7, <1>10, <1>11, ManagerStep

\* A machine boots with the data it was handed; the initial one forms the cluster.
LEMMA BootKeeps ==
  ASSUME SecretsInv, NEW m \in Machines, Boot(m)
  PROVE  SecretsInv'
<1>1. UNCHANGED <<secrets, seen, endpoint, data, ready, run, faults>>
  BY DEF Boot
<1>2. /\ node' = [node EXCEPT ![m] = data[m].node]
      /\ formed' = IF data[m].pair # NoPairs THEN data[m] ELSE formed
      /\ data[m] \in Payloads /\ data[m].node \in Nat
  BY FieldTypes DEF Boot, SecretsInv, SecretsTypeOK
<1>3. SecretsTypeOK'
  BY <1>1, <1>2 DEF SecretsInv, SecretsTypeOK
<1>4. AuthorityInv'
  BY <1>1, <1>2 DEF SecretsInv, AuthorityInv
<1>5. MachineChosen'
  BY <1>1 DEF SecretsInv, MachineChosen
<1>6. ~TornReads => NodeTokenInv'
  BY <1>1, <1>2 DEF SecretsInv, SecretsTypeOK, NodeTokenInv
<1>7. QED
  BY <1>3, <1>4, <1>5, <1>6 DEF SecretsInv

\* A cache catches up.
LEMMA SyncSecretsKeeps ==
  ASSUME SecretsInv, NEW a \in Managers, SyncSecrets(a)
  PROVE  SecretsInv'
<1>1. UNCHANGED <<secrets, endpoint, data, ready, node, formed, run, faults>>
  BY DEF SyncSecrets, worldVars
<1>2. seen' = [seen EXCEPT ![a] = secrets] /\ secrets \in Secrets
  BY DEF SyncSecrets, SecretsInv, SecretsTypeOK
<1>3. SecretsTypeOK'
  BY <1>1, <1>2 DEF SecretsInv, SecretsTypeOK
<1>4. Kept(secrets, secrets) /\ NodesKept(secrets, secrets)
  BY DEF Kept, NodesKept
<1>5. AuthorityInv'
  BY <1>1, <1>2, <1>4 DEF SecretsInv, SecretsTypeOK, AuthorityInv
<1>6. MachineChosen'
  BY <1>1 DEF SecretsInv, MachineChosen
<1>7. ~TornReads => NodeTokenInv'
  BY <1>1, <1>2, <1>4 DEF SecretsInv, SecretsTypeOK, NodeTokenInv
<1>8. QED
  BY <1>3, <1>5, <1>6, <1>7 DEF SecretsInv

\* No step of the two managers, the nodes or the infrastructure breaks it.
LEMMA SecretsStep ==
  ASSUME SecretsInv, SecretsNext
  PROVE  SecretsInv'
<1>1. KCP \in Managers /\ CFG \in Managers /\ faults \in 0..MaxFaults
      /\ ready \in [Machines -> BOOLEAN]
  BY DEF KCP, CFG, Managers, SecretsInv, SecretsTypeOK
<1>2. ASSUME NEW a \in Managers, Moves(a), UNCHANGED <<seen, worldVars>>,
             faults' \in 0..MaxFaults
      PROVE  SecretsInv'
  BY <1>1, <1>2, SameData, ManagerStep DEF worldVars
<1>3. CASE ControlPlaneStep
  <2>1. UNCHANGED <<seen, worldVars, faults>>
    BY <1>3 DEF ControlPlaneStep, StartControlPlane, Lookup, SaveGenerated, ReconcileToken,
                CreateToken, OwnToken, ReconcileKubeconfig, CreateKubeconfig, Call
  <2>2. Moves(KCP)
    BY <1>1, <1>3, StartControlPlaneMoves, LookupMoves, SaveGeneratedMoves,
       ReconcileTokenMoves, CreateTokenMoves, OwnTokenMoves, ReconcileKubeconfigMoves,
       CreateKubeconfigMoves DEF ControlPlaneStep
  <2>3. QED
    BY <1>1, <1>2, <2>1, <2>2
<1>4. CASE RequestJoinToken
  <2>1. Moves(CFG)
    BY <1>1, <1>4, Proceeds, Returns DEF RequestJoinToken, Call
  <2>2. QED
    BY <1>1, <1>2, <1>4, <2>1 DEF RequestJoinToken, Call
<1>5. CASE PatchConfigStatus
  <2>1. Moves(CFG)
    BY <1>1, <1>5, Returns DEF PatchConfigStatus
  <2>2. ready' \in [Machines -> BOOLEAN]
    BY <1>1, <1>5 DEF PatchConfigStatus
  <2>3. HandsOut
    BY <1>5, <2>2, SameData DEF PatchConfigStatus
  <2>4. QED
    BY <1>1, <1>5, <2>1, <2>3, ManagerStep DEF PatchConfigStatus
<1>6. CASE \/ Lookup(CFG) \/ SaveGenerated(CFG) \/ LookupToken \/ EnsureNodeToken
           \/ GenerateNodeToken \/ PatchNodeToken \/ \E m \in Machines : StartBootstrap(m)
  <2>1. UNCHANGED <<seen, worldVars, faults>>
    BY <1>6 DEF Lookup, SaveGenerated, LookupToken, EnsureNodeToken, GenerateNodeToken,
                PatchNodeToken, StartBootstrap, Call
  <2>2. Moves(CFG)
    BY <1>1, <1>6, LookupMoves, SaveGeneratedMoves, LookupTokenMoves, EnsureNodeTokenMoves,
       GenerateNodeTokenMoves, PatchNodeTokenMoves, StartBootstrapMoves
  <2>3. QED
    BY <1>1, <1>2, <2>1, <2>2
<1>7. ASSUME NEW a \in Managers, Abort(a)
      PROVE  SecretsInv'
  <2>1. Moves(a)
    BY <1>7, Returns DEF Abort
  <2>2. faults' \in 0..MaxFaults
    BY <1>1, <1>7 DEF Abort
  <2>3. QED
    BY <1>2, <1>7, <2>1, <2>2 DEF Abort
<1>8. CASE SetEndpoint
  <2>1. SecretsTypeOK'
    BY <1>8 DEF SetEndpoint, SecretsInv, SecretsTypeOK
  <2>2. AuthorityInv'
    BY <1>8 DEF SetEndpoint, SecretsInv, AuthorityInv
  <2>3. MachineChosen' /\ (~TornReads => NodeTokenInv')
    BY <1>8 DEF SetEndpoint, SecretsInv, MachineChosen, NodeTokenInv
  <2>4. QED
    BY <2>1, <2>2, <2>3 DEF SecretsInv
<1>9. QED
  BY <1>3, <1>4, <1>5, <1>6, <1>7, <1>8, StoreBootstrapDataKeeps, BootKeeps, SyncSecretsKeeps
     DEF SecretsNext, BootstrapStep

\* The refresh leaves the Secrets alone; a call of its that fails, or a stop of the
\* bootstrap manager, ends at most the reconcile of the bootstrap data.
LEMMA RefreshLeavesSecrets ==
  ASSUME SecretsInv, UNCHANGED run \/ Return(CFG), faults' \in 0..MaxFaults,
         UNCHANGED <<secrets, seen, worldVars>>
  PROVE  SecretsInv'
<1>1. CFG \in Managers /\ ready \in [Machines -> BOOLEAN]
  BY DEF CFG, Managers, SecretsInv, SecretsTypeOK
<1>2. Moves(CFG)
  <2>1. CASE UNCHANGED run
    <3>1. run' = [run EXCEPT ![CFG] = run[CFG]]
      BY <2>1 DEF SecretsInv, SecretsTypeOK
    <3>2. QED
      BY <1>1, <3>1, CurrentRun, ReadsOnly
  <2>2. QED
    BY <1>1, <2>1, Returns
<1>3. QED
  BY <1>1, <1>2, SameData, ManagerStep DEF worldVars

-----------------------------------------------------------------------------
(***************************************************************************)
(* Where it starts and what follows from it.                               *)
(***************************************************************************)
\* A cluster that is not formed yet, with or without a token Secret of an older
\* release.
LEMMA SecretsStart ==
  ASSUME SecretsInit
  PROVE  SecretsInv
<1>1. /\ seen = [a \in Managers |-> secrets] /\ endpoint = FALSE
      /\ data = [m \in Machines |-> NoData] /\ ready = [m \in Machines |-> FALSE]
      /\ node = [m \in Machines |-> 0] /\ formed = NoData
      /\ run = [a \in Managers |-> Idle] /\ faults = 0
  BY DEF SecretsInit
<1>2. PICK t \in Tokens : secrets = [cert |-> NoPairs, tok |-> t, kubeconfig |-> NoPairs]
  <2>1. [NoToken EXCEPT !.value = 1, !.owner = "CK8sConfig"] \in Tokens
    BY DEF NoToken, Tokens
  <2>2. QED
    BY <2>1, EmptyValues DEF SecretsInit
<1>3. secrets \in Secrets /\ secrets.cert = NoPairs /\ secrets.kubeconfig = NoPairs
  BY <1>2, EmptyValues DEF Secrets
<1>4. SecretsTypeOK
  <2>1. \A a \in Managers : run[a] = Idle
    BY <1>1
  <2>2. \A a \in Managers : run[a].pc = "save" <=> run[a].gen # {}
    BY <2>1, EmptyValues
  <2>3. run \in [Managers -> Runs] /\ seen \in [Managers -> Secrets]
    BY <1>1, <1>3, EmptyValues
  <2>4. /\ data \in [Machines -> Payloads] /\ ready \in [Machines -> BOOLEAN]
        /\ node \in [Machines -> Nat] /\ formed \in Payloads
    BY <1>1, EmptyValues
  <2>5. endpoint \in BOOLEAN
    BY <1>1
  <2>6. faults \in 0..MaxFaults
    BY <1>1
  <2>7. QED
    BY <1>3, <2>2, <2>3, <2>4, <2>5, <2>6 DEF SecretsTypeOK
<1>5. AuthorityInv
  <2>1. Kept(secrets, secrets) /\ SignedBy(secrets, secrets)
    BY <1>3 DEF Kept, SignedBy
  <2>2. Holds(Idle, secrets) /\ Initialises(NoData, secrets)
    BY EmptyValues DEF Holds, Initialises, NoPairs
  <2>3. QED
    BY <1>1, <2>1, <2>2 DEF AuthorityInv
<1>6. MachineChosen
  BY <1>1, EmptyValues DEF MachineChosen, CFG, Managers
<1>7. NodeTokenInv
  <2>1. NodesKept(secrets, secrets) /\ NodeHeld(Idle, secrets)
    BY EmptyValues DEF NodesKept, NodeHeld
  <2>2. run[CFG] = Idle
    BY <1>1 DEF CFG, Managers
  <2>3. QED
    BY <1>1, <2>1, <2>2, EmptyValues DEF NodeTokenInv
<1>8. QED
  BY <1>4, <1>5, <1>6, <1>7 DEF SecretsInv

\* The invariant implies the properties.
LEMMA SecretsAgree ==
  ASSUME SecretsInv
  PROVE  OneAuthority /\ (~TornReads => TokensAgree)
<1>1. OneAuthority
  BY DEF SecretsInv, AuthorityInv, SignedBy, Initialises, OneAuthority
<1>2. ~TornReads => TokensAgree
  BY DEF SecretsInv, NodeTokenInv, TokensAgree
<1>3. QED
  BY <1>1, <1>2
=============================================================================
