--------------------------- MODULE ControlPlaneRules ---------------------------
(***************************************************************************)
(* The decisions of the CK8sControlPlane reconciler that only look at the  *)
(* machines it listed: which of them are outdated, whether the control     *)
(* plane is stable, which machine is scaled down or remediated, where a    *)
(* new one goes, and whether the retry limits allow a remediation.         *)
(*                                                                         *)
(* A list of machines is a function from the machines that exist to their  *)
(* data.  Machines are numbered in the order they are created, so the      *)
(* oldest of a set is its least element.                                   *)
(***************************************************************************)
EXTENDS Integers, FiniteSets

CONSTANTS
    FailureDomains, \* failure domains of the Cluster's status, maybe none
    NoDomain        \* a machine with no failure domain

ASSUME NoDomainAssumption == NoDomain \notin FailureDomains

\* What is remembered of a remediation (type RemediationData): the machine that
\* was replaced, when, and how often it had been tried before.
NoData == [machine |-> 0, time |-> 0, retry |-> 0]
ZeroTime == -1

Oldest(S) == CHOOSE m \in S : \A n \in S : m <= n

\* A machine has a NodeRef once its node was seen in the workload cluster.
HasNode(ms, m) == ms[m].node # "none"

HasDeletingMachine(ms) == \E m \in DOMAIN ms : ms[m].deleting

UnhealthyMachines(ms) == {m \in DOMAIN ms : ms[m].unhealthy}

HasHealthyMachineStillProvisioning(ms) ==
    \E m \in DOMAIN ms \ UnhealthyMachines(ms) : ~HasNode(ms, m)

\* Version, bootstrap configuration and template of a machine, and a rollout
\* deadline, are one number: the revision of the spec it was created from.
MachinesNeedingRollout(ms, revision) ==
    {m \in DOMAIN ms : ~ms[m].deleting /\ ms[m].revision # revision}

UpToDateMachines(ms, revision) == DOMAIN ms \ MachinesNeedingRollout(ms, revision)

In(ms, S, fd) == {m \in S : ms[m].domain = fd}

\* Faulty variant: outdated machines count as well.
NextFailureDomainForScaleUpAny(ms, revision) ==
    LET all(fd) == Cardinality(In(ms, DOMAIN ms, fd))
    IN  IF FailureDomains = {} THEN {NoDomain}
        ELSE {fd \in FailureDomains : \A o \in FailureDomains : all(fd) <= all(o)}

\* The failure domains a new machine may be put into: the ones with the fewest
\* up-to-date machines and, of those, the fewest machines.
NextFailureDomainForScaleUp(ms, revision) ==
    LET new(fd) == Cardinality(In(ms, UpToDateMachines(ms, revision), fd))
        all(fd) == Cardinality(In(ms, DOMAIN ms, fd))
        NoMoreThan(a, b) == new(a) < new(b) \/ (new(a) = new(b) /\ all(a) <= all(b))
    IN  IF FailureDomains = {} THEN {NoDomain}
        ELSE {fd \in FailureDomains : \A o \in FailureDomains : NoMoreThan(fd, o)}

\* The failure domains a machine of S may be taken from: one that is no longer
\* defined first, else those of S with the most control plane machines.
FailureDomainWithMostMachines(ms, S) ==
    LET stray == {m \in S : ms[m].domain \notin FailureDomains}
        used  == {ms[m].domain : m \in S}
        all(fd) == Cardinality(In(ms, DOMAIN ms, fd))
    IN  IF stray # {} THEN {ms[Oldest(stray)].domain}
        ELSE {fd \in used : \A o \in used : all(fd) >= all(o)}

\* The machines a scale down may pick.
selectMachineForScaleDown(ms, outdated) ==
    LET marked(S) == {m \in S : ms[m].deleteFirst}
        first == IF marked(outdated) # {} THEN marked(outdated) ELSE marked(DOMAIN ms)
        rest == IF outdated # {} THEN outdated ELSE DOMAIN ms
        S == IF first # {} THEN first ELSE rest
    IN  {Oldest(In(ms, S, fd)) : fd \in FailureDomainWithMostMachines(ms, S)}

\* Faulty variant of preflightChecks: deletions that are not waited for.
preflightChecksWhileDeleting(ms, excluded) ==
    \A m \in DOMAIN ms \ excluded : ms[m].deleting \/ ms[m].agentHealthy

\* Scaling goes on only when nothing is being deleted and the AgentHealthy
\* condition of every other machine is there and true.
preflightChecks(ms, excluded) ==
    /\ ~HasDeletingMachine(ms)
    /\ \A m \in DOMAIN ms \ excluded : ms[m].agentHealthy

getMachineToBeRemediated(ms) ==
    LET U == UnhealthyMachines(ms)
        provisioning == {m \in U : ~HasNode(ms, m)}
    IN  Oldest(IF provisioning # {} THEN provisioning ELSE U)

maxDuration(x, y) == IF x < y THEN y ELSE x

\* Faulty variants of checkRetryLimits: a limit that lets one more try through, and a
\* count that starts below zero.
checkRetryLimitsOffByOne(last, s, now) ==
    LET same == last # NoData /\ last.time + s.minHealthyPeriod > now
    IN  [can   |-> same => /\ last.time + s.retryPeriod <= now
                           /\ \A max \in s.maxRetry : last.retry <= max,
         retry |-> IF same THEN last.retry + 1 ELSE 0]

checkRetryLimitsBelowZero(last, s, now) == [can |-> TRUE, retry |-> last.retry - 1]

\* May the machine be remediated now, and which retry of the same machine is
\* it?  last is the remediation it was created for; s.maxRetry is empty when
\* the strategy sets no limit.
checkRetryLimits(last, s, now) ==
    LET lastTime == IF last.time = ZeroTime
                    THEN now - 2 * maxDuration(s.minHealthyPeriod, s.retryPeriod)
                    ELSE last.time
        same == last # NoData /\ lastTime + s.minHealthyPeriod > now
    IN  [can   |-> same => /\ lastTime + s.retryPeriod <= now
                           /\ \A max \in s.maxRetry : last.retry < max,
         retry |-> IF same THEN last.retry + 1 ELSE 0]
================================================================================
