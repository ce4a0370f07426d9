-------------------------------- MODULE InPlace --------------------------------
(***************************************************************************)
(* The in-place upgrade annotations of a Machine, MachineDeployment or     *)
(* CK8sControlPlane, the questions pkg/upgrade/inplace asks about them,    *)
(* the marks it puts on them, and how a mark reaches the API server.       *)
(***************************************************************************)
EXTENDS Naturals

CONSTANTS
    Options,     \* upgrade options, e.g. "channel=1.32-classic/stable"
    NoOption     \* the annotation is absent

ASSUME NoOptionAssumption == NoOption \notin Options

Statuses == {"none", "in-progress", "done", "failed"}

Annotations ==
    [to      : Options \cup {NoOption},   \* in-place-upgrade-to
     status  : Statuses,                  \* in-place-upgrade-status
     change  : Nat,                       \* in-place-upgrade-change-id, 0 when absent
     release : Options \cup {NoOption},   \* in-place-upgrade-release
     failed  : BOOLEAN]                   \* in-place-upgrade-last-failed-attempt-at

NoAnnotations ==
    [to |-> NoOption, status |-> "none", change |-> 0,
     release |-> NoOption, failed |-> FALSE]

\* inplace.go
IsUpgraded(a, option) == a.release = option
GetUpgradeInstructions(a) == IF a.to # NoOption THEN a.to ELSE a.release
IsMachineUpgradeFailed(a) == a.failed
IsMachineUpgrading(a) == a.status = "in-progress" \/ a.to # NoOption

\* mark.go: the annotations after each mark, before the patch.
MarkMachineToUpgrade(a, option) == [NoAnnotations EXCEPT !.to = option]
MarkUpgradeFailed(a) == [a EXCEPT !.release = NoOption, !.status = "failed"]
MarkUpgradeInProgress(a, option) ==
    [a EXCEPT !.release = NoOption, !.status = "in-progress", !.to = option]
MarkUpgradeDone(a, option) ==
    [a EXCEPT !.to = NoOption, !.status = "done", !.release = option]

\* patch.Helper.Patch sends the annotations that differ from the object the
\* helper was created with; the others keep their live value.
Merge(live, before, after) ==
    [to      |-> IF after.to # before.to THEN after.to ELSE live.to,
     status  |-> IF after.status # before.status THEN after.status ELSE live.status,
     change  |-> IF after.change # before.change THEN after.change ELSE live.change,
     release |-> IF after.release # before.release THEN after.release ELSE live.release,
     failed  |-> IF after.failed # before.failed THEN after.failed ELSE live.failed]
=============================================================================
