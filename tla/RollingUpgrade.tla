---------------------------- MODULE RollingUpgrade ----------------------------
(***************************************************************************)
(* What an orchestrated in-place upgrade promises about a group of         *)
(* machines, with no locks, change ids, retries or crashes in sight: an    *)
(* open request is carried out machine by machine; only the machine whose  *)
(* turn it is changes what it runs, and only to what was requested; its    *)
(* turn ends when it runs that, and this is then recorded; the request is  *)
(* closed when it is recorded for every machine that is left.              *)
(***************************************************************************)
CONSTANTS
    Machines,
    Options,     \* upgrade options
    NoOption,
    Base         \* the option machines are installed with

VARIABLES
    members,     \* the machines that are not deleted
    request,     \* the open request of the group
    turn,        \* turn[m]: the option m is being upgraded to
    release,     \* release[m]: the option recorded for m
    runs         \* runs[m]: the option the node of m runs

vars == <<members, request, turn, release, runs>>

Init ==
    /\ members = Machines
    /\ request = NoOption
    /\ turn = [m \in Machines |-> NoOption]
    /\ release = [m \in Machines |-> NoOption]
    /\ runs = [m \in Machines |-> Base]

Open(option) ==
    /\ request = NoOption
    /\ request' = option
    /\ UNCHANGED <<members, turn, release, runs>>

TakeTurn(m) ==
    /\ request # NoOption
    /\ m \in members /\ release[m] # request
    /\ \A n \in members : turn[n] = NoOption
    /\ turn' = [turn EXCEPT ![m] = request]
    /\ release' = [release EXCEPT ![m] = NoOption]
    /\ UNCHANGED <<members, request, runs>>

\* May happen again in the same turn.
Install(m) ==
    /\ m \in members /\ turn[m] # NoOption
    /\ runs' = [runs EXCEPT ![m] = turn[m]]
    /\ UNCHANGED <<members, request, turn, release>>

EndTurn(m) ==
    /\ m \in members /\ turn[m] # NoOption
    /\ runs[m] = turn[m]
    /\ turn' = [turn EXCEPT ![m] = NoOption]
    /\ release' = [release EXCEPT ![m] = turn[m]]
    /\ UNCHANGED <<members, request, runs>>

Close ==
    /\ \A m \in members : release[m] = request
    /\ request' = NoOption
    /\ UNCHANGED <<members, turn, release, runs>>

\* The machine is deleted, with all that was recorded of it.
Leave(m) ==
    /\ members' = members \ {m}
    /\ turn' = [turn EXCEPT ![m] = NoOption]
    /\ release' = [release EXCEPT ![m] = NoOption]
    /\ UNCHANGED <<request, runs>>

Next ==
    \/ \E option \in Options : Open(option)
    \/ Close
    \/ \E m \in Machines : TakeTurn(m) \/ Install(m) \/ EndTurn(m) \/ Leave(m)

Spec == Init /\ [][Next]_vars
=============================================================================
