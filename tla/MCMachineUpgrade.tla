---------------------------- MODULE MCMachineUpgrade ----------------------------
\* Model-checking instance of MachineUpgrade.
EXTENDS MachineUpgrade
=============================================================================
