------------------------ MODULE MCMachineDeploymentUpgrade ------------------------
\* Model-checking instance of MachineDeploymentUpgrade.
EXTENDS MachineDeploymentUpgrade
=============================================================================
