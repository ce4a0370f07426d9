------------------------- MODULE MCControlPlaneUpgrade -------------------------
\* Model-checking instance of ControlPlaneUpgrade.
EXTENDS ControlPlaneUpgrade
=============================================================================
