--------------------------- MODULE MCControlPlaneInit ---------------------------
\* Model-checking instance of ControlPlaneInit.
EXTENDS ControlPlaneInit, TLC

\* Control plane machines are interchangeable; used by the safety runs only.
Symmetry == Permutations(ControlPlane)
=============================================================================
