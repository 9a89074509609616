------------------------------ MODULE MCWorkspace ------------------------------
EXTENDS Workspace

\* Requests are interchangeable.
RequestSymmetry == Permutations(Requests)
=============================================================================
