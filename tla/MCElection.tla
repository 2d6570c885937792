----------------------------- MODULE MCElection -----------------------------
(* Instances of Election for TLC.                                          *)
EXTENDS Election, TLC

\* The nodes are interchangeable: no action and no invariant names one. Only
\* for runs without liveness properties.
Symmetry == Permutations(Node)
=============================================================================
