------------------------------ MODULE MCLease ------------------------------
(* Small instances of Lease for TLC.  Instances and requests are            *)
(* interchangeable in the run that checks no liveness.                      *)
EXTENDS Lease, TLC

Symmetry == Permutations(Instance) \union Permutations(Write)
=============================================================================
