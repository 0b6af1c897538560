---------------------------- MODULE MCLeaseStore ----------------------------
(* LeaseStore on a small instance: interchangeable keys and owners.         *)
EXTENDS LeaseStore, TLC

Symmetry == Permutations(Keys) \cup Permutations(Owners)
=============================================================================
