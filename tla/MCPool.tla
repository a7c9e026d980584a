------------------------------- MODULE MCPool -------------------------------
(* Small instances of the pool for TLC. *)
EXTENDS PoolProperties, TLC

AllFaults == {"create", "start", "remove"}
IdSymmetry == Permutations(Ids)
FullSymmetry == Permutations(Ids) \cup Permutations(Clients)
=============================================================================
