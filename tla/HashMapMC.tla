----------------------------- MODULE HashMapMC ------------------------------
(***************************************************************************)
(* HashMap with every hash function into a few slots: all ways for keys to *)
(* collide, to sit behind one another and to wrap around the end.          *)
(***************************************************************************)
EXTENDS HashMap
CONSTANT MaxHash

(* The keys are numbers here and otherwise alike: sorted hashes stand for  *)
(* all their permutations.                                                 *)
MCHashes == {h \in [Keys -> 0..MaxHash] : \A j, k \in Keys : j < k => h[j] <= h[k]}
=============================================================================
