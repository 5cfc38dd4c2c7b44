------------------------------ MODULE MemoryMC -------------------------------
(***************************************************************************)
(* A small arena: pages of four cells, and names of two sizes.             *)
(***************************************************************************)
EXTENDS Memory

MCTextSize == [n \in Names |-> IF n = "main" THEN 2 ELSE 1]
=============================================================================
