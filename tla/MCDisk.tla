------------------------------- MODULE MCDisk -------------------------------
(* Instances of Disk: data in which a shifted or swapped sector shows.     *)
EXTENDS Disk

MCPatterns == {[i \in 0..4 |-> IF i \in {0, 1, 3} THEN 1 ELSE 0]}
=============================================================================
