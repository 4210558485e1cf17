----------------------------- MODULE MCMemxLarge -----------------------------
(* A small instance of MemxLarge: addresses hash to themselves, so that two *)
(* of them share a bucket of every table but the largest.                   *)
EXTENDS MemxLarge, TLC

MCAddresses == 0 .. 3
MCHash == [a \in MCAddresses |-> a]

Interchangeable == Permutations(Threads)
=============================================================================
