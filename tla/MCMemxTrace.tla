---------------------------- MODULE MCMemxTrace ----------------------------
(* A small word, and a hash under which neighbouring granules collide.      *)
EXTENDS MemxTrace, TLC

MCHash == [a \in Words |-> (a \div 4) * 3]

Interchangeable == Permutations(Handles)
=============================================================================
