----------------------------- MODULE MCMemxHeap -----------------------------
(* Small instances of MemxHeap.  Cache records and threads are             *)
(* interchangeable; blocks are numbered because a span is carved in order.  *)
EXTENDS MemxHeap, TLC

Interchangeable == Permutations(Threads) \cup Permutations(Caches)
=============================================================================
