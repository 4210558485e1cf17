--------------------------- MODULE MCMemxClasses ---------------------------
(***************************************************************************)
(* Every span shift, arenas of up to two spans and one that leaves no room *)
(* for its alignment, every request up to past the largest class.          *)
(***************************************************************************)
EXTENDS MemxClasses

MCHeapConfigs ==
    [span_shift : 0..WordBits,
     reserve_size : {0, 4096, 8192, 16384, 24576, 32768, 114688},
     cache_batch : {0, 4, 5},
     cache_limit : {1, 2}]

MCArenaBases == {65536, 69632, 98304}
MCRequestSizes == 0..8300
MCAlignments == {0, 1, 4, 8, 12, 16, 24, 32, 4096, 65536}
MCCounts == {0, 1, 2, 255, 256, 257, 511, 512, 513, 4096, 4097, 8193}
=============================================================================
