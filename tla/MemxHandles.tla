----------------------------- MODULE MemxHandles -----------------------------
(***************************************************************************)
(* What the benchmark's own structures share: addresses are native words,   *)
(* and each has a handle or MEMX_HANDLE_INVALID.                            *)
(***************************************************************************)
EXTENDS MemxPowers

CONSTANTS
    WordBits,           \* width of uintptr_t and of size_t
    Handles, Invalid

WordMax == Pow2[WordBits] - 1
Words == 0 .. WordMax
Wrapped(n) == n % Pow2[WordBits]
=============================================================================
