----------------------------- MODULE MCMemxIndex -----------------------------
(* Small instances of MemxIndex: handle 0 is inline, big is a handle above  *)
(* MEMX_INLINE_HANDLE_MAX that always needs a table.                        *)
EXTENDS MemxIndex

CONSTANTS zero, big

MCHandles == {zero, big}
MCInline == {zero}

\* The sparse instance has only the inline handle.
MCOneHandle == {zero}
=============================================================================
