----------------------------- MODULE MemxPowers -----------------------------
(***************************************************************************)
(* Powers of two, as a recursive function: 1 << k in the code.  The provers *)
(* know nothing of the operator ^ for an exponent that is not a number.     *)
(***************************************************************************)
EXTENDS Integers

Pow2[k \in Nat] == IF k = 0 THEN 1 ELSE 2 * Pow2[k - 1]
=============================================================================
