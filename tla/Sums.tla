-------------------------------- MODULE Sums --------------------------------
(***************************************************************************)
(* Sums over finite sets, of a function rather than of an operator, so     *)
(* that what is known of them can be cited for any function.               *)
(***************************************************************************)
EXTENDS Integers, FiniteSetsExt

SumOver(f, S) == MapThenSumSet(LAMBDA x : f[x], S)
=============================================================================
