--------------------------- MODULE MCCryptoSession ---------------------------
(***************************************************************************)
(* Two goroutines, two paths and four counters per path against a window   *)
(* of two bits, so that counters fall out of it.                           *)
(***************************************************************************)
EXTENDS CryptoSession, TLC

Symmetry == Permutations(Threads) \cup Permutations(Paths)
=============================================================================
