----------------------------- MODULE MCHelpers ------------------------------
(* A small instance of Helpers for TLC: codes in base 3 of the lengths     *)
(* that /setotp accepts, and short texts.                                  *)
EXTENDS Helpers

CONSTANTS k1, k2

=============================================================================
