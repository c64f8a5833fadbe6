-------------------------- MODULE MCLockdepSearch --------------------------
(* Instance of LockdepSearch for TLC.                                      *)
EXTENDS LockdepSearch
CONSTANTS a, b, c, d
=============================================================================
