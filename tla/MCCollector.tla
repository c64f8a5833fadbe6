---------------------------- MODULE MCCollector -----------------------------
(* Instances of Collector for TLC.                                         *)
EXTENDS Collector
CONSTANTS a, b

(* The roots are interchangeable.                                          *)
SameRoots == Permutations(Root)
=============================================================================
