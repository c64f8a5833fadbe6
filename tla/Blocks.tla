------------------------------- MODULE Blocks -------------------------------
(* Blocks of consecutive words and the pointers into them.                 *)
EXTENDS Naturals, FiniteSets

Words(b) == b.at .. (b.at + b.size - 1)
WordsOf(B) == UNION {Words(b) : b \in B}

(* The block of B that an address points into, its middle included, as a   *)
(* set of at most one for blocks that do not overlap.                      *)
Targets(V, B) == {b \in B : Words(b) \cap V # {}}

(* Blocks of B that can be reached from the values V through memory M: a   *)
(* chain of pointers that visits no block twice.                           *)
Reached(V, M, B) ==
  LET reach[n \in 0..Cardinality(B)] ==
        IF n = 0 THEN Targets(V, B)
        ELSE LET R == reach[n-1] IN R \cup Targets({M[w] : w \in WordsOf(R)}, B)
  IN reach[Cardinality(B)]
=============================================================================
