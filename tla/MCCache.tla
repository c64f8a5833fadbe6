------------------------------ MODULE MCCache -------------------------------
(* Instances of Cache for TLC: pages and frames in different order.        *)
EXTENDS Cache

Shuffled == [n \in 0..2 |-> Double * PageSize * (IF n = 0 THEN 2 ELSE IF n = 2 THEN 3 ELSE n)]
=============================================================================
