--------------------------- MODULE LockdepSearch ---------------------------
(***************************************************************************)
(* The two loops of LOCKDEP as they are written: has_cycle_dfs with its    *)
(* depth limit and its visited buffer, and the walk of                     *)
(* lockdep_lock_acquire that checks and adds one edge at a time.  Lockdep  *)
(* states what they compute without recursion; here the two are compared.  *)
(*                                                                         *)
(* One step is one acquisition; between two of them the held lists may     *)
(* become any lists of at most MaxList cells.                              *)
(***************************************************************************)
EXTENDS Lockdep

CONSTANT MaxList    \* bound: length of the held lists tried

ASSUME SearchAssumption == MaxList \in Nat

(* Mutant of has_cycle_dfs: only direct inversions are seen.               *)
has_edge(G, from, to, limit) == from = to \/ <<from, to>> \in G

(* has_cycle_dfs(from, to, visited, depth) on the graph G, with            *)
(* MAX_LOCKDEP_HELD_LOCKS = limit.  search[n] are its answers when depth   *)
(* is limit + 1 - n, for any start x and set V of visited classes.         *)
has_cycle_dfs(G, from, to, limit) ==
  LET search[n \in 0 .. (limit + 1)] ==
        IF n = 0 THEN [x \in Addr |-> [V \in SUBSET Addr |-> TRUE]]
        ELSE [x \in Addr |-> [V \in SUBSET Addr |->
                \/ x = to
                \/ \E e \in G : e[1] = x /\ e[2] \notin V /\ search[n-1][e[2]][V \cup {x}]]]
  IN search[limit + 1][from][{}]

(* Some call of the search writes visited[limit], one cell past the buffer.*)
Overruns(G, from, to, limit) ==
  LET write[n \in 0 .. (limit + 1)] ==
        IF n = 0 THEN [x \in Addr |-> [V \in SUBSET Addr |-> FALSE]]
        ELSE [x \in Addr |-> [V \in SUBSET Addr |->
                /\ x # to
                /\ \/ n = 1
                   \/ \E e \in G : e[1] = x /\ e[2] \notin V /\ write[n-1][e[2]][V \cup {x}]]]
  IN write[limit + 1][from][{}]

(* Mutant of would_create_cycle: the ends of the new edge are swapped.     *)
cycle_swapped(from, to, G) == has_cycle_dfs(G, from, to, MaxHeld)

would_create_cycle(from, to, G) == has_cycle_dfs(G, to, from, MaxHeld)

(* One round of the while loop of lockdep_lock_acquire, for a cell of      *)
(* class x: is the call still granted, which graph is there by now, and    *)
(* was an edge lost because the table was full.                            *)
Round(w, x, a) ==
  IF ~w.granted \/ x = a \/ <<x, a>> \in w.graph THEN w
  ELSE IF would_create_cycle(x, a, w.graph) THEN [w EXCEPT !.granted = FALSE]
  ELSE IF Cardinality(w.graph) >= MaxDeps THEN [w EXCEPT !.lost = TRUE]
  ELSE [w EXCEPT !.graph = @ \cup {<<x, a>>}]

Walk(list, a, G) ==
  LET walked[i \in 0 .. Len(list)] ==
        IF i = 0 THEN [granted |-> TRUE, graph |-> G, lost |-> FALSE]
        ELSE Round(walked[i-1], Class(list[i]), a)
  IN walked[Len(list)]

Lists == UNION {[1..n -> Cell] : n \in 0..MaxList}

SearchInit == LockdepInit

Attempt(c, a) ==
  LET w == Walk(held[c], a, graph) IN
  /\ graph' = w.graph
  /\ dropped' = (dropped \/ w.lost)
  /\ held' \in [Ctx -> Lists]
  /\ UNCHANGED count

SearchNext == \E c \in Ctx, a \in Addr : Attempt(c, a)

SearchSpec == SearchInit /\ [][SearchNext]_lockdepVars

-----------------------------------------------------------------------------
(* The search finds every path whatever its depth limit, and with a limit  *)
(* of at least the number of classes it finds nothing else and stays       *)
(* inside its buffer: the false alarms and the overrun need a 17th class.  *)
SearchIsReachability ==
  \A x, y \in Addr : \A limit \in 0..MaxHeld :
    /\ Reaches(x, y, graph) => has_cycle_dfs(graph, x, y, limit)
    /\ limit >= Cardinality(Addr) =>
         /\ has_cycle_dfs(graph, x, y, limit) => Reaches(x, y, graph)
         /\ ~Overruns(graph, x, y, limit)

(* Checking and adding edges one by one comes to what Lockdep says in one  *)
(* step, for every held list: the same verdict and the same edges, those   *)
(* left behind by a refused call and by a full table included.             *)
WalkIsOneStep ==
  \A c \in Ctx, a \in Addr :
    LET w == Walk(held[c], a, graph) IN
    /\ w.granted = ~Denies(c, a)
    /\ w.graph = graph \cup Recorded(c, a)
    /\ w.lost = TableFull(c, a)

=============================================================================
