------------------------------ MODULE Lockdep ------------------------------
(***************************************************************************)
(* The lock dependency validator of selfie.c ("LOCKDEP", lines 2464-3015): *)
(* a global graph of "b was requested while a was on the held list" edges, *)
(* and, per machine context, a linked list of the classes it is recorded   *)
(* as holding.  A lock class is the virtual address passed to the call.    *)
(*                                                                         *)
(* The held lists are heap lists whose head lives in slot 35 of a context. *)
(* fork copies that slot (through the CFS field that aliases it), so two   *)
(* contexts can share list cells and unlinking a cell in the middle of one *)
(* list changes the other.  A list is therefore a sequence of cells: cells *)
(* that are equal are the same heap cell.                                  *)
(***************************************************************************)
EXTENDS Integers, FiniteSets, Sequences, SequencesExt

CONSTANTS
  Addr,       \* lock classes: the addresses of locks and semaphores
  MaxCtx,     \* bound: contexts ever created
  MaxHeld,    \* MAX_LOCKDEP_HELD_LOCKS (16 in the code)
  MaxDeps,    \* MAX_LOCKDEP_DEPENDENCIES (512 in the code)
  Word,       \* number of values of a machine word (2^64 in the code)
  MaxCell     \* bound: cells a context has alive at once, per class

ASSUME LockdepAssumption ==
  /\ IsFiniteSet(Addr)
  /\ MaxCtx \in Nat \ {0}
  /\ MaxHeld \in Nat
  /\ Cardinality(Addr) <= MaxHeld   \* so the search depth is never exceeded
  /\ MaxDeps \in Nat
  /\ Word \in Nat \ {0}
  /\ MaxHeld < Word
  /\ MaxCell \in Nat

Ctx  == 0 .. (MaxCtx - 1)
Cell == Addr \X Ctx \X (1 .. MaxCell)   \* class, context that allocated it, number

VARIABLES
  graph,      \* lockdep_dependency_graph, a set of <<from, to>>
  held,       \* context -> its list, head first
  count,      \* context -> held_locks_count, a machine word
  dropped     \* history: a full table made lockdep forget something

lockdepVars == <<graph, held, count, dropped>>

Class(cell)    == cell[1]
HeldClasses(c) == {Class(held[c][i]) : i \in DOMAIN held[c]}
CellsInUse     == UNION {ToSet(held[d]) : d \in Ctx}

LockdepInit ==
  /\ graph = {}
  /\ held = [c \in Ctx |-> <<>>]
  /\ count = [c \in Ctx |-> 0]
  /\ dropped = FALSE

-----------------------------------------------------------------------------
(* has_cycle_dfs: y can be reached from x along recorded dependencies.  y  *)
(* is in every set that contains x and is closed under the edges.  The     *)
(* search itself is modelled in LockdepSearch and compared with this.      *)
Closed(S, G) == \A e \in G : e[1] \in S => e[2] \in S

Reaches(x, y, G) ==
  \A S \in SUBSET Addr : (x \in S /\ Closed(S, G)) => y \in S

(* would_create_cycle refuses the cell: its edge to a is new and a already *)
(* leads back to the class of the cell.  Edges into a added earlier in the *)
(* same walk cannot change what a reaches, so one graph serves them all.   *)
Conflicts(x, a) ==
  /\ x # a
  /\ <<x, a>> \notin graph
  /\ Reaches(a, x, graph)

Denies(c, a) == \E x \in HeldClasses(c) : Conflicts(x, a)

(* The positions the walk gets past before it is refused, and those of     *)
(* them that still need an edge to a.                                      *)
Passed(c, a) ==
  {i \in DOMAIN held[c] : \A j \in 1..i : ~Conflicts(Class(held[c][j]), a)}

Missing(c, a, I) ==
  {Class(held[c][i]) : i \in I} \ ({a} \cup {x \in Addr : <<x, a>> \in graph})

(* Mutant of Recorded: the edges behind the refused one are added too.     *)
RecordedAll(c, a) ==
  LET R == {i \in DOMAIN held[c] :
              Cardinality(graph) + Cardinality(Missing(c, a, 1..i)) <= MaxDeps}
  IN Missing(c, a, R) \X {a}

(* add_dependency for each of them, until the table is full.               *)
Recorded(c, a) ==
  LET P == Passed(c, a)
      R == {i \in P : Cardinality(graph) + Cardinality(Missing(c, a, 1..i)) <= MaxDeps}
  IN Missing(c, a, R) \X {a}

(* Mutant of WalkHeld: the dependencies are checked but never stored.      *)
WalkForgets(c, a) == graph' = graph

WalkHeld(c, a) == graph' = graph \cup Recorded(c, a)

TableFull(c, a) ==
  Cardinality(graph) + Cardinality(Missing(c, a, Passed(c, a))) > MaxDeps

(* add_held_lock                                                           *)
AddHeld(c, a) ==
  \/ /\ count[c] >= MaxHeld
     /\ UNCHANGED <<held, count>>
  \/ /\ count[c] < MaxHeld
     /\ \E k \in 1..MaxCell :
          /\ <<a, c, k>> \notin CellsInUse
          /\ \A m \in 1..(k-1) : <<a, c, m>> \in CellsInUse
          /\ held' = [held EXCEPT ![c] = <<<<a, c, k>>>> \o @]
     /\ count' = [count EXCEPT ![c] = @ + 1]

(* lockdep_lock_acquire: the walk over the held list either meets a        *)
(* conflict, keeping the edges it had already added, or records a as held. *)
LockdepAcquire(c, a) ==
  /\ ~Denies(c, a)
  /\ WalkHeld(c, a)
  /\ AddHeld(c, a)
  /\ dropped' = (dropped \/ TableFull(c, a) \/ count[c] >= MaxHeld)

LockdepDeny(c, a) ==
  /\ Denies(c, a)
  /\ WalkHeld(c, a)
  /\ dropped' = (dropped \/ TableFull(c, a))
  /\ UNCHANGED <<held, count>>

(* remove_held_lock: the first cell of that class is unlinked.  The head   *)
(* belongs to the context alone; a later cell is unlinked by rewriting its *)
(* predecessor, in every list that goes through that predecessor.          *)
Unlink(list, cell) ==
  IF cell \in ToSet(list)
    THEN RemoveAt(list, CHOOSE j \in DOMAIN list : list[j] = cell)
    ELSE list

AffectedBy(c, i) ==
  {d \in Ctx : d = c \/ (i > 1 /\ held[c][i-1] \in ToSet(held[d]))}

(* Mutant of RemoveHeld: the counter is taken for an unbounded integer.    *)
RemoveHeldUnbounded(c, i) ==
  /\ held' = [d \in Ctx |-> IF d \in AffectedBy(c, i)
                              THEN Unlink(held[d], held[c][i]) ELSE held[d]]
  /\ count' = [count EXCEPT ![c] = @ - 1]

RemoveHeld(c, i) ==
  /\ held' = [d \in Ctx |-> IF d \in AffectedBy(c, i)
                              THEN Unlink(held[d], held[c][i]) ELSE held[d]]
  /\ count' = [count EXCEPT ![c] = (@ - 1) % Word]

LockdepRelease(c, a) ==
  /\ \/ \E i \in DOMAIN held[c] :
          /\ Class(held[c][i]) = a
          /\ \A j \in 1..(i-1) : Class(held[c][j]) # a
          /\ RemoveHeld(c, i)
     \/ a \notin HeldClasses(c) /\ UNCHANGED <<held, count>>
  /\ UNCHANGED <<graph, dropped>>

(* fork: create_context clears head and count, set_vruntime then copies    *)
(* slot 35, which is the head of the parent's list.                        *)
LockdepFork(c, d) ==
  /\ held' = [held EXCEPT ![d] = held[c]]
  /\ count' = [count EXCEPT ![d] = 0]
  /\ UNCHANGED <<graph, dropped>>

-----------------------------------------------------------------------------
LockdepTypeOK ==
  /\ graph \subseteq Addr \X Addr
  /\ held \in [Ctx -> Seq(Cell)]
  /\ count \in [Ctx -> 0 .. (Word - 1)]
  /\ dropped \in BOOLEAN

(* The dependency graph never contains a cycle: every non-empty set of     *)
(* classes has one without a predecessor in the set.  Each edge is checked *)
(* before it is added, one at a time, by different contexts, and a denied  *)
(* walk leaves some of its edges behind.                                   *)
GraphAcyclic ==
  \A S \in SUBSET Addr :
    S # {} => \E x \in S : \A y \in S : <<y, x>> \notin graph

=============================================================================
