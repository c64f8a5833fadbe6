---------------------------- MODULE LockdepProofs ----------------------------
(***************************************************************************)
(* What each operation of Lockdep preserves: the types of its variables,   *)
(* the acyclicity of the dependency graph and its place in the table.      *)
(* KernelProofs uses these lemmas for the steps of the system calls.  The  *)
(* second half is about the two loops of LockdepSearch: they compute what  *)
(* Lockdep says of them.                                                   *)
(***************************************************************************)
EXTENDS LockdepSearch, DataLemmas

(* Sequences: what unlinking a cell and pushing one in front return.       *)
LEMMA RemoveAtType ==
  ASSUME NEW S, NEW list \in Seq(S), NEW j \in DOMAIN list
  PROVE  RemoveAt(list, j) \in Seq(S)
<1>1. j \in 1..Len(list)
  OBVIOUS
<1>2. SubSeq(list, 1, j-1) \in Seq(S)
  BY <1>1
<1>3. SubSeq(list, j+1, Len(list)) \in Seq(S)
  BY <1>1
<1> QED
  BY <1>2, <1>3 DEF RemoveAt

LEMMA UnlinkType ==
  ASSUME NEW list \in Seq(Cell), NEW cell
  PROVE  Unlink(list, cell) \in Seq(Cell)
  BY RemoveAtType DEF Unlink, ToSet

LEMMA PushType ==
  ASSUME NEW S, NEW list \in Seq(S), NEW e \in S
  PROVE  <<e>> \o list \in Seq(S)
  OBVIOUS

(* The classes on a held list are lock classes.                            *)
LEMMA ClassType ==
  ASSUME LockdepTypeOK, NEW c \in Ctx, NEW i \in DOMAIN held[c]
  PROVE  Class(held[c][i]) \in Addr
<1>1. held[c] \in Seq(Cell)
  BY DEF LockdepTypeOK
<1>2. held[c][i] \in Cell
  BY <1>1
<1> QED
  BY <1>2 DEF Cell, Class

(* held_locks_count is decremented without a test, but stays a word.       *)
LEMMA WordMinusOne ==
  ASSUME NEW n \in 0..(Word-1)
  PROVE  (n - 1) % Word \in 0..(Word-1)
  BY LockdepAssumption DEF LockdepAssumption

(* The edges a walk records start at a held class that was checked.        *)
LEMMA RecordedEdges ==
  ASSUME LockdepTypeOK, NEW c \in Ctx, NEW a \in Addr
  PROVE  \E M \in SUBSET Addr : /\ Recorded(c, a) = M \X {a}
                                /\ \A x \in M : ~Reaches(a, x, graph)
<1> DEFINE P == Passed(c, a)
           R == {i \in P : Cardinality(graph) + Cardinality(Missing(c, a, 1..i)) <= MaxDeps}
           M == Missing(c, a, R)
<1>1. Recorded(c, a) = M \X {a}
  BY DEF Recorded
<1>2. ASSUME NEW x \in M
      PROVE  x \in Addr /\ ~Reaches(a, x, graph)
  <2>1. PICK i \in R : x = Class(held[c][i])
    BY DEF Missing
  <2>2. i \in DOMAIN held[c] /\ \A j \in 1..i : ~Conflicts(Class(held[c][j]), a)
    BY <2>1 DEF Passed
  <2>3. x \in Addr
    BY <2>1, <2>2, ClassType
  <2>4. x # a /\ <<x, a>> \notin graph
    BY <1>2, <2>3 DEF Missing
  <2>5. held[c] \in Seq(Cell)
    BY DEF LockdepTypeOK
  <2>6. i \in 1..i
    BY <2>2, <2>5
  <2>7. ~Conflicts(x, a)
    BY <2>1, <2>2, <2>6
  <2> QED
    BY <2>3, <2>4, <2>7 DEF Conflicts
<1> QED
  BY <1>1, <1>2

-----------------------------------------------------------------------------
(* Each operation preserves the types.                                     *)
LEMMA WalkType ==
  ASSUME LockdepTypeOK, NEW c \in Ctx, NEW a \in Addr, WalkHeld(c, a)
  PROVE  graph' \subseteq Addr \X Addr
  BY RecordedEdges DEF WalkHeld, LockdepTypeOK

LEMMA AddHeldType ==
  ASSUME LockdepTypeOK, NEW c \in Ctx, NEW a \in Addr, AddHeld(c, a)
  PROVE  held' \in [Ctx -> Seq(Cell)] /\ count' \in [Ctx -> 0..(Word - 1)]
<1>1. CASE count[c] >= MaxHeld /\ UNCHANGED <<held, count>>
  BY <1>1 DEF LockdepTypeOK
<1>2. CASE /\ count[c] < MaxHeld
           /\ \E k \in 1..MaxCell : held' = [held EXCEPT ![c] = <<<<a, c, k>>>> \o @]
           /\ count' = [count EXCEPT ![c] = @ + 1]
  <2>1. PICK k \in 1..MaxCell : held' = [held EXCEPT ![c] = <<<<a, c, k>>>> \o @]
    BY <1>2
  <2>2. <<a, c, k>> \in Cell
    BY DEF Cell
  <2>3. held[c] \in Seq(Cell)
    BY DEF LockdepTypeOK
  <2>4. <<<<a, c, k>>>> \o held[c] \in Seq(Cell)
    BY <2>2, <2>3, PushType
  <2>5. held' \in [Ctx -> Seq(Cell)]
    BY <2>1, <2>4 DEF LockdepTypeOK
  <2>6. count[c] + 1 \in 0..(Word - 1)
    BY <1>2, LockdepAssumption DEF LockdepTypeOK, LockdepAssumption
  <2>7. count' \in [Ctx -> 0..(Word - 1)]
    BY <1>2, <2>6 DEF LockdepTypeOK
  <2> QED
    BY <2>5, <2>7
<1> QED
  BY <1>1, <1>2 DEF AddHeld

LEMMA AcquireType ==
  ASSUME LockdepTypeOK, NEW c \in Ctx, NEW a \in Addr, LockdepAcquire(c, a)
  PROVE  LockdepTypeOK'
<1>1. graph' \subseteq Addr \X Addr
  BY WalkType DEF LockdepAcquire
<1>2. held' \in [Ctx -> Seq(Cell)] /\ count' \in [Ctx -> 0..(Word - 1)]
  BY AddHeldType DEF LockdepAcquire
<1>3. dropped' \in BOOLEAN
  BY DEF LockdepAcquire
<1> QED
  BY <1>1, <1>2, <1>3 DEF LockdepTypeOK

LEMMA DenyType ==
  ASSUME LockdepTypeOK, NEW c \in Ctx, NEW a \in Addr, LockdepDeny(c, a)
  PROVE  LockdepTypeOK'
<1>1. graph' \subseteq Addr \X Addr
  BY WalkType DEF LockdepDeny
<1>2. dropped' \in BOOLEAN
  BY DEF LockdepDeny
<1> QED
  BY <1>1, <1>2 DEF LockdepTypeOK, LockdepDeny

LEMMA ReleaseType ==
  ASSUME LockdepTypeOK, NEW c \in Ctx, NEW a \in Addr, LockdepRelease(c, a)
  PROVE  LockdepTypeOK'
<1>1. CASE UNCHANGED <<held, count>>
  BY <1>1 DEF LockdepTypeOK, LockdepRelease
<1>2. ASSUME NEW i \in DOMAIN held[c], RemoveHeld(c, i)
      PROVE  LockdepTypeOK'
  <2>1. \A d \in Ctx : held[d] \in Seq(Cell)
    BY DEF LockdepTypeOK
  <2>2. \A d \in Ctx : Unlink(held[d], held[c][i]) \in Seq(Cell)
    BY <2>1, UnlinkType
  <2>3. held' \in [Ctx -> Seq(Cell)]
    BY <1>2, <2>1, <2>2 DEF RemoveHeld
  <2>4. (count[c] - 1) % Word \in 0..(Word - 1)
    BY WordMinusOne DEF LockdepTypeOK
  <2>5. count' \in [Ctx -> 0..(Word - 1)]
    BY <1>2, <2>4 DEF RemoveHeld, LockdepTypeOK
  <2> QED
    BY <2>3, <2>5 DEF LockdepTypeOK, LockdepRelease
<1> QED
  BY <1>1, <1>2 DEF LockdepRelease

LEMMA ForkType ==
  ASSUME LockdepTypeOK, NEW c \in Ctx, NEW d, LockdepFork(c, d)
  PROVE  LockdepTypeOK'
<1>1. held[c] \in Seq(Cell) /\ 0 \in 0..(Word - 1)
  BY LockdepAssumption DEF LockdepTypeOK, LockdepAssumption
<1> QED
  BY <1>1 DEF LockdepTypeOK, LockdepFork

-----------------------------------------------------------------------------
Acyclic(G) ==
  \A S \in SUBSET Addr :
    S # {} => \E x \in S : \A y \in S : <<y, x>> \notin G

(* Edges into a keep a graph acyclic when a reaches none of their sources: *)
(* the set U of what a reaches is closed, so a source-free class of a set  *)
(* T can be looked for outside U first, where no new edge ends, and in U   *)
(* only when T lies in U, where no new edge starts.                        *)
LEMMA NewEdgesAcyclic ==
  ASSUME NEW G, Acyclic(G), NEW a \in Addr, NEW M \in SUBSET Addr,
         \A x \in M : ~Reaches(a, x, G)
  PROVE  Acyclic(G \cup (M \X {a}))
<1> DEFINE U == {y \in Addr : Reaches(a, y, G)}
           H == G \cup (M \X {a})
<1>1. a \in U
  BY DEF Reaches
<1>2. ASSUME NEW y \in U, NEW z \in Addr, <<y, z>> \in G
      PROVE  z \in U
  BY <1>2 DEF Reaches, Closed
<1>3. M \cap U = {}
  OBVIOUS
<1>4. ASSUME NEW T \in SUBSET Addr, T # {}
      PROVE  \E x \in T : \A y \in T : <<y, x>> \notin H
  <2>1. CASE T \subseteq U
    <3>1. PICK x \in T : \A y \in T : <<y, x>> \notin G
      BY <1>4 DEF Acyclic
    <3>2. \A y \in T : <<y, x>> \notin M \X {a}
      BY <2>1, <1>3
    <3> QED
      BY <3>1, <3>2
  <2>2. CASE T \ U # {}
    <3>1. PICK x \in T \ U : \A y \in T \ U : <<y, x>> \notin G
      BY <2>2 DEF Acyclic
    <3>2. \A y \in T \cap U : <<y, x>> \notin G
      BY <1>2, <3>1
    <3>3. \A y \in T : <<y, x>> \notin M \X {a}
      BY <1>1, <3>1
    <3> QED
      BY <3>1, <3>2, <3>3
  <2> QED
    BY <2>1, <2>2
<1> QED
  BY <1>4 DEF Acyclic

LEMMA WalkAcyclic ==
  ASSUME LockdepTypeOK, GraphAcyclic, NEW c \in Ctx, NEW a \in Addr, WalkHeld(c, a)
  PROVE  GraphAcyclic'
<1>1. PICK M \in SUBSET Addr : /\ Recorded(c, a) = M \X {a}
                               /\ \A x \in M : ~Reaches(a, x, graph)
  BY RecordedEdges
<1>2. Acyclic(graph)
  BY DEF GraphAcyclic, Acyclic
<1>3. Acyclic(graph \cup (M \X {a}))
  BY <1>1, <1>2, NewEdgesAcyclic
<1>4. graph' = graph \cup (M \X {a})
  BY <1>1 DEF WalkHeld
<1> QED
  BY <1>3, <1>4 DEF GraphAcyclic, Acyclic

-----------------------------------------------------------------------------
(* The table of dependencies.                                              *)

TableOK == Cardinality(graph) <= MaxDeps
Full == Cardinality(graph) >= MaxDeps

LEMMA Counts ==
  ASSUME LockdepTypeOK
  PROVE  /\ IsFiniteSet(graph) /\ Cardinality(graph) \in Nat
         /\ \A M \in SUBSET Addr : IsFiniteSet(M) /\ Cardinality(M) \in Nat
         /\ \A L, M \in SUBSET Addr : L \subseteq M => Cardinality(L) <= Cardinality(M)
<1>1. IsFiniteSet(Addr) /\ IsFiniteSet(Addr \X Addr)
  BY LockdepAssumption, FS_Product DEF LockdepAssumption
<1>2. graph \in SUBSET (Addr \X Addr)
  BY DEF LockdepTypeOK
<1>3. IsFiniteSet(graph) /\ Cardinality(graph) \in Nat
  BY <1>1, <1>2, FS_Subset, FS_CardinalityType
<1>4. \A M \in SUBSET Addr : IsFiniteSet(M) /\ Cardinality(M) \in Nat
  BY <1>1, FS_Subset, FS_CardinalityType
<1>5. \A L, M \in SUBSET Addr : L \subseteq M => Cardinality(L) <= Cardinality(M)
  BY <1>4, FS_Subset
<1> QED
  BY <1>3, <1>4, <1>5

LEMMA EdgesAdded ==
  ASSUME LockdepTypeOK, NEW a \in Addr, NEW M \in SUBSET Addr, \A x \in M : <<x, a>> \notin graph
  PROVE  Cardinality(graph \cup (M \X {a})) = Cardinality(graph) + Cardinality(M)
<1>1. IsFiniteSet(graph) /\ IsFiniteSet(M) /\ Cardinality(M) \in Nat /\ Cardinality(graph) \in Nat
  BY Counts
<1>2. IsFiniteSet({a}) /\ Cardinality({a}) = 1
  BY FS_Singleton
<1>3. IsFiniteSet(M \X {a}) /\ Cardinality(M \X {a}) = Cardinality(M)
  <2>1. IsFiniteSet(M \X {a}) /\ Cardinality(M \X {a}) = Cardinality(M) * Cardinality({a})
    BY <1>1, <1>2, FS_Product
  <2>2. Cardinality(M) * 1 = Cardinality(M)
    BY <1>1
  <2> QED
    BY <1>2, <2>1, <2>2
<1>4. graph \cap (M \X {a}) = {}
  OBVIOUS
<1>5. Cardinality(graph \cap (M \X {a})) = 0
  BY <1>4, FS_EmptySet
<1> QED
  BY <1>1, <1>3, <1>5, FS_Union

(* The walk records the positions in R, which never fill more than the     *)
(* table: all of them, or the table is full afterwards.                    *)
LEMMA WalkFills ==
  ASSUME LockdepTypeOK, TableOK, NEW c \in Ctx, NEW a \in Addr, WalkHeld(c, a)
  PROVE  /\ graph \subseteq graph' /\ TableOK'
         /\ Full => graph' = graph
         /\ ~Denies(c, a) => Full' \/ \A x \in HeldClasses(c) : x = a \/ <<x, a>> \in graph'
<1> DEFINE P == Passed(c, a)
           Want(I) == Missing(c, a, I)
           R == {i \in P : Cardinality(graph) + Cardinality(Want(1..i)) <= MaxDeps}
           M == Want(R)
<1>1. MaxDeps \in Nat /\ Cardinality(graph) \in Nat /\ Cardinality(graph) <= MaxDeps
  BY LockdepAssumption, Counts DEF LockdepAssumption, TableOK
<1>2. /\ held[c] \in Seq(Cell) /\ DOMAIN held[c] = 1..Len(held[c]) /\ Len(held[c]) \in Nat
      /\ P \subseteq DOMAIN held[c]
  BY DEF LockdepTypeOK, Passed
<1>3. ASSUME NEW I \in SUBSET DOMAIN held[c]
      PROVE  Want(I) \in SUBSET Addr /\ IsFiniteSet(Want(I)) /\ Cardinality(Want(I)) \in Nat
  <2>1. Want(I) \in SUBSET Addr
    BY ClassType DEF Missing
  <2> QED
    BY <2>1, Counts
<1>4. graph' = graph \cup (M \X {a})
  BY DEF WalkHeld, Recorded
<1>5. ASSUME NEW I \in SUBSET DOMAIN held[c], NEW J \in SUBSET I
      PROVE  Want(J) \subseteq Want(I) /\ Cardinality(Want(J)) <= Cardinality(Want(I))
  <2>1. Want(J) \subseteq Want(I)
    BY DEF Missing
  <2> QED
    BY <1>3, <1>5, <2>1, Counts
<1>6. \A i \in DOMAIN held[c] : 1..i \in SUBSET DOMAIN held[c]
  BY <1>2
<1>7. R \in SUBSET P /\ R \in SUBSET DOMAIN held[c] /\ M \in SUBSET Addr /\ Cardinality(M) \in Nat
  BY <1>2, <1>3
<1>8. Cardinality(graph') = Cardinality(graph) + Cardinality(M)
  <2>1. \A x \in M : <<x, a>> \notin graph
    BY <1>7 DEF Missing
  <2> QED
    BY <1>4, <1>7, <2>1, EdgesAdded
<1>9. \A i \in R : Cardinality(graph) + Cardinality(Want(1..i)) <= MaxDeps
  OBVIOUS
<1>10. \A i \in P \ R : Cardinality(graph) + Cardinality(Want(1..i)) > MaxDeps
  BY <1>1, <1>2, <1>3, <1>6
<1>11. \A x \in M : \E i \in R : x \in Want({i})
  BY DEF Missing
<1> HIDE DEF P, R, M
<1>12. TableOK'
  <2>1. CASE R = {}
    <3>1. M = {}
      BY <1>11, <2>1
    <3> QED
      BY <1>1, <1>8, <3>1, FS_EmptySet DEF TableOK
  <2>2. CASE R # {}
    <3>1. PICK m \in R : \A i \in R : i <= m
      <4>1. R \in SUBSET Nat /\ \A i \in R : i <= Len(held[c])
        BY <1>2, <1>7
      <4>2. Max(R) \in R /\ \A i \in R : Max(R) >= i
        BY <1>2, <2>2, <4>1, Greatest
      <4>3. \A i \in R : i <= Max(R)
        BY <4>1, <4>2
      <4> QED
        BY <4>2, <4>3
    <3>2. R \subseteq 1..m /\ m \in DOMAIN held[c]
      BY <1>2, <1>7, <3>1
    <3>3. Cardinality(M) <= Cardinality(Want(1..m)) /\ Cardinality(Want(1..m)) \in Nat
      BY <1>3, <1>5, <1>6, <3>2 DEF M
    <3>4. Cardinality(graph) + Cardinality(Want(1..m)) <= MaxDeps
      BY <1>9, <3>1
    <3> QED
      BY <1>1, <1>7, <1>8, <3>3, <3>4 DEF TableOK
  <2> QED
    BY <2>1, <2>2
<1>13. ASSUME Full
       PROVE  graph' = graph
  <2>1. Cardinality(M) = 0
    BY <1>1, <1>7, <1>8, <1>12, <1>13 DEF Full, TableOK
  <2>2. M = {}
    BY <1>7, <2>1, Counts, FS_EmptySet
  <2> QED
    BY <1>4, <2>2
<1>14. ASSUME ~Denies(c, a)
       PROVE  Full' \/ \A x \in HeldClasses(c) : x = a \/ <<x, a>> \in graph'
  <2>1. P = DOMAIN held[c]
    BY <1>6, <1>14 DEF Denies, HeldClasses, Passed, P
  <2>2. CASE R = P
    <3>1. ASSUME NEW i \in DOMAIN held[c]
          PROVE  Class(held[c][i]) = a \/ <<Class(held[c][i]), a>> \in graph'
      BY <1>4, <2>1, <2>2, ClassType DEF M, Missing
    <3> QED
      BY <3>1 DEF HeldClasses
  <2>3. CASE R # P
    <3> DEFINE N == P \ R
               i == Min(N)
    <3>1. N \in SUBSET Nat /\ N # {}
      BY <1>2, <1>7, <2>3
    <3>2. i \in N /\ \A j \in N : i <= j
      <4> HIDE DEF N
      <4> QED
        BY <3>1, Least
    <3> HIDE DEF i
    <3>3. i \in 1..Len(held[c]) /\ Cardinality(graph) + Cardinality(Want(1..i)) > MaxDeps
      BY <1>2, <1>10, <3>2
    <3>4. 1..(i - 1) \in SUBSET R /\ 1..(i - 1) \in SUBSET DOMAIN held[c] /\ 1..i \in SUBSET DOMAIN held[c]
      BY <1>2, <2>1, <3>2, <3>3
    <3>5. Cardinality(Want(1..(i - 1))) <= Cardinality(M) /\ Cardinality(Want(1..(i - 1))) \in Nat
      BY <1>3, <1>5, <1>7, <3>4 DEF M
    <3>6. Want(1..i) \subseteq Want(1..(i - 1)) \cup {Class(held[c][i])}
      <4>1. \A j \in 1..i : j = i \/ j \in 1..(i - 1)
        BY <3>3
      <4> QED
        BY <4>1 DEF Missing
    <3>7. Class(held[c][i]) \in Addr
      BY <1>2, <3>3, ClassType
    <3>8. Cardinality(Want(1..i)) <= Cardinality(Want(1..(i - 1)) \cup {Class(held[c][i])})
      BY <1>3, <3>4, <3>6, <3>7, Counts
    <3>9. Cardinality(Want(1..(i - 1)) \cup {Class(held[c][i])}) <= Cardinality(Want(1..(i - 1))) + 1
      <4> DEFINE W == Want(1..(i - 1))
      <4>1. IsFiniteSet(W) /\ Cardinality(W) \in Nat
        BY <1>3, <3>4
      <4> HIDE DEF W
      <4>2. \A x : Cardinality(W \cup {x}) <= Cardinality(W) + 1
        BY <4>1, FS_AddElement
      <4> QED
        BY <4>2 DEF W
    <3>10. /\ Cardinality(Want(1..i)) \in Nat
           /\ Cardinality(Want(1..(i - 1)) \cup {Class(held[c][i])}) \in Nat
      BY <1>3, <3>4, <3>7, Counts
    <3>11. Cardinality(graph) + Cardinality(M) >= MaxDeps
      BY <1>1, <1>7, <3>3, <3>5, <3>8, <3>9, <3>10
    <3> QED
      BY <1>8, <3>11 DEF Full
  <2> QED
    BY <2>2, <2>3
<1> QED
  BY <1>4, <1>12, <1>13, <1>14

(* A context that passed a walk passes the next one to the same lock: what *)
(* the walk added leads to the lock, and cannot make it lead anywhere.     *)
LEMMA StillPasses ==
  ASSUME NEW a \in Addr, NEW x, ~Conflicts(x, a), NEW M, graph' = graph \cup (M \X {a})
  PROVE  ~Conflicts(x, a)'
<1>1. ASSUME Reaches(a, x, graph')
      PROVE  Reaches(a, x, graph)
  <2>1. \A S \in SUBSET Addr : a \in S /\ Closed(S, graph) => Closed(S, graph')
    BY DEF Closed
  <2> QED
    BY <1>1, <2>1 DEF Reaches
<1> QED
  BY <1>1 DEF Conflicts

(* A walk that neither meets a conflict nor finds the table full leaves an *)
(* edge from every class the context is recorded as holding.               *)
LEMMA AllRecorded ==
  ASSUME LockdepTypeOK, NEW c \in Ctx, NEW a \in Addr, LockdepAcquire(c, a), ~dropped',
         NEW x \in HeldClasses(c)
  PROVE  x = a \/ <<x, a>> \in graph'
<1> DEFINE P == Passed(c, a)
           Known2(I) == Missing(c, a, I)
           R == {i \in P : Cardinality(graph) + Cardinality(Known2(1..i)) <= MaxDeps}
<1>1. P = DOMAIN held[c]
  <2>1. held[c] \in Seq(Cell)
    BY DEF LockdepTypeOK
  <2>2. \A i \in DOMAIN held[c] : 1..i \subseteq DOMAIN held[c]
    BY <2>1
  <2> QED
    BY <2>2 DEF LockdepAcquire, Denies, HeldClasses, Passed
<1>2. IsFiniteSet(Known2(P)) /\ Cardinality(Known2(P)) \in Nat
  <2>1. Known2(P) \in SUBSET Addr
    BY <1>1, ClassType DEF Missing
  <2> QED
    BY <2>1, LockdepAssumption, FS_Subset, FS_CardinalityType DEF LockdepAssumption
<1>3. IsFiniteSet(graph) /\ Cardinality(graph) \in Nat
  <2>1. IsFiniteSet(Addr \X Addr)
    BY LockdepAssumption, FS_Product DEF LockdepAssumption
  <2>2. graph \in SUBSET (Addr \X Addr)
    BY DEF LockdepTypeOK
  <2> QED
    BY <2>1, <2>2, FS_Subset, FS_CardinalityType
<1>4. Cardinality(graph) + Cardinality(Known2(P)) <= MaxDeps
  <2>1. ~TableFull(c, a)
    BY DEF LockdepAcquire
  <2>2. ~(Cardinality(graph) + Cardinality(Known2(P)) > MaxDeps)
    BY <2>1, Zenon DEF TableFull
  <2> QED
    BY <1>2, <1>3, <2>2, LockdepAssumption DEF LockdepAssumption
<1>5. ASSUME NEW i \in P
      PROVE  i \in R
  <2>1. held[c] \in Seq(Cell) /\ 1..i \subseteq P
    BY <1>1 DEF LockdepTypeOK
  <2>2. Known2(1..i) \in SUBSET Known2(P)
    BY <2>1 DEF Missing
  <2>3. Cardinality(Known2(1..i)) <= Cardinality(Known2(P)) /\ Cardinality(Known2(1..i)) \in Nat
    BY <1>2, <2>2, FS_Subset, FS_CardinalityType
  <2> QED
    BY <1>2, <1>3, <1>4, <2>3, LockdepAssumption DEF LockdepAssumption
<1>6. R = P
  BY <1>5
<1>7. graph' = graph \cup (Missing(c, a, P) \X {a})
  BY <1>6 DEF LockdepAcquire, WalkHeld, Recorded
<1>8. PICK i \in P : x = Class(held[c][i])
  BY <1>1 DEF HeldClasses
<1>9. x \in Addr
  BY <1>1, <1>8, ClassType
<1> QED
  BY <1>7, <1>8, <1>9 DEF Missing

-----------------------------------------------------------------------------
(* The search, level by level.                                             *)
Searches(f, G, y, N) ==
  \A x \in Addr, V \in SUBSET Addr :
    /\ f[0][x][V]
    /\ \A n \in 1..N : f[n][x][V] <=>
         x = y \/ \E e \in G : e[1] = x /\ e[2] \notin V /\ f[n-1][e[2]][V \cup {x}]

LEMMA SearchUnfolds ==
  ASSUME NEW G, NEW x0, NEW y, NEW limit \in Nat
  PROVE  \E f : /\ Searches(f, G, y, limit + 1)
                /\ has_cycle_dfs(G, x0, y, limit) = f[limit + 1][x0][{}]
<1> DEFINE N == limit + 1
           First == [x \in Addr |-> [V \in SUBSET Addr |-> TRUE]]
           Level(g) == [x \in Addr |-> [V \in SUBSET Addr |->
                          \/ x = y
                          \/ \E e \in G : e[1] = x /\ e[2] \notin V /\ g[e[2]][V \cup {x}]]]
           Body(f) == [n \in 0..N |-> IF n = 0 THEN First ELSE Level(f[n-1])]
           search == CHOOSE f : f = Body(f)
           S == [Addr -> [SUBSET Addr -> BOOLEAN]]
           step == [p \in (1..N) \X S |-> Level(p[2])]
<1>1. First \in S /\ \A g \in S : Level(g) \in S
  OBVIOUS
<1>2. has_cycle_dfs(G, x0, y, limit) = search[N][x0][{}]
  BY DEF has_cycle_dfs
<1> HIDE DEF First, Level, S
<1>3. step \in [(1..N) \X S -> S] /\ \A n \in 1..N, g \in S : step[<<n, g>>] = Level(g)
  BY <1>1
<1> HIDE DEF step
<1>4. PICK f : Stepwise(f, N, S, First, step)
  <2>1. N \in Nat /\ Stepping(step, N, S)
    BY <1>3 DEF Stepping
  <2> HIDE DEF N
  <2> QED
    BY <1>1, <2>1, Recursion
<1>5. f = Body(f)
  <2>1. f = [n \in 0..N |-> f[n]]
    BY <1>4 DEF Stepwise
  <2>2. ASSUME NEW n \in 0..N, n # 0
        PROVE  f[n] = Level(f[n-1])
    <3>1. n \in 1..N /\ n - 1 \in 0..N
      BY <2>2
    <3>2. f[n-1] \in S /\ f[n] = step[<<n, f[n-1]>>]
      BY <1>4, <3>1 DEF Stepwise
    <3> QED
      BY <1>3, <3>1, <3>2
  <2>3. f[0] = First
    BY <1>4 DEF Stepwise
  <2> QED
    BY <2>1, <2>2, <2>3
<1>6. search = Body(search)
  <2> HIDE DEF Body
  <2> QED
    BY <1>5
<1> HIDE DEF search
<1>7. search[0] = First /\ \A n \in 1..N : search[n] = Level(search[n-1])
  BY <1>6
<1>8. Searches(search, G, y, N)
  <2> SUFFICES ASSUME NEW x \in Addr, NEW V \in SUBSET Addr
               PROVE  /\ search[0][x][V]
                      /\ \A n \in 1..N : search[n][x][V] <=>
                           x = y \/ \E e \in G : e[1] = x /\ e[2] \notin V /\ search[n-1][e[2]][V \cup {x}]
    BY DEF Searches
  <2>1. First[x][V]
    BY DEF First
  <2>2. ASSUME NEW g
        PROVE  Level(g)[x][V] <=>
                 x = y \/ \E e \in G : e[1] = x /\ e[2] \notin V /\ g[e[2]][V \cup {x}]
    BY DEF Level
  <2>3. ASSUME NEW n \in 1..N
        PROVE  search[n][x][V] <=>
                 x = y \/ \E e \in G : e[1] = x /\ e[2] \notin V /\ search[n-1][e[2]][V \cup {x}]
    <3>1. search[n] = Level(search[n-1])
      BY <1>7
    <3> QED
      BY <2>2, <3>1
  <2> QED
    BY <1>7, <2>1, <2>3
<1> QED
  BY <1>2, <1>8

(* The writes of the search, level by level.                               *)
Writes(f, G, y, N) ==
  \A x \in Addr, V \in SUBSET Addr :
    /\ ~f[0][x][V]
    /\ \A n \in 1..N : f[n][x][V] /\ n # 1 =>
         \E e \in G : e[1] = x /\ e[2] \notin V /\ f[n-1][e[2]][V \cup {x}]

LEMMA WritesUnfold ==
  ASSUME NEW G, NEW x0, NEW y, NEW limit \in Nat
  PROVE  \E f : /\ Writes(f, G, y, limit + 1)
                /\ Overruns(G, x0, y, limit) = f[limit + 1][x0][{}]
<1> DEFINE N == limit + 1
           First == [x \in Addr |-> [V \in SUBSET Addr |-> FALSE]]
           Level(n, g) == [x \in Addr |-> [V \in SUBSET Addr |->
                             /\ x # y
                             /\ \/ n = 1
                                \/ \E e \in G : e[1] = x /\ e[2] \notin V /\ g[e[2]][V \cup {x}]]]
           Body(f) == [n \in 0..N |-> IF n = 0 THEN First ELSE Level(n, f[n-1])]
           write == CHOOSE f : f = Body(f)
           S == [Addr -> [SUBSET Addr -> BOOLEAN]]
           step == [p \in (1..N) \X S |-> Level(p[1], p[2])]
<1>1. First \in S /\ \A n, g : Level(n, g) \in S
  OBVIOUS
<1>2. Overruns(G, x0, y, limit) = write[N][x0][{}]
  BY DEF Overruns
<1> HIDE DEF First, Level, S
<1>3. step \in [(1..N) \X S -> S] /\ \A n \in 1..N, g \in S : step[<<n, g>>] = Level(n, g)
  BY <1>1
<1> HIDE DEF step
<1>4. PICK f : Stepwise(f, N, S, First, step)
  <2>1. N \in Nat /\ Stepping(step, N, S)
    BY <1>3 DEF Stepping
  <2> HIDE DEF N
  <2> QED
    BY <1>1, <2>1, Recursion
<1>5. f = Body(f)
  <2>1. f = [n \in 0..N |-> f[n]]
    BY <1>4 DEF Stepwise
  <2>2. ASSUME NEW n \in 0..N, n # 0
        PROVE  f[n] = Level(n, f[n-1])
    <3>1. n \in 1..N /\ n - 1 \in 0..N
      BY <2>2
    <3>2. f[n-1] \in S /\ f[n] = step[<<n, f[n-1]>>]
      BY <1>4, <3>1 DEF Stepwise
    <3> QED
      BY <1>3, <3>1, <3>2
  <2>3. f[0] = First
    BY <1>4 DEF Stepwise
  <2> QED
    BY <2>1, <2>2, <2>3
<1>6. write = Body(write)
  <2> HIDE DEF Body
  <2> QED
    BY <1>5
<1> HIDE DEF write
<1>7. write[0] = First /\ \A n \in 1..N : write[n] = Level(n, write[n-1])
  BY <1>6
<1>8. Writes(write, G, y, N)
  <2> SUFFICES ASSUME NEW x \in Addr, NEW V \in SUBSET Addr
               PROVE  /\ ~write[0][x][V]
                      /\ \A n \in 1..N : write[n][x][V] /\ n # 1 =>
                           \E e \in G : e[1] = x /\ e[2] \notin V /\ write[n-1][e[2]][V \cup {x}]
    BY DEF Writes
  <2>1. ~First[x][V]
    BY DEF First
  <2>2. ASSUME NEW n, NEW g
        PROVE  Level(n, g)[x][V] /\ n # 1 =>
                 \E e \in G : e[1] = x /\ e[2] \notin V /\ g[e[2]][V \cup {x}]
    BY DEF Level
  <2>3. ASSUME NEW n \in 1..N
        PROVE  write[n][x][V] /\ n # 1 =>
                 \E e \in G : e[1] = x /\ e[2] \notin V /\ write[n-1][e[2]][V \cup {x}]
    <3>1. write[n] = Level(n, write[n-1])
      BY <1>7
    <3> QED
      BY <2>2, <3>1
  <2> QED
    BY <1>7, <2>1, <2>3
<1> QED
  BY <1>2, <1>8

LEMMA SearchStep ==
  ASSUME NEW f, NEW G, NEW y, NEW N, Searches(f, G, y, N),
         NEW n \in 1..N, NEW x \in Addr, x # y, NEW V \in SUBSET Addr, f[n][x][V]
  PROVE  \E e \in G : e[1] = x /\ e[2] \notin V /\ f[n-1][e[2]][V \cup {x}]
<1>1. \A m \in 1..N : f[m][x][V] <=>
        x = y \/ \E e \in G : e[1] = x /\ e[2] \notin V /\ f[m-1][e[2]][V \cup {x}]
  BY Zenon DEF Searches
<1> QED
  BY <1>1

(* If the search finds nothing, its starting point is in a set that the    *)
(* edges do not leave but to visited classes, and y is not.                *)
LEMMA SearchComplete ==
  ASSUME NEW f, NEW G, NEW y \in Addr, NEW N \in Nat, Searches(f, G, y, N), G \in SUBSET (Addr \X Addr),
         NEW x0 \in Addr, ~f[N][x0][{}]
  PROVE  ~Reaches(x0, y, G)
<1> DEFINE Avoids(S, V) == y \notin S /\ \A e \in G : e[1] \in S => e[2] \in S \cup V
           T == {n \in 0..N : \A x \in Addr, V \in SUBSET Addr :
                   ~f[n][x][V] => \E S \in SUBSET Addr : x \in S /\ Avoids(S, V)}
<1>1. 0 \in T
  <2>1. \A x \in Addr, V \in SUBSET Addr : f[0][x][V]
    BY DEF Searches
  <2>2. 0 \in 0..N
    OBVIOUS
  <2> HIDE DEF Avoids
  <2> QED
    BY <2>1, <2>2
<1>2. ASSUME NEW n \in 1..N, n - 1 \in T
      PROVE  n \in T
  <2> SUFFICES ASSUME NEW x \in Addr, NEW V \in SUBSET Addr, ~f[n][x][V]
               PROVE  \E S \in SUBSET Addr : x \in S /\ Avoids(S, V)
    OBVIOUS
  <2> DEFINE Found == {S \in SUBSET Addr : Avoids(S, V \cup {x})}
             S == {x} \cup UNION Found
  <2>1. x # y /\ \A e \in G : e[1] = x /\ e[2] \notin V => ~f[n-1][e[2]][V \cup {x}]
    BY DEF Searches
  <2>2. ASSUME NEW e \in G, e[1] = x, e[2] \notin V
        PROVE  e[2] \in S
    <3>1. e[2] \in Addr /\ V \cup {x} \in SUBSET Addr
      OBVIOUS
    <3>2. PICK R \in SUBSET Addr : e[2] \in R /\ Avoids(R, V \cup {x})
      <4>1. ~f[n-1][e[2]][V \cup {x}]
        BY <2>1, <2>2
      <4> HIDE DEF Avoids
      <4> QED
        BY <1>2, <3>1, <4>1
    <3> QED
      BY <3>2
  <2>3. ASSUME NEW e \in G, NEW R \in Found, e[1] \in R
        PROVE  e[2] \in S \cup V
    BY <2>3
  <2>4. S \in SUBSET Addr /\ x \in S /\ y \notin S
    BY <2>1
  <2>5. Avoids(S, V)
    BY <2>2, <2>3, <2>4
  <2> HIDE DEF S, Avoids
  <2> QED
    BY <2>4, <2>5
<1>3. N \in T
  <2> HIDE DEF T
  <2>1. \A n \in 0..N : n \in T
    BY <1>1, <1>2, Induct
  <2> QED
    BY <2>1
<1>4. PICK S \in SUBSET Addr : x0 \in S /\ Avoids(S, {})
  BY <1>3
<1> QED
  BY <1>4 DEF Reaches, Closed

Loopless(G) == \A x \in Addr : <<x, x>> \notin G

LEMMA Visiting ==
  ASSUME NEW V \in SUBSET Addr, NEW x \in Addr, x \notin V
  PROVE  /\ Cardinality(V) \in Nat /\ Cardinality(V \cup {x}) = Cardinality(V) + 1
         /\ Cardinality(V) < Cardinality(Addr) /\ Cardinality(Addr) \in Nat
<1>1. IsFiniteSet(Addr) /\ Cardinality(Addr) \in Nat
  BY LockdepAssumption, FS_CardinalityType DEF LockdepAssumption
<1>2. IsFiniteSet(V) /\ Cardinality(V) \in Nat /\ Cardinality(V) <= Cardinality(Addr)
      /\ (Cardinality(V) = Cardinality(Addr) => V = Addr)
  BY <1>1, FS_Subset, FS_CardinalityType
<1>3. Cardinality(V \cup {x}) = Cardinality(V) + 1
  BY <1>2, FS_AddElement
<1> QED
  BY <1>1, <1>2, <1>3

LEMMA SearchSound ==
  ASSUME NEW f, NEW G, NEW y \in Addr, NEW limit \in Nat, Cardinality(Addr) <= limit,
         Searches(f, G, y, limit + 1), G \in SUBSET (Addr \X Addr), Loopless(G),
         NEW x0 \in Addr, f[limit + 1][x0][{}]
  PROVE  Reaches(x0, y, G)
<1> DEFINE N == limit + 1
           T == {n \in 0..N : \A x \in Addr, V \in SUBSET Addr :
                   x \notin V /\ Cardinality(V) + n = N /\ f[n][x][V] => Reaches(x, y, G)}
<1>1. 0 \in T
  <2> SUFFICES ASSUME NEW x \in Addr, NEW V \in SUBSET Addr, x \notin V, Cardinality(V) + 0 = N
               PROVE  FALSE
    OBVIOUS
  <2>1. Cardinality(V) \in Nat /\ Cardinality(V) < Cardinality(Addr) /\ Cardinality(Addr) \in Nat
    BY Visiting
  <2> QED
    BY <2>1
<1>2. ASSUME NEW n \in 1..N, n - 1 \in T
      PROVE  n \in T
  <2> SUFFICES ASSUME NEW x \in Addr, NEW V \in SUBSET Addr, x \notin V,
                      Cardinality(V) + n = N, f[n][x][V]
               PROVE  Reaches(x, y, G)
    OBVIOUS
  <2>1. CASE x = y
    BY <2>1 DEF Reaches
  <2>2. CASE x # y
    <3>1. PICK e \in G : e[1] = x /\ e[2] \notin V /\ f[n-1][e[2]][V \cup {x}]
      BY <2>2, SearchStep
    <3>2. e[2] \in Addr /\ V \cup {x} \in SUBSET Addr /\ e[2] \notin V \cup {x} /\ e = <<x, e[2]>>
      BY <3>1 DEF Loopless
    <3>3. Cardinality(V \cup {x}) + (n - 1) = N
      BY Visiting
    <3>4. Reaches(e[2], y, G)
      BY <1>2, <3>1, <3>2, <3>3
    <3> QED
      BY <3>1, <3>4 DEF Reaches, Closed
  <2> QED
    BY <2>1, <2>2
<1>3. N \in T
  <2>1. N \in Nat
    OBVIOUS
  <2> HIDE DEF T, N
  <2>2. \A n \in 0..N : n \in T
    BY <1>1, <1>2, <2>1, Induct
  <2> QED
    BY <2>1, <2>2
<1>4. Cardinality({}) + N = N /\ x0 \notin {} /\ {} \in SUBSET Addr
  BY FS_EmptySet
<1> QED
  BY <1>3, <1>4


LEMMA WriteStep ==
  ASSUME NEW f, NEW G, NEW y, NEW N, Writes(f, G, y, N),
         NEW n \in 1..N, n # 1, NEW x \in Addr, NEW V \in SUBSET Addr, f[n][x][V]
  PROVE  \E e \in G : e[1] = x /\ e[2] \notin V /\ f[n-1][e[2]][V \cup {x}]
  BY DEF Writes

(* With at most limit classes no path is long enough for the write behind  *)
(* the buffer: that takes limit visited classes and one more.              *)
LEMMA SearchFits ==
  ASSUME NEW f, NEW G, NEW y \in Addr, NEW limit \in Nat, Cardinality(Addr) <= limit,
         Writes(f, G, y, limit + 1), G \in SUBSET (Addr \X Addr), Loopless(G), NEW x0 \in Addr
  PROVE  ~f[limit + 1][x0][{}]
<1> DEFINE N == limit + 1
           T == {n \in 0..N : \A x \in Addr, V \in SUBSET Addr :
                   x \notin V /\ Cardinality(V) + n = N => ~f[n][x][V]}
<1>1. 0 \in T
  <2>1. \A x \in Addr, V \in SUBSET Addr : ~f[0][x][V]
    BY DEF Writes
  <2>2. 0 \in 0..N
    OBVIOUS
  <2> QED
    BY <2>1, <2>2
<1>2. ASSUME NEW n \in 1..N, n - 1 \in T
      PROVE  n \in T
  <2> SUFFICES ASSUME NEW x \in Addr, NEW V \in SUBSET Addr, x \notin V,
                      Cardinality(V) + n = N, f[n][x][V]
               PROVE  FALSE
    OBVIOUS
  <2>1. CASE n = 1
    <3>1. Cardinality(V) \in Nat /\ Cardinality(V) < Cardinality(Addr) /\ Cardinality(Addr) \in Nat
      BY Visiting
    <3> QED
      BY <2>1, <3>1
  <2>2. CASE n # 1
    <3>1. PICK e \in G : e[1] = x /\ e[2] \notin V /\ f[n-1][e[2]][V \cup {x}]
      BY <2>2, WriteStep
    <3>2. e[2] \in Addr /\ V \cup {x} \in SUBSET Addr /\ e[2] \notin V \cup {x}
      BY <3>1 DEF Loopless
    <3>3. Cardinality(V \cup {x}) + (n - 1) = N
      BY Visiting
    <3> QED
      BY <1>2, <3>1, <3>2, <3>3
  <2> QED
    BY <2>1, <2>2
<1>3. N \in T
  <2>1. N \in Nat
    OBVIOUS
  <2> HIDE DEF T, N
  <2>2. \A n \in 0..N : n \in T
    BY <1>1, <1>2, <2>1, Induct
  <2> QED
    BY <2>1, <2>2
<1>4. Cardinality({}) + N = N /\ x0 \notin {} /\ {} \in SUBSET Addr
  BY FS_EmptySet
<1> QED
  BY <1>3, <1>4

LEMMA SearchAnswers ==
  ASSUME NEW G \in SUBSET (Addr \X Addr), Loopless(G), NEW x \in Addr, NEW y \in Addr, NEW limit \in Nat
  PROVE  /\ Reaches(x, y, G) => has_cycle_dfs(G, x, y, limit)
         /\ limit >= Cardinality(Addr) =>
              /\ has_cycle_dfs(G, x, y, limit) => Reaches(x, y, G)
              /\ ~Overruns(G, x, y, limit)
<1>1. PICK f : /\ Searches(f, G, y, limit + 1)
               /\ has_cycle_dfs(G, x, y, limit) = f[limit + 1][x][{}]
  BY SearchUnfolds
<1>2. PICK g : /\ Writes(g, G, y, limit + 1)
               /\ Overruns(G, x, y, limit) = g[limit + 1][x][{}]
  BY WritesUnfold
<1>3. limit + 1 \in Nat /\ Cardinality(Addr) \in Nat
  BY LockdepAssumption, FS_CardinalityType DEF LockdepAssumption
<1>4. ~f[limit + 1][x][{}] => ~Reaches(x, y, G)
  BY <1>1, <1>3, SearchComplete
<1>5. ASSUME limit >= Cardinality(Addr)
      PROVE  Cardinality(Addr) <= limit
  BY <1>3, <1>5
<1>6. ASSUME limit >= Cardinality(Addr), f[limit + 1][x][{}]
      PROVE  Reaches(x, y, G)
  BY <1>1, <1>5, <1>6, SearchSound
<1>7. ASSUME limit >= Cardinality(Addr)
      PROVE  ~g[limit + 1][x][{}]
  BY <1>2, <1>5, <1>7, SearchFits
<1> QED
  BY <1>1, <1>2, <1>4, <1>6, <1>7

LEMMA WouldCycle ==
  ASSUME NEW G \in SUBSET (Addr \X Addr), Loopless(G), NEW x \in Addr, NEW a \in Addr
  PROVE  would_create_cycle(x, a, G) <=> Reaches(a, x, G)
<1>1. MaxHeld \in Nat /\ Cardinality(Addr) \in Nat /\ Cardinality(Addr) <= MaxHeld
  BY LockdepAssumption, FS_CardinalityType DEF LockdepAssumption
<1> QED
  BY <1>1, SearchAnswers DEF would_create_cycle

-----------------------------------------------------------------------------
(* The walk, cell by cell.                                                 *)

Fitting(c, a) ==
  {i \in Passed(c, a) : Cardinality(graph) + Cardinality(Missing(c, a, 1..i)) <= MaxDeps}

Past(I, i) == {j \in I : j <= i}

WalkState == [granted : BOOLEAN, graph : SUBSET (Addr \X Addr), lost : BOOLEAN]

(* What the walk has done after i cells: it goes on as long as all of them *)
(* pass, it has added the edges that fit, and either none of those it got  *)
(* past was left out or the table is full.                                 *)
Walked(w, c, a, i) ==
  /\ w \in WalkState
  /\ w.granted <=> \A j \in 1..i : j \in Passed(c, a)
  /\ w.graph = graph \cup (Missing(c, a, Past(Fitting(c, a), i)) \X {a})
  /\ w.lost <=> Cardinality(graph) + Cardinality(Missing(c, a, Past(Passed(c, a), i))) > MaxDeps
  /\ \/ Past(Fitting(c, a), i) = Past(Passed(c, a), i)
     \/ Cardinality(w.graph) >= MaxDeps

(* Edges into a do not change what a reaches.                              *)
LEMMA ReachesBehind ==
  ASSUME NEW G, NEW a \in Addr, NEW x, NEW M
  PROVE  Reaches(a, x, G \cup (M \X {a})) <=> Reaches(a, x, G)
<1>1. \A S \in SUBSET Addr : a \in S => (Closed(S, G \cup (M \X {a})) <=> Closed(S, G))
  BY DEF Closed
<1> QED
  BY <1>1 DEF Reaches

LEMMA AcyclicLoopless ==
  ASSUME GraphAcyclic
  PROVE  Loopless(graph)
<1>1. ASSUME NEW x \in Addr
      PROVE  <<x, x>> \notin graph
  <2>1. {x} \in SUBSET Addr /\ {x} # {}
    OBVIOUS
  <2>2. \E z \in {x} : \A y \in {x} : <<y, z>> \notin graph
    BY <2>1 DEF GraphAcyclic
  <2> QED
    BY <2>2
<1> QED
  BY <1>1 DEF Loopless

LEMMA WantedClasses ==
  ASSUME LockdepTypeOK, NEW c \in Ctx, NEW a \in Addr, NEW I \in SUBSET DOMAIN held[c]
  PROVE  /\ Missing(c, a, I) \in SUBSET Addr
         /\ \A x : x \in Missing(c, a, I) <=>
              /\ x # a /\ <<x, a>> \notin graph
              /\ \E i \in I : x = Class(held[c][i])
         /\ IsFiniteSet(Missing(c, a, I)) /\ Cardinality(Missing(c, a, I)) \in Nat
<1>1. \A i \in I : Class(held[c][i]) \in Addr
  BY ClassType
<1>2. \A x : x \in Missing(c, a, I) <=>
        /\ x # a /\ <<x, a>> \notin graph
        /\ \E i \in I : x = Class(held[c][i])
  BY <1>1 DEF Missing
<1>3. Missing(c, a, I) \in SUBSET Addr
  BY <1>1, <1>2
<1> QED
  BY <1>2, <1>3, Counts

LEMMA RoundType ==
  ASSUME NEW w \in WalkState, NEW x \in Addr, NEW a \in Addr
  PROVE  Round(w, x, a) \in WalkState
<1>1. /\ [w EXCEPT !.granted = FALSE] \in WalkState
      /\ [w EXCEPT !.lost = TRUE] \in WalkState
  BY DEF WalkState
<1>2. [w EXCEPT !.graph = @ \cup {<<x, a>>}] \in WalkState
  <2>1. w.graph \cup {<<x, a>>} \in SUBSET (Addr \X Addr)
    BY DEF WalkState
  <2> QED
    BY <2>1 DEF WalkState
<1> QED
  BY <1>1, <1>2 DEF Round

LEMMA PastAll ==
  ASSUME NEW N \in Nat, NEW I, I \subseteq 1..N
  PROVE  Past(I, 0) = {} /\ Past(I, N) = I
<1>1. \A i \in I : i \in Nat /\ ~(i <= 0) /\ i <= N
  OBVIOUS
<1> QED
  BY <1>1 DEF Past

LEMMA WalkRound ==
  ASSUME LockdepTypeOK, GraphAcyclic, NEW c \in Ctx, NEW a \in Addr, NEW i \in DOMAIN held[c],
         NEW w, Walked(w, c, a, i - 1)
  PROVE  Walked(Round(w, Class(held[c][i]), a), c, a, i)
<1> DEFINE x == Class(held[c][i])
           P == Passed(c, a)
           R == Fitting(c, a)
           PB == Past(P, i - 1)
           RB == Past(R, i - 1)
           WP == Missing(c, a, PB)
           WR == Missing(c, a, RB)
           WPi == Missing(c, a, Past(P, i))
           WRi == Missing(c, a, Past(R, i))
           v == Round(w, x, a)
           n == Cardinality(graph)
<1>1. /\ DOMAIN held[c] = 1..Len(held[c]) /\ Len(held[c]) \in Nat
      /\ i \in 1..Len(held[c]) /\ i \in Nat /\ i - 1 \in Nat /\ i \in 1..i
  BY DEF LockdepTypeOK
<1>2. x \in Addr
  BY ClassType
<1>3. R \subseteq P /\ P \subseteq DOMAIN held[c]
  BY DEF Fitting, Passed
<1>4. \A j \in P : \A k \in 1..j : k \in P /\ ~Conflicts(Class(held[c][k]), a)
  BY <1>1 DEF Passed
<1>5. i \in P <=> (\A j \in 1..(i-1) : j \in P) /\ ~Conflicts(x, a)
  <2>1. i \in P => \A j \in 1..(i-1) : j \in P
    BY <1>1, <1>4
  <2>2. i \in P => ~Conflicts(x, a)
    BY <1>1, <1>4
  <2>3. ASSUME \A j \in 1..(i-1) : j \in P, ~Conflicts(x, a)
        PROVE  i \in P
    <3>1. \A j \in 1..i : j = i \/ j \in 1..(i-1)
      BY <1>1
    <3>2. \A j \in 1..(i-1) : j \in 1..j
      BY <1>1
    <3>3. \A j \in 1..i : ~Conflicts(Class(held[c][j]), a)
      BY <1>4, <2>3, <3>1, <3>2
    <3> QED
      BY <3>3 DEF Passed
  <2> QED
    BY <2>1, <2>2, <2>3
<1>6. i \in R <=> i \in P /\ n + Cardinality(Missing(c, a, 1..i)) <= MaxDeps
  BY DEF Fitting
<1>7. /\ Past(P, i) = IF i \in P THEN PB \cup {i} ELSE PB
      /\ Past(R, i) = IF i \in R THEN RB \cup {i} ELSE RB
  <2>1. \A j \in P : j <= i <=> j <= i - 1 \/ j = i
    BY <1>1, <1>3
  <2>2. \A j \in R : j <= i <=> j <= i - 1 \/ j = i
    BY <1>3, <2>1
  <2> HIDE DEF P, R
  <2> QED
    BY <1>1, <2>1, <2>2 DEF Past
<1>8. (\A j \in 1..i : j \in P) <=> i \in P
  BY <1>1, <1>4
<1>9. /\ w \in WalkState
      /\ w.granted <=> \A j \in 1..(i-1) : j \in P
      /\ w.graph = graph \cup (WR \X {a})
      /\ w.lost <=> n + Cardinality(WP) > MaxDeps
      /\ RB = PB \/ Cardinality(w.graph) >= MaxDeps
  BY DEF Walked
<1>10. /\ PB \in SUBSET DOMAIN held[c] /\ RB \in SUBSET PB
       /\ Past(P, i) \in SUBSET DOMAIN held[c] /\ Past(R, i) \in SUBSET DOMAIN held[c]
       /\ 1..i \in SUBSET DOMAIN held[c]
  <2> HIDE DEF P, R
  <2> QED
    BY <1>1, <1>3 DEF Past
<1>11. /\ WP \in SUBSET Addr /\ WR \in SUBSET Addr /\ Missing(c, a, 1..i) \in SUBSET Addr
       /\ Cardinality(WP) \in Nat /\ Cardinality(WR) \in Nat /\ IsFiniteSet(WR)
       /\ Cardinality(Missing(c, a, 1..i)) \in Nat
       /\ n \in Nat /\ MaxDeps \in Nat
  <2>1. RB \in SUBSET DOMAIN held[c]
    BY <1>10
  <2> HIDE DEF PB, RB, n
  <2>2. n \in Nat /\ MaxDeps \in Nat
    BY Counts, LockdepAssumption DEF LockdepAssumption, n
  <2> QED
    BY <1>10, <2>1, <2>2, WantedClasses
<1>12. w.granted => PB = 1..(i-1)
  <2>1. \A j \in P : j \in Nat /\ j >= 1
    BY <1>1, <1>3
  <2> HIDE DEF P
  <2> QED
    BY <1>1, <1>9, <2>1 DEF Past
<1>13. /\ \A z : z \in WR <=> z # a /\ <<z, a>> \notin graph /\ \E j \in RB : z = Class(held[c][j])
       /\ \A z : z \in WP <=> z # a /\ <<z, a>> \notin graph /\ \E j \in PB : z = Class(held[c][j])
       /\ \A z : z \in Missing(c, a, 1..i) <=>
                   z # a /\ <<z, a>> \notin graph /\ \E j \in 1..i : z = Class(held[c][j])
  <2>1. RB \in SUBSET DOMAIN held[c]
    BY <1>10
  <2> HIDE DEF PB, RB
  <2>2. ASSUME NEW I \in SUBSET DOMAIN held[c]
        PROVE  \A z : z \in Missing(c, a, I) <=>
                 z # a /\ <<z, a>> \notin graph /\ \E j \in I : z = Class(held[c][j])
    BY WantedClasses
  <2> QED
    BY <1>10, <2>1, <2>2
<1>14. Cardinality(w.graph) = n + Cardinality(WR)
  <2>1. \A z \in WR : <<z, a>> \notin graph
    BY <1>13
  <2> HIDE DEF WR
  <2> QED
    BY <1>9, <1>11, <2>1, EdgesAdded DEF n
<1>15. /\ WPi = IF i \in P THEN WP \cup ({x} \ ({a} \cup {z \in Addr : <<z, a>> \in graph})) ELSE WP
       /\ WRi = IF i \in R THEN WR \cup ({x} \ ({a} \cup {z \in Addr : <<z, a>> \in graph})) ELSE WR
  <2> HIDE DEF P, R, PB, RB
  <2> QED
    BY <1>7 DEF Missing
<1> HIDE DEF x, P, R, PB, RB, WP, WR, WPi, WRi, n, v
<1> DEFINE Done == /\ v.granted <=> i \in P
                   /\ v.graph = graph \cup (WRi \X {a})
                   /\ v.lost <=> n + Cardinality(WPi) > MaxDeps
                   /\ Past(R, i) = Past(P, i) \/ Cardinality(v.graph) >= MaxDeps
<1>16. ASSUME ~w.granted
       PROVE  Done
  <2>1. i \notin P /\ i \notin R
    BY <1>3, <1>5, <1>9, <1>16
  <2>2. v = w
    BY <1>16 DEF Round, v
  <2> QED
    BY <1>7, <1>9, <1>15, <1>16, <2>1, <2>2
<1>17. ASSUME w.granted /\ (x = a \/ <<x, a>> \in w.graph)
       PROVE  Done
  <2>1. v = w
    BY <1>17 DEF Round, v
  <2>2. x = a \/ <<x, a>> \in graph \/ x \in WR
    BY <1>9, <1>17
  <2>3. ~Conflicts(x, a)
    <3>1. CASE x \in WR
      <4>1. PICK j \in RB : x = Class(held[c][j])
        BY <1>13, <3>1
      <4>2. j \in 1..(i-1)
        BY <1>10, <1>12, <1>17, <4>1
      <4>3. j \in P /\ j \in 1..j
        BY <1>1, <1>9, <1>17, <4>2
      <4> QED
        BY <1>4, <4>1, <4>3
    <3>2. CASE x = a \/ <<x, a>> \in graph
      BY <3>2 DEF Conflicts
    <3> QED
      BY <2>2, <3>1, <3>2
  <2>4. i \in P
    BY <1>5, <1>9, <1>17, <2>3
  <2>5. WR \subseteq WP
    BY <1>10, <1>13
  <2>6. WPi = WP /\ WRi = WR
    BY <1>2, <1>15, <2>2, <2>5
  <2>7. RB = PB /\ i \notin R => Cardinality(w.graph) >= MaxDeps
    <3>1. ASSUME RB = PB, i \notin R
          PROVE  Cardinality(w.graph) >= MaxDeps
      <4>1. ~(n + Cardinality(Missing(c, a, 1..i)) <= MaxDeps)
        BY <1>6, <2>4, <3>1
      <4>2. Missing(c, a, 1..i) \subseteq WR
        <5>1. ASSUME NEW z \in Missing(c, a, 1..i)
              PROVE  z \in WR
          <6>1. PICK j \in 1..i : z = Class(held[c][j]) /\ z # a /\ <<z, a>> \notin graph
            BY <1>13
          <6>2. CASE j = i
            BY <2>2, <6>1, <6>2 DEF x
          <6>3. CASE j # i
            <7>1. j \in RB
              BY <1>1, <1>12, <1>17, <3>1, <6>3
            <7> QED
              BY <1>13, <6>1, <7>1
          <6> QED
            BY <6>2, <6>3
        <5> QED
          BY <5>1
      <4>3. Cardinality(Missing(c, a, 1..i)) <= Cardinality(WR)
        BY <1>11, <4>2, Counts
      <4> QED
        BY <1>11, <1>14, <4>1, <4>3
    <3> QED
      BY <3>1
  <2>8. Past(R, i) = Past(P, i) \/ Cardinality(v.graph) >= MaxDeps
    BY <1>7, <1>9, <2>1, <2>4, <2>7
  <2> QED
    BY <1>9, <1>17, <2>1, <2>4, <2>6, <2>8
<1>18. ASSUME w.granted /\ ~(x = a \/ <<x, a>> \in w.graph)
       PROVE  Done
  <2>1. would_create_cycle(x, a, w.graph) <=> i \notin P
    <3>1. w.graph \in SUBSET (Addr \X Addr)
      BY <1>9 DEF WalkState
    <3>2. Loopless(w.graph)
      BY <1>9, <1>13, AcyclicLoopless DEF Loopless
    <3>3. would_create_cycle(x, a, w.graph) <=> Reaches(a, x, w.graph)
      BY <1>2, <3>1, <3>2, WouldCycle
    <3>4. Reaches(a, x, w.graph) <=> Reaches(a, x, graph)
      BY <1>9, ReachesBehind
    <3>5. x # a /\ <<x, a>> \notin graph
      BY <1>9, <1>18
    <3> QED
      BY <1>5, <1>9, <1>18, <3>3, <3>4, <3>5 DEF Conflicts
  <2>2. x \notin WR /\ x # a /\ <<x, a>> \notin graph
    BY <1>2, <1>9, <1>18
  <2>3. CASE i \notin P
    <3>1. v = [w EXCEPT !.granted = FALSE]
      BY <1>18, <2>1, <2>3 DEF Round, v
    <3>2. ~v.granted /\ v.graph = w.graph /\ v.lost = w.lost
      BY <1>9, <3>1 DEF WalkState
    <3>3. i \notin R
      BY <1>3, <2>3
    <3> QED
      BY <1>7, <1>9, <1>15, <2>3, <3>2, <3>3
  <2>4. CASE i \in P /\ Cardinality(w.graph) >= MaxDeps
    <3>1. v = [w EXCEPT !.lost = TRUE]
      BY <1>18, <2>1, <2>4 DEF Round, v
    <3>2. v.granted /\ v.graph = w.graph /\ v.lost
      BY <1>9, <1>18, <3>1 DEF WalkState
    <3>3. WR \cup {x} \subseteq Missing(c, a, 1..i)
      <4>1. \A j \in RB : j \in 1..i
        BY <1>1, <1>10, <1>12, <1>18
      <4>2. x \in Missing(c, a, 1..i)
        BY <1>1, <1>13, <2>2 DEF x
      <4> QED
        BY <1>13, <4>1, <4>2
    <3>4. Cardinality(WR \cup {x}) <= Cardinality(Missing(c, a, 1..i))
      BY <1>2, <1>11, <3>3, Counts
    <3>5. Cardinality(WR \cup {x}) = Cardinality(WR) + 1
      BY <1>11, <2>2, FS_AddElement
    <3>6. n + Cardinality(Missing(c, a, 1..i)) > MaxDeps
      BY <1>11, <1>14, <2>4, <3>4, <3>5
    <3>7. i \notin R
      BY <1>6, <1>11, <3>6
    <3>8. WPi = Missing(c, a, 1..i)
      <4>1. Past(P, i) = 1..i
        BY <1>1, <1>7, <1>12, <1>18, <2>4
      <4> QED
        BY <4>1 DEF WPi
    <3> QED
      BY <1>9, <1>15, <2>4, <3>2, <3>6, <3>7, <3>8
  <2>5. CASE i \in P /\ ~(Cardinality(w.graph) >= MaxDeps)
    <3>1. v = [w EXCEPT !.graph = w.graph \cup {<<x, a>>}]
      BY <1>18, <2>1, <2>5 DEF Round, v
    <3>2. v.granted /\ v.graph = w.graph \cup {<<x, a>>} /\ v.lost = w.lost
      BY <1>9, <1>18, <3>1 DEF WalkState
    <3>3. RB = PB /\ WR = WP /\ PB = 1..(i-1)
      BY <1>9, <1>12, <1>18, <2>5 DEF WR, WP
    <3>4. Missing(c, a, 1..i) = WP \cup {x} /\ Past(P, i) = 1..i
      <4>1. Past(P, i) = 1..i
        BY <1>1, <1>7, <2>5, <3>3
      <4>2. WPi = WP \cup {x}
        BY <1>15, <2>2, <2>5
      <4> QED
        BY <4>1, <4>2 DEF WPi
    <3>5. Cardinality(WP \cup {x}) = Cardinality(WP) + 1
      BY <1>11, <2>2, <3>3, FS_AddElement
    <3>6. i \in R
      <4>1. n + Cardinality(Missing(c, a, 1..i)) = Cardinality(w.graph) + 1
        <5>1. Cardinality(Missing(c, a, 1..i)) = Cardinality(WP) + 1
          BY <3>4, <3>5
        <5>2. Cardinality(w.graph) = n + Cardinality(WP)
          BY <1>14, <3>3
        <5> QED
          BY <1>11, <5>1, <5>2
      <4>2. Cardinality(w.graph) \in Nat
        BY <1>11, <1>14
      <4> QED
        BY <1>6, <1>11, <2>5, <4>1, <4>2
    <3>7. WPi = WP \cup {x} /\ WRi = WR \cup {x}
      BY <1>15, <2>2, <2>5, <3>6
    <3>8. v.graph = graph \cup (WRi \X {a})
      BY <1>9, <3>2, <3>7
    <3>9. ~w.lost /\ ~(n + Cardinality(WPi) > MaxDeps)
      BY <1>9, <1>11, <1>14, <2>5, <3>3, <3>5, <3>7
    <3>10. Past(R, i) = Past(P, i)
      BY <1>7, <2>5, <3>3, <3>6
    <3> QED
      BY <2>5, <3>2, <3>8, <3>9, <3>10
  <2> QED
    BY <2>3, <2>4, <2>5
<1>19. v \in WalkState
  BY <1>2, <1>9, RoundType DEF v
<1>20. Done
  BY <1>16, <1>17, <1>18
<1> QED
  BY <1>8, <1>19, <1>20 DEF Walked, v, x, P, R, WPi, WRi, n

Rounds(f, c, a) ==
  /\ f[0] = [granted |-> TRUE, graph |-> graph, lost |-> FALSE]
  /\ \A i \in DOMAIN held[c] : f[i] = Round(f[i-1], Class(held[c][i]), a)

LEMMA WalkUnfolds ==
  ASSUME LockdepTypeOK, NEW c \in Ctx, NEW a \in Addr
  PROVE  \E f : Rounds(f, c, a) /\ Walk(held[c], a, graph) = f[Len(held[c])]
<1> DEFINE N == Len(held[c])
           First == [granted |-> TRUE, graph |-> graph, lost |-> FALSE]
           Next1(i, w) == Round(w, Class(held[c][i]), a)
           Body(f) == [i \in 0..N |-> IF i = 0 THEN First ELSE Next1(i, f[i-1])]
           walked == CHOOSE f : f = Body(f)
           S == WalkState
           step == [p \in (1..N) \X S |-> Next1(p[1], p[2])]
<1>1. DOMAIN held[c] = 1..N /\ N \in Nat
  BY DEF LockdepTypeOK
<1>2. First \in S
  BY DEF LockdepTypeOK, WalkState
<1>3. ASSUME NEW i \in 1..N, NEW w \in S
      PROVE  Next1(i, w) \in S
  <2>1. Class(held[c][i]) \in Addr
    BY <1>1, ClassType
  <2> QED
    BY <2>1, RoundType
<1>4. Walk(held[c], a, graph) = walked[N]
  BY DEF Walk
<1> HIDE DEF N, First, Next1, S
<1>5. step \in [(1..N) \X S -> S] /\ \A i \in 1..N, w \in S : step[<<i, w>>] = Next1(i, w)
  BY <1>3
<1> HIDE DEF step
<1>6. PICK f : Stepwise(f, N, S, First, step)
  <2>1. Stepping(step, N, S)
    BY <1>5 DEF Stepping
  <2> QED
    BY <1>1, <1>2, <2>1, Recursion
<1>7. f = Body(f)
  <2>1. f = [i \in 0..N |-> f[i]] /\ f[0] = First
    BY <1>6 DEF Stepwise
  <2>2. ASSUME NEW i \in 0..N, i # 0
        PROVE  f[i] = Next1(i, f[i-1])
    <3>1. i \in 1..N /\ i - 1 \in 0..N
      BY <1>1, <2>2
    <3>2. f[i-1] \in S /\ f[i] = step[<<i, f[i-1]>>]
      BY <1>6, <3>1 DEF Stepwise
    <3> QED
      BY <1>5, <3>1, <3>2
  <2> QED
    BY <2>1, <2>2
<1>8. walked = Body(walked)
  <2> HIDE DEF Body
  <2> QED
    BY <1>7
<1> HIDE DEF walked
<1>9. walked[0] = First /\ \A i \in 1..N : walked[i] = Next1(i, walked[i-1])
  BY <1>1, <1>8
<1>10. Rounds(walked, c, a)
  BY <1>1, <1>9 DEF Rounds, First, Next1
<1> QED
  BY <1>4, <1>10 DEF N

LEMMA WalkComputes ==
  ASSUME LockdepTypeOK, GraphAcyclic, TableOK, NEW c \in Ctx, NEW a \in Addr
  PROVE  LET w == Walk(held[c], a, graph) IN
         /\ w.granted = ~Denies(c, a)
         /\ w.graph = graph \cup Recorded(c, a)
         /\ w.lost = TableFull(c, a)
<1> DEFINE N == Len(held[c])
           P == Passed(c, a)
           w == Walk(held[c], a, graph)
<1>1. PICK f : Rounds(f, c, a) /\ w = f[N]
  BY WalkUnfolds
<1>2. DOMAIN held[c] = 1..N /\ N \in Nat /\ P \subseteq 1..N /\ Fitting(c, a) \subseteq 1..N
  BY DEF LockdepTypeOK, Passed, Fitting
<1> DEFINE T == {i \in 0..N : Walked(f[i], c, a, i)}
<1>3. 0 \in T
  <2>1. Past(Fitting(c, a), 0) = {} /\ Past(P, 0) = {}
    <3> HIDE DEF P, N
    <3> QED
      BY <1>2, PastAll
  <2>2. Missing(c, a, {}) = {} /\ Cardinality({}) = 0
    BY FS_EmptySet DEF Missing
  <2>3. Cardinality(graph) \in Nat /\ MaxDeps \in Nat /\ Cardinality(graph) <= MaxDeps
    BY Counts, LockdepAssumption DEF LockdepAssumption, TableOK
  <2>4. f[0] \in WalkState
    BY <1>1 DEF Rounds, WalkState, LockdepTypeOK
  <2>5. Walked(f[0], c, a, 0)
    <3>1. f[0].granted = TRUE /\ f[0].graph = graph /\ f[0].lost = FALSE
      BY <1>1 DEF Rounds
    <3>2. \A j \in 1..0 : j \in P
      OBVIOUS
    <3>3. f[0].graph = graph \cup (Missing(c, a, Past(Fitting(c, a), 0)) \X {a})
      BY <2>1, <2>2, <3>1
    <3>4. ~(Cardinality(graph) + Cardinality(Missing(c, a, Past(P, 0))) > MaxDeps)
      <4>1. Cardinality(Missing(c, a, Past(P, 0))) = 0
        BY <2>1, <2>2
      <4> HIDE DEF P
      <4> QED
        BY <2>3, <4>1
    <3> QED
      BY <2>1, <2>4, <3>1, <3>2, <3>3, <3>4 DEF Walked
  <2> QED
    BY <1>2, <2>5
<1>4. ASSUME NEW i \in 1..N, i - 1 \in T
      PROVE  i \in T
  <2>1. Walked(Round(f[i-1], Class(held[c][i]), a), c, a, i)
    BY <1>2, <1>4, WalkRound
  <2>2. f[i] = Round(f[i-1], Class(held[c][i]), a)
    BY <1>1, <1>2 DEF Rounds
  <2> QED
    BY <1>2, <2>1, <2>2
<1>5. Walked(w, c, a, N)
  <2> HIDE DEF T, N
  <2>1. \A i \in 0..N : i \in T
    BY <1>2, <1>3, <1>4, Induct
  <2> QED
    BY <1>1, <1>2, <2>1 DEF T
<1>6. Past(Fitting(c, a), N) = Fitting(c, a) /\ Past(P, N) = P
  <2> HIDE DEF P, N
  <2> QED
    BY <1>2, PastAll
<1>7. Denies(c, a) <=> ~\A j \in 1..N : j \in P
  <2>1. \A j \in 1..N : 1..j \subseteq 1..N /\ j \in 1..j
    BY <1>2
  <2> QED
    BY <1>2, <2>1 DEF Denies, HeldClasses, Passed
<1>8. w.granted \in BOOLEAN /\ w.lost \in BOOLEAN
  BY <1>5 DEF Walked, WalkState
<1>9. w.granted = ~Denies(c, a)
  <2> HIDE DEF w, N
  <2> QED
    BY <1>5, <1>7, <1>8, Zenon DEF Walked
<1>10. w.graph = graph \cup Recorded(c, a)
  BY <1>5, <1>6 DEF Walked, Recorded, Fitting
<1>11. w.lost = TableFull(c, a)
  <2>1. w.lost <=> TableFull(c, a)
    BY <1>5, <1>6 DEF Walked, TableFull
  <2> QED
    BY <1>8, <2>1 DEF TableFull
<1> QED
  BY <1>9, <1>10, <1>11

(* The invariant of the walks: the edges are between classes, acyclic, and *)
(* not more than the table holds.                                          *)
SearchInv == LockdepTypeOK /\ GraphAcyclic /\ TableOK

LEMMA SearchInvInit == SearchInit => SearchInv
<1> SUFFICES ASSUME SearchInit
             PROVE  SearchInv
  OBVIOUS
<1> USE DEF SearchInit, LockdepInit
<1>1. LockdepTypeOK
  <2>1. 0 \in 0..(Word - 1) /\ <<>> \in Seq(Cell)
    BY LockdepAssumption DEF LockdepAssumption
  <2> QED
    BY <2>1 DEF LockdepTypeOK
<1>2. GraphAcyclic
  BY DEF GraphAcyclic
<1>3. TableOK
  BY FS_EmptySet, LockdepAssumption DEF TableOK, LockdepAssumption
<1> QED
  BY <1>1, <1>2, <1>3 DEF SearchInv

LEMMA SearchInvStep == SearchInv /\ [SearchNext]_lockdepVars => SearchInv'
<1> SUFFICES ASSUME SearchInv, [SearchNext]_lockdepVars
             PROVE  SearchInv'
  OBVIOUS
<1> USE DEF SearchInv
<1>1. ASSUME NEW c \in Ctx, NEW a \in Addr, Attempt(c, a)
      PROVE  SearchInv'
  <2>1. WalkHeld(c, a)
    BY <1>1, WalkComputes DEF Attempt, WalkHeld
  <2>2. LockdepTypeOK'
    <3>1. graph' \subseteq Addr \X Addr
      BY <2>1, WalkType
    <3>2. Lists \subseteq Seq(Cell)
      BY SearchAssumption DEF Lists, SearchAssumption
    <3>3. held' \in [Ctx -> Seq(Cell)]
      BY <1>1, <3>2 DEF Attempt
    <3>4. count' \in [Ctx -> 0..(Word - 1)]
      BY <1>1 DEF Attempt, LockdepTypeOK
    <3>5. dropped' \in BOOLEAN
      BY <1>1 DEF Attempt
    <3> QED
      BY <3>1, <3>3, <3>4, <3>5 DEF LockdepTypeOK
  <2>3. GraphAcyclic' /\ TableOK'
    BY <2>1, WalkAcyclic, WalkFills
  <2> QED
    BY <2>2, <2>3
<1>2. CASE UNCHANGED lockdepVars
  BY <1>2 DEF lockdepVars, LockdepTypeOK, GraphAcyclic, TableOK
<1> QED
  BY <1>1, <1>2 DEF SearchNext

LEMMA SearchInvariant == SearchSpec => []SearchInv
<1> QED
  BY SearchInvInit, SearchInvStep, PTL DEF SearchSpec

(* Acquisitions that check and add one edge at a time, against any held    *)
(* lists, never close a cycle in the dependency graph.                     *)
THEOREM WalksStayAcyclic == SearchSpec => []GraphAcyclic
<1>1. SearchInv => GraphAcyclic
  BY DEF SearchInv
<1> QED
  BY <1>1, SearchInvariant, PTL

(* has_cycle_dfs, its depth limit and its visited buffer included, answers *)
(* whether one class can be reached from another, for every limit that is  *)
(* at least the number of classes; it finds every path for any limit.      *)
THEOREM SearchCorrect == SearchSpec => []SearchIsReachability
<1>1. SearchInv => SearchIsReachability
  <2> SUFFICES ASSUME SearchInv, NEW x \in Addr, NEW y \in Addr, NEW limit \in 0..MaxHeld
               PROVE  /\ Reaches(x, y, graph) => has_cycle_dfs(graph, x, y, limit)
                      /\ limit >= Cardinality(Addr) =>
                           /\ has_cycle_dfs(graph, x, y, limit) => Reaches(x, y, graph)
                           /\ ~Overruns(graph, x, y, limit)
    BY DEF SearchIsReachability
  <2>1. graph \in SUBSET (Addr \X Addr) /\ Loopless(graph) /\ limit \in Nat
    BY AcyclicLoopless, LockdepAssumption DEF SearchInv, LockdepTypeOK, LockdepAssumption
  <2> QED
    BY <2>1, SearchAnswers
<1> QED
  BY <1>1, SearchInvariant, PTL

(* The loop of lockdep_lock_acquire, one check and one edge at a time,     *)
(* comes to the verdict, the edges and the loss that Lockdep states in one *)
(* step, for held lists of any length.                                     *)
THEOREM WalkCorrect == SearchSpec => []WalkIsOneStep
<1>1. SearchInv => WalkIsOneStep
  <2> SUFFICES ASSUME SearchInv, NEW c \in Ctx, NEW a \in Addr
               PROVE  LET w == Walk(held[c], a, graph) IN
                      /\ w.granted = ~Denies(c, a)
                      /\ w.graph = graph \cup Recorded(c, a)
                      /\ w.lost = TableFull(c, a)
    BY DEF WalkIsOneStep
  <2> QED
    BY WalkComputes DEF SearchInv
<1> QED
  BY <1>1, SearchInvariant, PTL

=============================================================================
