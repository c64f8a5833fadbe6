-------------------------- MODULE CollectorProofs --------------------------
(***************************************************************************)
(* Theorems of Collector: the lists of objects tile the heap, no pointer   *)
(* of the program dangles, a collection frees exactly what is unreachable, *)
(* and malloc with garbage collection implements malloc.                   *)
(***************************************************************************)
EXTENDS Collector, DataLemmas

-----------------------------------------------------------------------------
(* Reachability as the least set of blocks that holds the targets of the   *)
(* values V and those of its own words.                                    *)
Inner(M, X) == {M[w] : w \in WordsOf(X)}
Closed(V, M, B, X) ==
  /\ X \in SUBSET B
  /\ Targets(V, B) \subseteq X
  /\ Targets(Inner(M, X), B) \subseteq X
LeastClosed(V, M, B, X) ==
  Closed(V, M, B, X) /\ \A Y : Closed(V, M, B, Y) => X \subseteq Y

Grown(M, B, X) == X \cup Targets(Inner(M, X), B)

LEMMA InnerGrows ==
  ASSUME NEW M, NEW B, NEW X, NEW Y, X \subseteq Y
  PROVE  /\ Inner(M, X) \subseteq Inner(M, Y)
         /\ Targets(Inner(M, X), B) \subseteq Targets(Inner(M, Y), B)
<1>1. WordsOf(X) \subseteq WordsOf(Y)
  BY DEF WordsOf
<1>2. Inner(M, X) \subseteq Inner(M, Y)
  BY <1>1 DEF Inner
<1> QED
  BY <1>2 DEF Targets

(* Every function that grows the targets of V step by step as often as     *)
(* there are blocks ends in the least closed set.                          *)
Iterate(f, V, M, B, N) ==
  /\ f \in [0..N -> SUBSET B]
  /\ f[0] = Targets(V, B)
  /\ \A n \in 1..N : f[n] = Grown(M, B, f[n-1])

LEMMA Iterated ==
  ASSUME NEW V, NEW M, NEW B, IsFiniteSet(B), NEW N \in Nat, Cardinality(B) <= N,
         NEW f, Iterate(f, V, M, B, N)
  PROVE  LeastClosed(V, M, B, f[N])
<1> USE DEF Iterate
<1> DEFINE step == [X \in SUBSET B |-> Grown(M, B, X)]
<1>1. \A X \in SUBSET B : Grown(M, B, X) \in SUBSET B /\ X \subseteq Grown(M, B, X)
  BY DEF Grown, Targets
<1>2. /\ step \in [SUBSET B -> SUBSET B]
      /\ \A X \in SUBSET B : step[X] = Grown(M, B, X) /\ X \subseteq step[X]
  BY <1>1
<1> HIDE DEF step
<1>3. \A n \in 1..N : f[n] = step[f[n-1]]
  BY <1>2
<1>4. step[f[N]] = f[N]
  <2>1. Growing(step, B) /\ Stages(f, N, B, step)
    BY <1>2, <1>3 DEF Growing, Stages
  <2> QED
    BY <2>1, Closure
<1>5. f[N] \in SUBSET B /\ Grown(M, B, f[N]) = f[N]
  BY <1>2, <1>4
<1>6. Targets(V, B) \subseteq f[N]
  <2> DEFINE T == {n \in 0..N : Targets(V, B) \subseteq f[n]}
  <2>1. 0 \in T
    OBVIOUS
  <2>2. \A n \in 1..N : n - 1 \in T => n \in T
    BY DEF Grown
  <2> HIDE DEF T
  <2>3. N \in T
    BY <2>1, <2>2, Induct
  <2> QED
    BY <2>3 DEF T
<1>7. Closed(V, M, B, f[N])
  BY <1>5, <1>6 DEF Closed, Grown
<1>8. ASSUME NEW Y, Closed(V, M, B, Y)
      PROVE  f[N] \subseteq Y
  <2> DEFINE T == {n \in 0..N : f[n] \subseteq Y}
  <2>1. 0 \in T
    BY <1>8 DEF Closed
  <2>2. ASSUME NEW n \in 1..N, n - 1 \in T
        PROVE  n \in T
    <3>1. f[n-1] \subseteq Y /\ f[n] = Grown(M, B, f[n-1])
      BY <2>2
    <3>2. Targets(Inner(M, f[n-1]), B) \subseteq Targets(Inner(M, Y), B)
      BY <3>1, InnerGrows
    <3> QED
      BY <1>8, <3>1, <3>2 DEF Closed, Grown
  <2> HIDE DEF T
  <2>3. N \in T
    <3>1. \A n \in 1..N : n - 1 \in T => n \in T
      BY <2>2
    <3>2. \A n \in 0..N : n \in T
      BY <2>1, <3>1, Induct
    <3> QED
      BY <3>2
  <2> QED
    BY <2>3 DEF T
<1> QED
  BY <1>7, <1>8 DEF LeastClosed

(* Such functions exist.                                                   *)
LEMMA Iterates ==
  ASSUME NEW V, NEW M, NEW B, NEW N \in Nat
  PROVE  \E f : Iterate(f, V, M, B, N)
<1> DEFINE S == SUBSET B
           step == [p \in (1..N) \X S |-> Grown(M, B, p[2])]
           s0 == Targets(V, B)
<1>1. s0 \in S /\ \A X \in S : Grown(M, B, X) \in S
  BY DEF Grown, Targets
<1>2. /\ step \in [(1..N) \X S -> S]
      /\ \A n \in 1..N, X \in S : step[<<n, X>>] = Grown(M, B, X)
  BY <1>1
<1> HIDE DEF S, step, s0
<1>3. PICK f : Stepwise(f, N, S, s0, step)
  <2>1. s0 \in S /\ Stepping(step, N, S)
    BY <1>1, <1>2 DEF Stepping
  <2> QED
    BY <2>1, Recursion
<1>4. ASSUME NEW n \in 1..N
      PROVE  f[n] = Grown(M, B, f[n-1])
  <2>1. n - 1 \in 0..N /\ f[n-1] \in S /\ f[n] = step[<<n, f[n-1]>>]
    BY <1>3 DEF Stepwise
  <2> QED
    BY <1>2, <2>1
<1> QED
  BY <1>3, <1>4 DEF S, s0, Stepwise, Iterate

LEMMA LeastReached ==
  ASSUME NEW V, NEW M, NEW B, IsFiniteSet(B)
  PROVE  LeastClosed(V, M, B, Reached(V, M, B))
<1> DEFINE N == Cardinality(B)
           Body(f) == [n \in 0..N |->
             IF n = 0 THEN Targets(V, B) ELSE f[n-1] \cup Targets({M[w] : w \in WordsOf(f[n-1])}, B)]
           reach == CHOOSE f : f = Body(f)
<1>1. N \in Nat /\ Cardinality(B) <= N
  BY FS_CardinalityType
<1>2. PICK f : Iterate(f, V, M, B, N)
  <2> HIDE DEF N
  <2> QED
    BY <1>1, Iterates
<1>3. f = Body(f)
  <2>1. f = [n \in 0..N |-> f[n]]
    BY <1>2 DEF Iterate
  <2>2. ASSUME NEW n \in 0..N
        PROVE  f[n] = Body(f)[n]
    <3> HIDE DEF N
    <3>1. CASE n = 0
      BY <1>2, <3>1 DEF Iterate
    <3>2. CASE n # 0
      <4>1. n \in 1..N
        BY <1>1, <3>2
      <4> QED
        BY <1>2, <3>2, <4>1 DEF Iterate, Grown, Inner
    <3> QED
      BY <3>1, <3>2
  <2> QED
    BY <2>1, <2>2
<1>4. reach = Body(reach)
  <2> HIDE DEF Body
  <2> QED
    BY <1>3
<1>5. Reached(V, M, B) = reach[N]
  BY DEF Reached
<1> HIDE DEF reach, N
<1>6. DOMAIN reach = 0..N /\ reach = [n \in 0..N |-> reach[n]]
  BY <1>4
<1>7. reach[0] = Targets(V, B)
  BY <1>1, <1>4
<1>8. \A n \in 1..N : reach[n] = Grown(M, B, reach[n-1])
  <2>1. ASSUME NEW n \in 1..N
        PROVE  reach[n] = Grown(M, B, reach[n-1])
    <3>1. n \in 0..N /\ n # 0
      BY <1>1
    <3> QED
      BY <1>4, <3>1 DEF Grown, Inner
  <2> QED
    BY <2>1
<1> HIDE DEF Body
<1> DEFINE T == {n \in 0..N : reach[n] \in SUBSET B}
<1>9. \A n \in 0..N : n \in T
  <2>1. 0 \in T
    BY <1>1, <1>7 DEF Targets
  <2>2. \A n \in 1..N : n - 1 \in T => n \in T
    BY <1>1, <1>8 DEF Grown, Targets
  <2> HIDE DEF T
  <2> QED
    BY <1>1, <2>1, <2>2, Induct
<1>10. reach \in [0..N -> SUBSET B]
  BY <1>6, <1>9
<1> HIDE DEF T
<1>11. LeastClosed(V, M, B, reach[N])
  <2>1. Iterate(reach, V, M, B, N)
    BY <1>7, <1>8, <1>10 DEF Iterate
  <2> QED
    BY <1>1, <2>1, Iterated
<1> QED
  BY <1>5, <1>11 DEF N

-----------------------------------------------------------------------------
(* Pointers that lead nowhere else: blocks C of B whose words, and the     *)
(* values V, hold only 0 and addresses of words of C.                      *)
Apart(B) == \A b, c \in B : b # c => Words(b) \cap Words(c) = {}
Sound(V, M, B, C) ==
  C \in SUBSET B /\ V \cup Inner(M, C) \subseteq {0} \cup WordsOf(C)
Addresses(B) == Apart(B) /\ 0 \notin WordsOf(B) /\ IsFiniteSet(B)

LEMMA OneTarget ==
  ASSUME NEW B, Addresses(B), NEW C \in SUBSET B, NEW W, W \subseteq {0} \cup WordsOf(C)
  PROVE  Targets(W, B) \subseteq C
<1> SUFFICES ASSUME NEW b \in B, NEW w \in W, w \in Words(b) PROVE b \in C
  BY DEF Targets
<1>1. w # 0
  BY DEF Addresses, WordsOf
<1>2. PICK c \in C : w \in Words(c)
  BY <1>1 DEF WordsOf
<1> QED
  BY <1>2 DEF Addresses, Apart

LEMMA SoundClosed ==
  ASSUME NEW V, NEW M, NEW B, Addresses(B), NEW C, Sound(V, M, B, C)
  PROVE  Closed(V, M, B, C)
<1>1. C \in SUBSET B /\ V \subseteq {0} \cup WordsOf(C) /\ Inner(M, C) \subseteq {0} \cup WordsOf(C)
  BY DEF Sound
<1>2. Targets(V, B) \subseteq C /\ Targets(Inner(M, C), B) \subseteq C
  BY <1>1, OneTarget
<1> QED
  BY <1>1, <1>2 DEF Closed

LEMMA ReachedSound ==
  ASSUME NEW V, NEW M, NEW B, Addresses(B), NEW C, Sound(V, M, B, C)
  PROVE  Reached(V, M, B) \subseteq C /\ Sound(V, M, B, Reached(V, M, B))
<1> DEFINE R == Reached(V, M, B)
<1>1. LeastClosed(V, M, B, R)
  BY LeastReached DEF Addresses
<1> HIDE DEF R
<1>2. Closed(V, M, B, R) /\ R \subseteq C
  BY <1>1, SoundClosed DEF LeastClosed
<1>3. ASSUME NEW v \in V \cup Inner(M, R), v # 0
      PROVE  v \in WordsOf(R)
  <2>1. v \in V \cup Inner(M, C)
    BY <1>2, InnerGrows
  <2>2. PICK b \in C : v \in Words(b)
    BY <1>3, <2>1 DEF Sound, WordsOf
  <2>3. b \in Targets(V, B) \cup Targets(Inner(M, R), B)
    BY <1>3, <2>2 DEF Sound, Targets
  <2>4. b \in R
    BY <1>2, <2>3 DEF Closed
  <2> QED
    BY <2>2, <2>4 DEF WordsOf
<1>4. R \in SUBSET B
  BY <1>2 DEF Closed
<1>5. Sound(V, M, B, R)
  BY <1>3, <1>4 DEF Sound
<1> QED
  BY <1>2, <1>5 DEF R

(* What lies outside C does not matter.                                    *)
LEMMA ReachedWithin ==
  ASSUME NEW V, NEW M, NEW L, NEW B, Addresses(B), NEW C, Sound(V, M, B, C),
         \A w \in WordsOf(C) : L[w] = M[w]
  PROVE  Reached(V, L, C) = Reached(V, M, B)
<1> DEFINE R == Reached(V, M, B)
           Q == Reached(V, L, C)
<1>1. C \in SUBSET B /\ Addresses(C)
  <2>1. C \in SUBSET B
    BY DEF Sound
  <2>2. IsFiniteSet(C)
    BY <2>1, FS_Subset DEF Addresses
  <2> QED
    BY <2>1, <2>2 DEF Addresses, Apart, WordsOf
<1>2. LeastClosed(V, M, B, R) /\ LeastClosed(V, L, C, Q)
  BY <1>1, LeastReached DEF Addresses
<1>3. Sound(V, M, B, R) /\ R \subseteq C
  BY ReachedSound
<1> HIDE DEF R, Q
<1>4. \A X \in SUBSET C : Inner(L, X) = Inner(M, X)
  BY DEF Inner, WordsOf
<1>5. \A W : Targets(W, C) \subseteq Targets(W, B)
  BY <1>1 DEF Targets
<1>6. Closed(V, L, C, R)
  BY <1>2, <1>3, <1>4, <1>5 DEF LeastClosed, Closed
<1>7. Closed(V, M, B, Q)
  <2>1. Closed(V, L, C, Q) /\ Q \in SUBSET C /\ Inner(L, Q) = Inner(M, Q)
    BY <1>2, <1>4 DEF LeastClosed, Closed
  <2>2. V \subseteq {0} \cup WordsOf(C) /\ Inner(M, Q) \subseteq {0} \cup WordsOf(C)
    BY <2>1, InnerGrows DEF Sound
  <2>3. Targets(V, B) \subseteq C /\ Targets(Inner(M, Q), B) \subseteq C
    BY <1>1, <2>2, OneTarget
  <2>4. Targets(V, B) \subseteq Targets(V, C) /\ Targets(Inner(M, Q), B) \subseteq Targets(Inner(M, Q), C)
    BY <2>3 DEF Targets
  <2> QED
    BY <1>1, <2>1, <2>4 DEF Closed
<1>8. R \subseteq Q /\ Q \subseteq R
  BY <1>2, <1>6, <1>7 DEF LeastClosed
<1> QED
  BY <1>8 DEF R, Q

-----------------------------------------------------------------------------
(* The inductive invariant: types, the lists, and memory no object has had *)
(* yet.                                                                    *)
Object == [at : Nat \ {0}, size : Sizes]
Objects == ToSet(used) \cup ToSet(free)

Lists(u, f) ==
  /\ u \in Seq(Object) /\ f \in Seq(Object)
  /\ IsInjective(u) /\ IsInjective(f) /\ ToSet(u) \cap ToSet(f) = {}

HeapTyped ==
  /\ root \in [Root -> 0..MaxHeap]
  /\ memory \in [1..MaxHeap -> 0..MaxHeap]
  /\ brk \in 0..MaxHeap /\ bump = brk
  /\ marked = {} /\ period \in 0..Period
HeapLists ==
  /\ Lists(used, free)
  /\ Apart(Objects) /\ WordsOf(Objects) = 1..brk
Fresh == \A w \in 1..MaxHeap : w > brk => memory[w] = 0
HeapBase == HeapTyped /\ HeapLists /\ Fresh

LEMMA Words1 ==
  ASSUME NEW o \in Object
  PROVE  o.at \in Words(o) /\ o.size \in Sizes /\ o.at \in Nat \ {0} /\ o.size \in Nat \ {0}
<1>1. o.size \in Sizes /\ o.at \in Nat \ {0} /\ o.size \in Nat \ {0}
  BY CollectorAssumption DEF Object
<1>2. o.at \in o.at .. (o.at + o.size - 1)
  BY <1>1
<1> QED
  BY <1>1, <1>2 DEF Words

LEMMA ListSet ==
  ASSUME NEW S, NEW u \in Seq(S)
  PROVE  /\ ToSet(u) \in SUBSET S
         /\ IsFiniteSet(ToSet(u))
         /\ IsInjective(u) => Cardinality(ToSet(u)) = Len(u)
<1>1. Len(u) \in Nat /\ DOMAIN u = 1..Len(u) /\ ToSet(u) \in SUBSET S
  BY DEF ToSet
<1>2. IsFiniteSet(1..Len(u)) /\ Cardinality(1..Len(u)) = Len(u)
  BY <1>1, FS_Interval
<1>3. u \in Surjection(1..Len(u), ToSet(u))
  BY <1>1 DEF ToSet, Surjection
<1>4. IsFiniteSet(ToSet(u))
  BY <1>2, <1>3, FS_Surjection
<1>5. ASSUME IsInjective(u)
      PROVE  Cardinality(ToSet(u)) = Len(u)
  <2>1. u \in Bijection(1..Len(u), ToSet(u))
    BY <1>1, <1>3, <1>5 DEF Bijection, Injection, Surjection, IsInjective
  <2> QED
    BY <1>2, <2>1, FS_Bijection DEF ExistsBijection
<1> QED
  BY <1>1, <1>4, <1>5

LEMMA ListAddresses ==
  ASSUME NEW u, NEW f, NEW b \in Nat, Lists(u, f),
         Apart(ToSet(u) \cup ToSet(f)), WordsOf(ToSet(u) \cup ToSet(f)) = 1..b
  PROVE  Addresses(ToSet(u)) /\ ToSet(u) \in SUBSET Object /\ WordsOf(ToSet(u)) \subseteq 1..b
<1>1. ToSet(u) \in SUBSET Object /\ IsFiniteSet(ToSet(u))
  BY ListSet DEF Lists
<1>2. WordsOf(ToSet(u)) \subseteq 1..b /\ Apart(ToSet(u))
  BY DEF WordsOf, Apart
<1>3. 0 \notin WordsOf(ToSet(u))
  BY <1>2
<1> QED
  BY <1>1, <1>2, <1>3 DEF Addresses

LEMMA UsedAddresses ==
  /\ HeapBase => /\ Addresses(ToSet(used)) /\ ToSet(used) \in SUBSET Object
                 /\ WordsOf(ToSet(used)) \subseteq 1..brk
  /\ HeapBase' => Addresses(ToSet(used'))
<1>1. ASSUME HeapBase
      PROVE  /\ Addresses(ToSet(used)) /\ ToSet(used) \in SUBSET Object
             /\ WordsOf(ToSet(used)) \subseteq 1..brk
  <2>1. /\ brk \in Nat /\ Lists(used, free) /\ Apart(ToSet(used) \cup ToSet(free))
        /\ WordsOf(ToSet(used) \cup ToSet(free)) = 1..brk
    BY <1>1, CollectorAssumption DEF HeapBase, HeapTyped, HeapLists, Objects
  <2> QED
    BY <2>1, ListAddresses
<1>2. ASSUME HeapBase'
      PROVE  Addresses(ToSet(used'))
  <2>1. /\ brk' \in Nat /\ Lists(used', free') /\ Apart(ToSet(used') \cup ToSet(free'))
        /\ WordsOf(ToSet(used') \cup ToSet(free')) = 1..brk'
    BY <1>2, CollectorAssumption DEF HeapBase, HeapTyped, HeapLists, Objects
  <2> QED
    BY <2>1, ListAddresses
<1> QED
  BY <1>1, <1>2

-----------------------------------------------------------------------------
(* mark finds what can be reached.                                         *)
LEMMA MarkedReachable ==
  ASSUME HeapBase
  PROVE  Marked = Reachable
<1> DEFINE N == Len(used)
           B == ToSet(used)
           Body(f) == [n \in 0..N |->
             IF n = 0 THEN marked \cup Pointed(Roots) ELSE f[n-1] \cup Pointed(Values(f[n-1] \ marked))]
           mark == CHOOSE f : f = Body(f)
<1>1. N \in Nat /\ B \in SUBSET Object /\ IsFiniteSet(B) /\ Cardinality(B) = N
  BY ListSet DEF HeapBase, HeapLists, Lists
<1>2. marked = {} /\ WordsOf(B) \subseteq 1..brk /\ brk \in Nat
  BY UsedAddresses DEF HeapBase, HeapTyped
<1> HIDE DEF B
<1>3. ASSUME NEW V
      PROVE  Pointed(V) = Targets(V, ToSet(used))
  <2>1. \A b \in B : \A v \in Words(b) : 1 <= v /\ v <= brk
    BY <1>2 DEF WordsOf
  <2> QED
    BY <2>1 DEF Pointed, Targets, B
<1>4. \A X : X \cup Pointed(Values(X \ marked)) = Grown(memory, B, X)
  BY <1>2, <1>3 DEF Values, Inner, Grown, B
<1>5. marked \cup Pointed(Roots) = Targets(Roots, B)
  BY <1>2, <1>3 DEF B
<1>6. PICK f : Iterate(f, Roots, memory, B, N)
  <2> HIDE DEF N
  <2> QED
    BY <1>1, Iterates
<1>7. f = Body(f)
  <2>1. f = [n \in 0..N |-> f[n]]
    BY <1>6 DEF Iterate
  <2>2. ASSUME NEW n \in 0..N
        PROVE  f[n] = Body(f)[n]
    <3> HIDE DEF N
    <3>1. CASE n = 0
      BY <1>5, <1>6, <3>1 DEF Iterate
    <3>2. CASE n # 0
      <4>1. n \in 1..N
        BY <1>1, <3>2
      <4> QED
        BY <1>4, <1>6, <3>2, <4>1 DEF Iterate
    <3> QED
      BY <3>1, <3>2
  <2> QED
    BY <2>1, <2>2
<1>8. mark = Body(mark)
  <2> HIDE DEF Body
  <2> QED
    BY <1>7
<1>9. Marked = mark[N]
  BY DEF Marked
<1> HIDE DEF mark, N
<1>10. Iterate(mark, Roots, memory, B, N)
  <2>1. DOMAIN mark = 0..N /\ mark = [n \in 0..N |-> mark[n]]
    BY <1>8
  <2>2. mark[0] = Targets(Roots, B)
    BY <1>1, <1>5, <1>8
  <2>3. ASSUME NEW n \in 1..N
        PROVE  mark[n] = Grown(memory, B, mark[n-1])
    <3>1. n \in 0..N /\ n # 0
      BY <1>1
    <3> QED
      BY <1>4, <1>8, <3>1
  <2> HIDE DEF Body
  <2> DEFINE T == {n \in 0..N : mark[n] \in SUBSET B}
  <2>4. \A n \in 0..N : n \in T
    <3>1. 0 \in T
      BY <1>1, <2>2 DEF Targets
    <3>2. \A n \in 1..N : n - 1 \in T => n \in T
      BY <1>1, <2>3 DEF Grown, Targets
    <3> HIDE DEF T
    <3> QED
      BY <1>1, <3>1, <3>2, Induct
  <2> QED
    BY <2>1, <2>2, <2>3, <2>4 DEF Iterate
<1>11. LeastClosed(Roots, memory, B, mark[N])
  BY <1>1, <1>10, Iterated
<1>12. LeastClosed(Roots, memory, B, Reachable)
  BY <1>1, LeastReached DEF Reachable, B
<1> QED
  BY <1>9, <1>11, <1>12 DEF LeastClosed

(* sweep splits the used list.                                             *)
LEMMA AppendedSet ==
  ASSUME NEW S, NEW u \in Seq(S), NEW x \in S
  PROVE  /\ Append(u, x) \in Seq(S) /\ ToSet(Append(u, x)) = ToSet(u) \cup {x}
         /\ IsInjective(u) /\ x \notin ToSet(u) => IsInjective(Append(u, x))
<1> DEFINE l == Append(u, x)
<1>1. /\ l \in Seq(S) /\ DOMAIN l = 1..(Len(u) + 1) /\ l[Len(u) + 1] = x
      /\ \A i \in 1..Len(u) : l[i] = u[i]
      /\ DOMAIN u = 1..Len(u) /\ Len(u) \in Nat
  OBVIOUS
<1> HIDE DEF l
<1>2. \A i \in DOMAIN l : i \in DOMAIN u \/ i = Len(u) + 1
  BY <1>1
<1>3. ToSet(l) = ToSet(u) \cup {x}
  BY <1>1, <1>2 DEF ToSet
<1>4. IsInjective(u) /\ x \notin ToSet(u) => IsInjective(l)
  BY <1>1, <1>2 DEF IsInjective, ToSet
<1> QED
  BY <1>1, <1>3, <1>4 DEF l

LEMMA JoinedSet ==
  ASSUME NEW S, NEW u \in Seq(S), NEW f \in Seq(S)
  PROVE  /\ ToSet(u \o f) = ToSet(u) \cup ToSet(f)
         /\ IsInjective(u) /\ IsInjective(f) /\ ToSet(u) \cap ToSet(f) = {} => IsInjective(u \o f)
<1> DEFINE l == u \o f
<1>1. /\ l \in Seq(S) /\ DOMAIN l = 1..(Len(u) + Len(f)) /\ Len(u) \in Nat /\ Len(f) \in Nat
      /\ \A i \in 1..Len(u) : l[i] = u[i]
      /\ \A i \in 1..Len(f) : l[Len(u) + i] = f[i]
      /\ \A i \in 1..(Len(u) + Len(f)) : i <= Len(u) \/ i - Len(u) \in 1..Len(f)
      /\ DOMAIN u = 1..Len(u) /\ DOMAIN f = 1..Len(f)
  BY Joined
<1> HIDE DEF l
<1>2. ASSUME NEW i \in DOMAIN l
      PROVE  (i \in DOMAIN u /\ l[i] = u[i]) \/ (i - Len(u) \in DOMAIN f /\ l[i] = f[i - Len(u)])
  <2>1. i <= Len(u) => i \in 1..Len(u)
    BY <1>1
  <2>2. i - Len(u) \in 1..Len(f) => l[i] = f[i - Len(u)]
    <3>1. Len(u) + (i - Len(u)) = i
      BY <1>1
    <3> QED
      BY <1>1, <3>1
  <2> QED
    BY <1>1, <2>1, <2>2
<1>3. ToSet(u) \cup ToSet(f) \subseteq ToSet(l)
  <2>1. \A i \in DOMAIN u : i \in DOMAIN l /\ l[i] = u[i]
    BY <1>1
  <2>2. \A i \in DOMAIN f : Len(u) + i \in DOMAIN l /\ l[Len(u) + i] = f[i]
    BY <1>1
  <2> QED
    BY <2>1, <2>2 DEF ToSet
<1>4. ToSet(l) \subseteq ToSet(u) \cup ToSet(f)
  BY <1>2 DEF ToSet
<1>5. ASSUME IsInjective(u), IsInjective(f), ToSet(u) \cap ToSet(f) = {},
             NEW i \in DOMAIN l, NEW j \in DOMAIN l, l[i] = l[j]
      PROVE  i = j
  <2>1. \A x \in DOMAIN u, y \in DOMAIN f : u[x] # f[y]
    BY <1>5 DEF ToSet
  <2>2. CASE i \in DOMAIN u /\ l[i] = u[i]
    <3>1. j \in DOMAIN u /\ l[j] = u[j]
      BY <1>2, <1>5, <2>1, <2>2
    <3> QED
      BY <1>5, <2>2, <3>1 DEF IsInjective
  <2>3. CASE i - Len(u) \in DOMAIN f /\ l[i] = f[i - Len(u)]
    <3>1. j - Len(u) \in DOMAIN f /\ l[j] = f[j - Len(u)]
      BY <1>2, <1>5, <2>1, <2>3
    <3>2. i - Len(u) = j - Len(u)
      BY <1>5, <2>3, <3>1 DEF IsInjective
    <3> QED
      BY <1>1, <3>2
  <2> QED
    BY <1>2, <2>2, <2>3
<1> QED
  BY <1>3, <1>4, <1>5 DEF IsInjective, l

LEMMA KeptList ==
  ASSUME Lists(used, free), NEW M
  PROVE  /\ Kept(M) \in Seq(Object) /\ IsInjective(Kept(M))
         /\ ToSet(Kept(M)) = ToSet(used) \cap M
<1> DEFINE N == Len(used)
           S == Seq(Object)
           Body(f) == [i \in 0..N |->
             IF i = 0 THEN <<>> ELSE IF used[i] \in M THEN Append(f[i-1], used[i]) ELSE f[i-1]]
           step == [p \in (1..N) \X S |-> IF used[p[1]] \in M THEN Append(p[2], used[p[1]]) ELSE p[2]]
           kept == CHOOSE f : f = Body(f)
<1>1. /\ N \in Nat /\ DOMAIN used = 1..N /\ \A i \in 1..N : used[i] \in Object
      /\ \A i, j \in 1..N : used[i] = used[j] => i = j
  BY DEF Lists, IsInjective
<1>2. /\ <<>> \in S /\ Stepping(step, N, S)
      /\ \A i \in 1..N, k \in S : step[<<i, k>>] = IF used[i] \in M THEN Append(k, used[i]) ELSE k
  BY <1>1 DEF Stepping
<1> HIDE DEF step, N, S
<1>3. PICK f : Stepwise(f, N, S, <<>>, step)
  BY <1>1, <1>2, Recursion
<1>4. f = Body(f)
  <2>1. f = [i \in 0..N |-> f[i]]
    BY <1>3 DEF Stepwise
  <2>2. ASSUME NEW i \in 0..N
        PROVE  f[i] = Body(f)[i]
    <3>1. CASE i = 0
      BY <1>3, <3>1 DEF Stepwise
    <3>2. CASE i # 0
      <4>1. i \in 1..N /\ i - 1 \in 0..N
        BY <1>1, <3>2
      <4>2. f[i-1] \in S /\ f[i] = step[<<i, f[i-1]>>]
        BY <1>3, <4>1 DEF Stepwise
      <4> QED
        BY <1>2, <3>2, <4>1, <4>2
    <3> QED
      BY <3>1, <3>2
  <2> QED
    BY <2>1, <2>2
<1>5. kept = Body(kept)
  <2> HIDE DEF Body
  <2> QED
    BY <1>4
<1>6. Kept(M) = kept[N]
  BY DEF Kept, N
<1> HIDE DEF kept
<1>7. kept[0] = <<>>
  BY <1>1, <1>5
<1>8. ASSUME NEW i \in 1..N
      PROVE  kept[i] = IF used[i] \in M THEN Append(kept[i-1], used[i]) ELSE kept[i-1]
  <2>1. i \in 0..N /\ i # 0
    BY <1>1
  <2> QED
    BY <1>5, <2>1
<1> HIDE DEF Body
<1> DEFINE Before(i) == {used[j] : j \in 1..i}
           Split(i) == /\ kept[i] \in Seq(Object) /\ IsInjective(kept[i])
                       /\ ToSet(kept[i]) = Before(i) \cap M
           T == {i \in 0..N : Split(i)}
<1>9. 0 \in T
  <2>1. 0 \in 0..N /\ Before(0) = {}
    BY <1>1
  <2>2. <<>> \in Seq(Object) /\ IsInjective(<<>>) /\ ToSet(<<>>) = {}
    BY DEF ToSet, IsInjective
  <2> QED
    BY <1>7, <2>1, <2>2
<1>10. ASSUME NEW i \in 1..N, i - 1 \in T
       PROVE  i \in T
  <2>1. Split(i - 1) /\ i \in 0..N
    BY <1>10
  <2>2. Before(i) = Before(i - 1) \cup {used[i]}
    <3>1. 1..i = (1..(i - 1)) \cup {i}
      BY <1>1
    <3> QED
      BY <3>1
  <2>3. used[i] \notin Before(i - 1) /\ used[i] \in Object
    <3>1. \A j \in 1..(i - 1) : j \in 1..N /\ j # i
      BY <1>1
    <3> QED
      BY <1>1, <3>1
  <2> HIDE DEF Before
  <2> DEFINE k == kept[i - 1]
  <2>4. k \in Seq(Object) /\ IsInjective(k) /\ ToSet(k) = Before(i - 1) \cap M
    BY <2>1
  <2>5. kept[i] = IF used[i] \in M THEN Append(k, used[i]) ELSE k
    BY <1>8
  <2> HIDE DEF k
  <2>6. CASE used[i] \in M
    <3>1. /\ Append(k, used[i]) \in Seq(Object) /\ ToSet(Append(k, used[i])) = ToSet(k) \cup {used[i]}
          /\ IsInjective(Append(k, used[i]))
      BY <2>3, <2>4, AppendedSet
    <3>2. kept[i] = Append(k, used[i])
      BY <2>5, <2>6
    <3>3. ToSet(kept[i]) = Before(i) \cap M
      BY <2>2, <2>4, <2>6, <3>1, <3>2
    <3> QED
      BY <2>1, <3>1, <3>2, <3>3
  <2>7. CASE used[i] \notin M
    <3>1. kept[i] = k /\ Before(i) \cap M = Before(i - 1) \cap M
      BY <2>2, <2>5, <2>7
    <3> QED
      BY <2>1, <2>4, <3>1
  <2> QED
    BY <2>6, <2>7
<1>11. Split(N)
  <2> HIDE DEF Split
  <2>1. \A i \in 1..N : i - 1 \in T => i \in T
    BY <1>10
  <2> HIDE DEF T
  <2>2. \A i \in 0..N : i \in T
    BY <1>1, <1>9, <2>1, Induct
  <2> QED
    BY <1>1, <2>2 DEF T
<1>12. Before(N) = ToSet(used)
  BY <1>1 DEF ToSet
<1> QED
  BY <1>6, <1>11, <1>12

LEMMA FreedList ==
  ASSUME Lists(used, free), NEW M
  PROVE  /\ Freed(M) \in Seq(Object) /\ IsInjective(Freed(M))
         /\ ToSet(Freed(M)) = ToSet(free) \cup (ToSet(used) \ M)
<1> DEFINE N == Len(used)
           S == Seq(Object)
           Body(f) == [i \in 0..N |->
             IF i = 0 THEN free ELSE IF used[i] \in M THEN f[i-1] ELSE <<used[i]>> \o f[i-1]]
           step == [p \in (1..N) \X S |-> IF used[p[1]] \in M THEN p[2] ELSE <<used[p[1]]>> \o p[2]]
           freed == CHOOSE f : f = Body(f)
<1>1. /\ N \in Nat /\ DOMAIN used = 1..N /\ \A i \in 1..N : used[i] \in Object
      /\ \A i, j \in 1..N : used[i] = used[j] => i = j
  BY DEF Lists, IsInjective
<1>2. /\ free \in S /\ Stepping(step, N, S)
      /\ \A i \in 1..N, k \in S : step[<<i, k>>] = IF used[i] \in M THEN k ELSE <<used[i]>> \o k
  <2>1. \A i \in 1..N, k \in S : <<used[i]>> \o k \in S
    <3>1. \A i \in 1..N : <<used[i]>> \in S
      BY <1>1
    <3> QED
      BY <3>1
  <2> HIDE DEF S
  <2>2. \A i \in 1..N, k \in S : step[<<i, k>>] = IF used[i] \in M THEN k ELSE <<used[i]>> \o k
    OBVIOUS
  <2>3. \A p \in (1..N) \X S : step[p] \in S
    <3>1. ASSUME NEW i \in 1..N, NEW k \in S PROVE step[<<i, k>>] \in S
      BY <2>1, <2>2
    <3> HIDE DEF step
    <3> QED
      BY <3>1
  <2>4. step \in [(1..N) \X S -> S]
    BY <2>3
  <2> QED
    BY <2>2, <2>4 DEF Stepping, Lists, S
<1> HIDE DEF step, N, S
<1>3. PICK f : Stepwise(f, N, S, free, step)
  BY <1>1, <1>2, Recursion
<1>4. f = Body(f)
  <2>1. f = [i \in 0..N |-> f[i]]
    BY <1>3 DEF Stepwise
  <2>2. ASSUME NEW i \in 0..N
        PROVE  f[i] = Body(f)[i]
    <3>1. CASE i = 0
      BY <1>3, <3>1 DEF Stepwise
    <3>2. CASE i # 0
      <4>1. i \in 1..N /\ i - 1 \in 0..N
        BY <1>1, <3>2
      <4>2. f[i-1] \in S /\ f[i] = step[<<i, f[i-1]>>]
        BY <1>3, <4>1 DEF Stepwise
      <4> QED
        BY <1>2, <3>2, <4>1, <4>2
    <3> QED
      BY <3>1, <3>2
  <2> QED
    BY <2>1, <2>2
<1>5. freed = Body(freed)
  <2> HIDE DEF Body
  <2> QED
    BY <1>4
<1>6. Freed(M) = freed[N]
  BY DEF Freed, N
<1> HIDE DEF freed
<1>7. freed[0] = free
  BY <1>1, <1>5
<1>8. ASSUME NEW i \in 1..N
      PROVE  freed[i] = IF used[i] \in M THEN freed[i-1] ELSE <<used[i]>> \o freed[i-1]
  <2>1. i \in 0..N /\ i # 0
    BY <1>1
  <2> QED
    BY <1>5, <2>1
<1> HIDE DEF Body
<1> DEFINE Before(i) == {used[j] : j \in 1..i}
           Split(i) == /\ freed[i] \in Seq(Object) /\ IsInjective(freed[i])
                       /\ ToSet(freed[i]) = ToSet(free) \cup (Before(i) \ M)
           T == {i \in 0..N : Split(i)}
<1>9. 0 \in T
  <2>1. 0 \in 0..N /\ Before(0) = {}
    BY <1>1
  <2>2. free \in Seq(Object) /\ IsInjective(free)
    BY DEF Lists
  <2> QED
    BY <1>7, <2>1, <2>2
<1>10. ASSUME NEW i \in 1..N, i - 1 \in T
       PROVE  i \in T
  <2>1. Split(i - 1) /\ i \in 0..N
    BY <1>10
  <2>2. Before(i) = Before(i - 1) \cup {used[i]}
    <3>1. 1..i = (1..(i - 1)) \cup {i}
      BY <1>1
    <3> QED
      BY <3>1
  <2>3. used[i] \notin Before(i - 1) /\ used[i] \in Object /\ used[i] \notin ToSet(free)
    <3>1. \A j \in 1..(i - 1) : j \in 1..N /\ j # i
      BY <1>1
    <3>2. used[i] \in ToSet(used)
      BY <1>1 DEF ToSet
    <3> QED
      BY <1>1, <3>1, <3>2 DEF Lists
  <2> HIDE DEF Before
  <2> DEFINE k == freed[i - 1]
  <2>4. k \in Seq(Object) /\ IsInjective(k) /\ ToSet(k) = ToSet(free) \cup (Before(i - 1) \ M)
    BY <2>1
  <2>5. freed[i] = IF used[i] \in M THEN k ELSE <<used[i]>> \o k
    BY <1>8
  <2> HIDE DEF k
  <2>6. CASE used[i] \notin M
    <3>1. /\ <<used[i]>> \o k \in Seq(Object) /\ ToSet(<<used[i]>> \o k) = {used[i]} \cup ToSet(k)
          /\ IsInjective(<<used[i]>> \o k)
      BY <2>3, <2>4, Pushed
    <3>2. freed[i] = <<used[i]>> \o k
      BY <2>5, <2>6
    <3>3. ToSet(freed[i]) = ToSet(free) \cup (Before(i) \ M)
      BY <2>2, <2>4, <2>6, <3>1, <3>2
    <3> QED
      BY <2>1, <3>1, <3>2, <3>3
  <2>7. CASE used[i] \in M
    <3>1. freed[i] = k /\ Before(i) \ M = Before(i - 1) \ M
      BY <2>2, <2>5, <2>7
    <3> QED
      BY <2>1, <2>4, <3>1
  <2> QED
    BY <2>6, <2>7
<1>11. Split(N)
  <2> HIDE DEF Split
  <2>1. \A i \in 1..N : i - 1 \in T => i \in T
    BY <1>10
  <2> HIDE DEF T
  <2>2. \A i \in 0..N : i \in T
    BY <1>1, <1>9, <2>1, Induct
  <2> QED
    BY <1>1, <2>2 DEF T
<1>12. Before(N) = ToSet(used)
  BY <1>1 DEF ToSet
<1> QED
  BY <1>6, <1>11, <1>12

-----------------------------------------------------------------------------
(* What the operations do to the lists.                                    *)
LEMMA ReachableUsed ==
  ASSUME HeapBase
  PROVE  Reachable \in SUBSET ToSet(used) /\ WordsOf(Reachable) \subseteq 1..brk /\ brk \in 0..MaxHeap
<1>1. LeastClosed(Roots, memory, ToSet(used), Reachable)
  BY UsedAddresses, LeastReached DEF Addresses, Reachable
<1>2. Reachable \in SUBSET ToSet(used)
  BY <1>1 DEF LeastClosed, Closed
<1>3. WordsOf(Reachable) \subseteq WordsOf(ToSet(used))
  BY <1>2 DEF WordsOf
<1> QED
  BY <1>2, <1>3, UsedAddresses DEF HeapBase, HeapTyped

(* gc_collect keeps what can be reached, frees the rest when it is due,    *)
(* and loses nothing.                                                      *)
Collected(u, f) ==
  /\ Lists(u, f) /\ ToSet(u) \cup ToSet(f) = Objects
  /\ Reachable \subseteq ToSet(u) /\ ToSet(u) \subseteq ToSet(used)
  /\ Due => ToSet(u) = Reachable

LEMMA CollectLists ==
  ASSUME HeapBase
  PROVE  /\ Collected(Collect.used, Collect.free)
         /\ Collect.marked = {} /\ Collect.period \in 0..Period
<1>1. /\ Lists(used, free) /\ marked = {} /\ period \in 0..Period /\ Period \in Nat
      /\ Reachable \in SUBSET ToSet(used)
  BY ReachableUsed, CollectorAssumption DEF HeapBase, HeapLists, HeapTyped
<1>2. CASE Due
  <2> DEFINE u == Kept(Marked)
             f == Freed(Marked)
  <2>1. Collect.used = u /\ Collect.free = f /\ Collect.marked = {} /\ Collect.period = 0
    BY <1>2 DEF Collect, Unmarked
  <2>2. u \in Seq(Object) /\ IsInjective(u) /\ ToSet(u) = ToSet(used) \cap Marked
    BY <1>1, KeptList
  <2>3. f \in Seq(Object) /\ IsInjective(f) /\ ToSet(f) = ToSet(free) \cup (ToSet(used) \ Marked)
    BY <1>1, FreedList
  <2>4. Marked = Reachable
    BY MarkedReachable
  <2> HIDE DEF u, f
  <2>5. ToSet(u) \cap ToSet(f) = {}
    BY <1>1, <2>2, <2>3 DEF Lists
  <2>6. ToSet(u) = Reachable /\ ToSet(u) \cup ToSet(f) = Objects
    BY <1>1, <2>2, <2>3, <2>4 DEF Objects
  <2>7. Collected(u, f)
    BY <1>1, <2>2, <2>3, <2>5, <2>6 DEF Collected, Lists
  <2> QED
    BY <1>1, <2>1, <2>7
<1>3. CASE ~Due
  <2>1. Collect.used = used /\ Collect.free = free /\ Collect.marked = {} /\ Collect.period = period + 1
    BY <1>1, <1>3 DEF Collect
  <2>2. period + 1 \in 0..Period
    BY <1>1, <1>3 DEF Due
  <2>3. Collected(used, free)
    BY <1>1, <1>3 DEF Collected, Objects
  <2> QED
    BY <2>1, <2>2, <2>3
<1> QED
  BY <1>2, <1>3

-----------------------------------------------------------------------------
(* The three ways a step changes what the program sees.                    *)
Assigned ==
  /\ ToSet(used') = ToSet(used)
  /\ \E v \in {0} \cup WordsOf(Reachable) :
       \/ \E r \in Root : root' = [root EXCEPT ![r] = v] /\ memory' = memory
       \/ \E w \in WordsOf(Reachable) : memory' = [memory EXCEPT ![w] = v] /\ root' = root
Obtained(r, n, o) ==
  /\ o \in Object /\ o.size = n /\ Words(o) \subseteq 1..MaxHeap
  /\ Words(o) \cap WordsOf(Reachable) = {}
  /\ Reachable \subseteq ToSet(used') /\ o \in ToSet(used')
  /\ ToSet(used') \subseteq ToSet(used) \cup {o}
  /\ root' = [root EXCEPT ![r] = o.at]
  /\ memory' = [w \in 1..MaxHeap |-> IF w \in Words(o) THEN 0 ELSE memory[w]]
Refused(r) ==
  /\ Reachable \subseteq ToSet(used') /\ ToSet(used') \subseteq ToSet(used)
  /\ root' = [root EXCEPT ![r] = 0] /\ memory' = memory

(* After a collection, the objects it does not keep are on the free list,  *)
(* but for the one that malloc has taken from there.                       *)
Freeing ==
  /\ Due => \A o \in ToSet(used) \ Reachable : o \in ToSet(free') \/ o = Head(used')
  /\ Reachable \subseteq ToSet(used')

LEMMA Reusing ==
  ASSUME HeapBase, NEW r \in Root, NEW n \in Sizes, Reuse(Collect, r, n),
         bump' = brk', marked' = Collect.marked, period' = Collect.period
  PROVE  HeapBase' /\ Freeing /\ \E o : Obtained(r, n, o)
<1> DEFINE u == Collect.used
           f == Collect.free
<1>1. PICK i \in DOMAIN f :
        /\ f[i].size = n
        /\ used' = <<f[i]>> \o u /\ free' = RemoveAt(f, i)
        /\ memory' = Zeroed(f[i]) /\ root' = [root EXCEPT ![r] = f[i].at] /\ brk' = brk
  BY DEF Reuse, Fits
<1>2. Collected(u, f) /\ Collect.marked = {} /\ Collect.period \in 0..Period
  BY CollectLists
<1> HIDE DEF u, f
<1> DEFINE o == f[i]
<1>3. u \in Seq(Object) /\ f \in Seq(Object) /\ IsInjective(u) /\ IsInjective(f) /\ ToSet(u) \cap ToSet(f) = {}
  BY <1>2 DEF Collected, Lists
<1>4. o \in ToSet(f) /\ o \in Object /\ o \notin ToSet(u)
  BY <1>3 DEF ToSet
<1>5. /\ used' = <<o>> \o u /\ free' = RemoveAt(f, i) /\ o.size = n
      /\ memory' = Zeroed(o) /\ root' = [root EXCEPT ![r] = o.at] /\ brk' = brk
  BY <1>1
<1>6. /\ free' \in Seq(Object) /\ IsInjective(free') /\ ToSet(free') = ToSet(f) \ {o}
  BY <1>3, <1>5, Unlinked
<1> HIDE DEF o
<1>7. used' \in Seq(Object) /\ IsInjective(used') /\ ToSet(used') = {o} \cup ToSet(u) /\ Head(used') = o
  BY <1>3, <1>4, <1>5, Pushed
<1>8. /\ HeapTyped /\ Apart(Objects) /\ WordsOf(Objects) = 1..brk /\ Fresh
      /\ Reachable \in SUBSET ToSet(used) /\ brk \in 0..MaxHeap /\ MaxHeap \in Nat
  BY ReachableUsed, CollectorAssumption DEF HeapBase, HeapLists
<1>9. ToSet(u) \cup ToSet(f) = Objects /\ Reachable \subseteq ToSet(u) /\ ToSet(u) \subseteq ToSet(used)
  BY <1>2 DEF Collected
<1>10. Objects' = Objects
  BY <1>4, <1>6, <1>7, <1>9 DEF Objects
<1>11. Words(o) \subseteq 1..brk /\ Words(o) \subseteq 1..MaxHeap /\ o.at \in 0..MaxHeap
  <2>1. Words(o) \subseteq 1..brk
    BY <1>4, <1>8, <1>9 DEF WordsOf
  <2> QED
    BY <1>4, <1>8, <2>1, Words1
<1>12. memory' = [w \in 1..MaxHeap |-> IF w \in Words(o) THEN 0 ELSE memory[w]]
  BY <1>5, <1>8 DEF Zeroed, HeapTyped
<1>13. HeapTyped'
  <2>1. memory' \in [1..MaxHeap -> 0..MaxHeap]
    BY <1>8, <1>12 DEF HeapTyped
  <2>2. root' \in [Root -> 0..MaxHeap]
    BY <1>5, <1>8, <1>11 DEF HeapTyped
  <2>3. marked' = {} /\ period' \in 0..Period
    BY <1>2
  <2> QED
    BY <1>5, <1>8, <2>1, <2>2, <2>3 DEF HeapTyped
<1>14. HeapLists'
  <2>1. Lists(used', free')
    BY <1>3, <1>6, <1>7 DEF Lists
  <2> QED
    BY <1>5, <1>8, <1>10, <2>1 DEF HeapLists
<1>15. Fresh'
  BY <1>5, <1>8, <1>12 DEF Fresh
<1>16. Words(o) \cap WordsOf(Reachable) = {}
  <2>1. ASSUME NEW b \in Reachable
        PROVE  Words(o) \cap Words(b) = {}
    BY <1>4, <1>8, <1>9 DEF Apart
  <2> QED
    BY <2>1 DEF WordsOf
<1>17. Obtained(r, n, o)
  BY <1>4, <1>5, <1>7, <1>9, <1>11, <1>12, <1>16 DEF Obtained
<1>18. Freeing
  <2>1. Due => ToSet(u) = Reachable
    BY <1>2 DEF Collected
  <2> QED
    BY <1>6, <1>7, <1>8, <1>9, <2>1 DEF Freeing, Objects
<1> QED
  BY <1>13, <1>14, <1>15, <1>17, <1>18 DEF HeapBase

LEMMA Extending ==
  ASSUME HeapBase, NEW r \in Root, NEW n \in Sizes, Extend(Collect, r, n),
         bump' = brk', marked' = Collect.marked, period' = Collect.period
  PROVE  HeapBase' /\ Freeing /\ \E o : Obtained(r, n, o)
<1> DEFINE u == Collect.used
           f == Collect.free
           o == [at |-> brk + 1, size |-> n]
<1>1. /\ brk + n <= MaxHeap /\ brk' = brk + n /\ used' = <<o>> \o u /\ free' = f
      /\ root' = [root EXCEPT ![r] = brk + 1] /\ memory' = memory
  BY DEF Extend
<1>2. Collected(u, f) /\ Collect.marked = {} /\ Collect.period \in 0..Period
  BY CollectLists
<1>3. /\ HeapTyped /\ Apart(Objects) /\ WordsOf(Objects) = 1..brk /\ Fresh
      /\ Reachable \in SUBSET ToSet(used) /\ brk \in 0..MaxHeap /\ MaxHeap \in Nat
      /\ WordsOf(Reachable) \subseteq 1..brk
  BY ReachableUsed, CollectorAssumption DEF HeapBase, HeapLists
<1>4. n \in Nat \ {0}
  BY CollectorAssumption
<1>5. o \in Object /\ o.at = brk + 1 /\ o.size = n /\ Words(o) = (brk + 1) .. (brk + n)
  <2>1. o.at = brk + 1 /\ o.size = n /\ o \in Object
    BY <1>3, <1>4 DEF Object
  <2>2. o.at + o.size - 1 = brk + n
    BY <1>3, <1>4, <2>1
  <2> QED
    BY <2>1, <2>2 DEF Words
<1> HIDE DEF u, f, o
<1>6. u \in Seq(Object) /\ f \in Seq(Object) /\ IsInjective(u) /\ IsInjective(f) /\ ToSet(u) \cap ToSet(f) = {}
  BY <1>2 DEF Collected, Lists
<1>7. ToSet(u) \cup ToSet(f) = Objects /\ Reachable \subseteq ToSet(u) /\ ToSet(u) \subseteq ToSet(used)
  BY <1>2 DEF Collected
<1>8. Words(o) \cap (1..brk) = {} /\ (1..brk) \cup Words(o) = 1..brk' /\ brk' \in 0..MaxHeap
  BY <1>1, <1>3, <1>4, <1>5
<1>9. \A b \in Objects : Words(b) \cap Words(o) = {}
  BY <1>3, <1>8 DEF WordsOf
<1>10. o \notin Objects
  <2>1. o.at \in Words(o)
    BY <1>5, Words1
  <2> QED
    BY <1>9, <2>1
<1>11. /\ used' \in Seq(Object) /\ IsInjective(used') /\ ToSet(used') = {o} \cup ToSet(u) /\ Head(used') = o
  BY <1>1, <1>5, <1>6, <1>7, <1>10, Pushed
<1>12. Objects' = Objects \cup {o}
  BY <1>1, <1>7, <1>11 DEF Objects
<1>13. HeapTyped'
  <2>1. brk + 1 \in 0..MaxHeap
    BY <1>1, <1>3, <1>4
  <2>2. root' \in [Root -> 0..MaxHeap]
    BY <1>1, <1>3, <2>1 DEF HeapTyped
  <2>3. memory' \in [1..MaxHeap -> 0..MaxHeap]
    BY <1>1, <1>3 DEF HeapTyped
  <2> QED
    BY <1>2, <1>8, <2>2, <2>3 DEF HeapTyped
<1>14. HeapLists'
  <2>1. Lists(used', free')
    BY <1>1, <1>6, <1>7, <1>10, <1>11 DEF Lists
  <2>2. Apart(Objects')
    BY <1>3, <1>9, <1>12 DEF Apart
  <2>3. WordsOf(Objects') = 1..brk'
    <3>1. WordsOf(Objects') = WordsOf(Objects) \cup Words(o)
      BY <1>12 DEF WordsOf
    <3> QED
      BY <1>3, <1>8, <3>1
  <2> QED
    BY <2>1, <2>2, <2>3 DEF HeapLists
<1>15. Fresh'
  BY <1>1, <1>3, <1>4 DEF Fresh
<1>16. memory' = [w \in 1..MaxHeap |-> IF w \in Words(o) THEN 0 ELSE memory[w]]
  <2>1. \A w \in 1..MaxHeap : w \in Words(o) => memory[w] = 0
    BY <1>3, <1>5 DEF Fresh
  <2>2. memory \in [1..MaxHeap -> 0..MaxHeap]
    BY <1>3 DEF HeapTyped
  <2> QED
    BY <1>1, <2>1, <2>2
<1>17. Obtained(r, n, o)
  <2>1. Words(o) \subseteq 1..MaxHeap
    BY <1>1, <1>3, <1>4, <1>5
  <2>2. o.size = n
    BY <1>5
  <2> QED
    BY <1>1, <1>3, <1>5, <1>7, <1>8, <1>11, <1>16, <2>1, <2>2 DEF Obtained
<1>18. Freeing
  <2>1. Due => ToSet(u) = Reachable
    BY <1>2 DEF Collected
  <2> QED
    BY <1>1, <1>7, <1>11, <2>1 DEF Freeing, Objects
<1> QED
  BY <1>13, <1>14, <1>15, <1>17, <1>18 DEF HeapBase

LEMMA Refusing ==
  ASSUME HeapBase, NEW r \in Root, NEW n \in Sizes, Exhausted(Collect, r, n),
         bump' = brk', marked' = Collect.marked, period' = Collect.period
  PROVE  HeapBase' /\ Freeing /\ Refused(r)
<1> DEFINE u == Collect.used
           f == Collect.free
<1>1. used' = u /\ free' = f /\ root' = [root EXCEPT ![r] = 0] /\ memory' = memory /\ brk' = brk
  BY DEF Exhausted
<1>2. Collected(u, f) /\ Collect.marked = {} /\ Collect.period \in 0..Period
  BY CollectLists
<1> HIDE DEF u, f
<1>3. /\ HeapTyped /\ Apart(Objects) /\ WordsOf(Objects) = 1..brk /\ Fresh /\ MaxHeap \in Nat
  BY CollectorAssumption DEF HeapBase, HeapLists
<1>4. Objects' = Objects /\ Lists(used', free') /\ Reachable \subseteq ToSet(used') /\ ToSet(used') \subseteq ToSet(used)
  BY <1>1, <1>2 DEF Collected, Objects
<1>5. HeapTyped'
  BY <1>1, <1>2, <1>3 DEF HeapTyped
<1>6. HeapLists' /\ Fresh'
  BY <1>1, <1>3, <1>4 DEF HeapLists, Fresh
<1>7. Refused(r)
  BY <1>1, <1>4 DEF Refused
<1>8. Freeing
  <2>1. Due => ToSet(u) = Reachable
    BY <1>2 DEF Collected
  <2> QED
    BY <1>1, <1>2, <1>4, <2>1 DEF Freeing, Objects, Collected
<1> QED
  BY <1>5, <1>6, <1>7, <1>8 DEF HeapBase

LEMMA Assigning ==
  ASSUME HeapBase, Assign
  PROVE  HeapBase' /\ Assigned /\ ToSet(used') = ToSet(used) /\ period' = period
<1>1. UNCHANGED <<brk, bump, used, free, marked, period>>
  BY DEF Assign
<1>2. /\ HeapTyped /\ HeapLists /\ Fresh /\ MaxHeap \in Nat
      /\ WordsOf(Reachable) \subseteq 1..brk /\ brk \in 0..MaxHeap
  BY ReachableUsed, CollectorAssumption DEF HeapBase
<1>3. PICK v \in {0} \cup WordsOf(Reachable) :
        \/ \E r \in Root : root' = [root EXCEPT ![r] = v] /\ memory' = memory
        \/ \E w \in WordsOf(Reachable) : memory' = [memory EXCEPT ![w] = v] /\ root' = root
  BY DEF Assign
<1>4. v \in 0..MaxHeap
  BY <1>2
<1>5. HeapTyped' /\ Fresh'
  <2>1. CASE \E r \in Root : root' = [root EXCEPT ![r] = v] /\ memory' = memory
    BY <1>1, <1>2, <1>4, <2>1 DEF HeapTyped, Fresh
  <2>2. CASE \E w \in WordsOf(Reachable) : memory' = [memory EXCEPT ![w] = v] /\ root' = root
    <3>1. PICK w \in WordsOf(Reachable) : memory' = [memory EXCEPT ![w] = v] /\ root' = root
      BY <2>2
    <3>2. memory' \in [1..MaxHeap -> 0..MaxHeap]
      BY <1>2, <1>4, <3>1 DEF HeapTyped
    <3>3. \A x \in 1..MaxHeap : x > brk => memory'[x] = memory[x]
      BY <1>2, <3>1 DEF HeapTyped
    <3> QED
      BY <1>1, <1>2, <3>1, <3>2, <3>3 DEF HeapTyped, Fresh
  <2> QED
    BY <1>3, <2>1, <2>2
<1>6. HeapLists' /\ ToSet(used') = ToSet(used)
  BY <1>1, <1>2 DEF HeapLists, Lists, Objects
<1> QED
  BY <1>1, <1>3, <1>5, <1>6 DEF HeapBase, Assigned

LEMMA Allocating ==
  ASSUME HeapBase, NEW r \in Root, NEW n \in Sizes, Malloc(r, n)
  PROVE  HeapBase' /\ Freeing /\ (Refused(r) \/ \E o : Obtained(r, n, o))
<1>1. bump = brk /\ brk \in Nat /\ n \in Nat
  BY CollectorAssumption DEF HeapBase, HeapTyped
<1>2. bump + n - brk = n
  BY <1>1
<1>3. /\ Reuse(Collect, r, n) \/ Extend(Collect, r, n) \/ Exhausted(Collect, r, n)
      /\ bump' = brk' /\ marked' = Collect.marked /\ period' = Collect.period
  BY <1>2 DEF Malloc, Corrected
<1> QED
  BY <1>3, Reusing, Extending, Refusing

LEMMA Classified ==
  ASSUME HeapBase, [CollectorNext]_collectorVars
  PROVE  /\ HeapBase'
         /\ \/ Assigned /\ ToSet(used') = ToSet(used) /\ period' = period
            \/ /\ Freeing
               /\ \E r \in Root : Refused(r) \/ \E n \in Sizes : \E o : Obtained(r, n, o)
            \/ UNCHANGED collectorVars
<1>1. CASE Assign
  BY <1>1, Assigning
<1>2. ASSUME NEW r \in Root, NEW n \in Sizes, Malloc(r, n)
      PROVE  HeapBase' /\ Freeing /\ (Refused(r) \/ \E o : Obtained(r, n, o))
  BY <1>2, Allocating
<1>3. CASE UNCHANGED collectorVars
  <2>1. /\ root' = root /\ memory' = memory /\ brk' = brk /\ bump' = bump /\ used' = used
        /\ free' = free /\ marked' = marked /\ period' = period
    BY <1>3 DEF collectorVars
  <2> QED
    BY <1>3, <2>1 DEF HeapBase, HeapTyped, HeapLists, Fresh, Lists, Objects
<1> QED
  BY <1>1, <1>2, <1>3 DEF CollectorNext

-----------------------------------------------------------------------------
(* The pointers the program can follow.                                    *)
Pointers == Sound(Roots, memory, ToSet(used), Reachable)

(* Where the pointers after a step lead: nowhere but into what could be    *)
(* reached before it and the new object.                                   *)
LEMMA SoundAssigned ==
  ASSUME HeapBase, Pointers, Assigned
  PROVE  Sound(Roots', memory', ToSet(used'), Reachable)
<1> DEFINE R == Reachable
<1>1. /\ R \in SUBSET ToSet(used') /\ Roots \subseteq {0} \cup WordsOf(R)
      /\ Inner(memory, R) \subseteq {0} \cup WordsOf(R)
  BY DEF Pointers, Sound, Assigned
<1>2. root \in [Root -> 0..MaxHeap] /\ memory \in [1..MaxHeap -> 0..MaxHeap]
      /\ WordsOf(R) \subseteq 1..MaxHeap
  BY ReachableUsed, CollectorAssumption DEF HeapBase, HeapTyped
<1> HIDE DEF R
<1>3. PICK v \in {0} \cup WordsOf(R) :
        \/ \E r \in Root : root' = [root EXCEPT ![r] = v] /\ memory' = memory
        \/ \E w \in WordsOf(R) : memory' = [memory EXCEPT ![w] = v] /\ root' = root
  BY DEF Assigned, R
<1>4. \A r \in Root : root'[r] \in {0} \cup WordsOf(R)
  BY <1>1, <1>2, <1>3 DEF Roots
<1>5. \A w \in WordsOf(R) : memory'[w] \in {0} \cup WordsOf(R)
  BY <1>1, <1>2, <1>3 DEF Inner
<1> QED
  BY <1>1, <1>4, <1>5 DEF Sound, Inner, Roots, R

LEMMA SoundObtained ==
  ASSUME HeapBase, Pointers, NEW r \in Root, NEW n, NEW o, Obtained(r, n, o)
  PROVE  Sound(Roots', memory', ToSet(used'), Reachable \cup {o})
<1> DEFINE R == Reachable
           C == R \cup {o}
<1>1. /\ Roots \subseteq {0} \cup WordsOf(R) /\ Inner(memory, R) \subseteq {0} \cup WordsOf(R)
  BY DEF Pointers, Sound
<1>2. root \in [Root -> 0..MaxHeap] /\ WordsOf(R) \subseteq 1..MaxHeap
  BY ReachableUsed, CollectorAssumption DEF HeapBase, HeapTyped
<1> HIDE DEF R
<1>3. /\ o \in Object /\ Words(o) \cap WordsOf(R) = {} /\ C \in SUBSET ToSet(used')
      /\ root' = [root EXCEPT ![r] = o.at]
      /\ memory' = [w \in 1..MaxHeap |-> IF w \in Words(o) THEN 0 ELSE memory[w]]
  BY DEF Obtained, R
<1>4. WordsOf(C) = WordsOf(R) \cup Words(o) /\ o.at \in Words(o)
  BY <1>3, Words1 DEF WordsOf
<1>5. \A s \in Root : root'[s] \in {0} \cup WordsOf(C)
  BY <1>1, <1>2, <1>3, <1>4 DEF Roots
<1>6. ASSUME NEW w \in WordsOf(C), w \in 1..MaxHeap
      PROVE  memory'[w] \in {0} \cup WordsOf(C)
  BY <1>1, <1>2, <1>3, <1>4, <1>6 DEF Inner
<1>7. WordsOf(C) \subseteq 1..MaxHeap
  BY <1>2, <1>4 DEF Obtained
<1> QED
  BY <1>3, <1>5, <1>6, <1>7 DEF Sound, Inner, Roots, R

LEMMA SoundRefused ==
  ASSUME HeapBase, Pointers, NEW r \in Root, Refused(r)
  PROVE  Sound(Roots', memory', ToSet(used'), Reachable)
<1> DEFINE R == Reachable
<1>1. /\ Roots \subseteq {0} \cup WordsOf(R) /\ Inner(memory, R) \subseteq {0} \cup WordsOf(R)
  BY DEF Pointers, Sound
<1>2. root \in [Root -> 0..MaxHeap] /\ root' = [root EXCEPT ![r] = 0] /\ memory' = memory
      /\ R \in SUBSET ToSet(used')
  BY DEF Refused, HeapBase, HeapTyped
<1> HIDE DEF R
<1>3. \A s \in Root : root'[s] \in {0} \cup WordsOf(R)
  BY <1>1, <1>2 DEF Roots
<1> QED
  BY <1>1, <1>2, <1>3 DEF Sound, Inner, Roots, R

LEMMA StepsSound ==
  ASSUME HeapBase, Pointers, [CollectorNext]_collectorVars
  PROVE  Pointers'
<1>1. HeapBase' /\ Addresses(ToSet(used'))
  BY Classified, UsedAddresses
<1>2. \A C : Sound(Roots', memory', ToSet(used'), C)
               => Sound(Roots', memory', ToSet(used'), Reached(Roots', memory', ToSet(used')))
  BY <1>1, ReachedSound
<1>3. Reachable' = Reached(Roots', memory', ToSet(used'))
  BY DEF Reachable
<1>4. CASE UNCHANGED collectorVars
  <2>1. root' = root /\ memory' = memory /\ used' = used
    BY <1>4 DEF collectorVars
  <2> QED
    BY <2>1 DEF Pointers, Reachable, Roots
<1>5. CASE \E C : Sound(Roots', memory', ToSet(used'), C)
  BY <1>2, <1>3, <1>5 DEF Pointers
<1> QED
  BY <1>4, <1>5, Classified, SoundAssigned, SoundObtained, SoundRefused

LEMMA Started ==
  ASSUME CollectorInit
  PROVE  HeapBase /\ Pointers /\ Reachable = {}
<1>1. /\ root = [r \in Root |-> 0] /\ memory = [w \in 1..MaxHeap |-> 0] /\ brk = 0 /\ bump = 0
      /\ used = <<>> /\ free = <<>> /\ marked = {} /\ period = 0 /\ MaxHeap \in Nat /\ Period \in Nat
  BY CollectorAssumption DEF CollectorInit
<1>2. ToSet(used) = {} /\ ToSet(free) = {} /\ Objects = {} /\ WordsOf({}) = {} /\ 1..brk = {}
  BY <1>1 DEF ToSet, Objects, WordsOf
<1>3. Lists(used, free)
  BY <1>1, <1>2 DEF Lists, IsInjective
<1>4. HeapTyped /\ HeapLists /\ Fresh
  <2>1. root \in [Root -> 0..MaxHeap] /\ memory \in [1..MaxHeap -> 0..MaxHeap]
    BY <1>1
  <2> QED
    BY <1>1, <1>2, <1>3, <2>1 DEF HeapTyped, HeapLists, Fresh, Apart
<1>5. HeapBase
  BY <1>4 DEF HeapBase
<1>6. Reachable = {}
  BY <1>2, <1>5, ReachableUsed
<1>7. Roots \subseteq {0} /\ Inner(memory, {}) = {}
  BY <1>1, <1>2 DEF Roots, Inner
<1>8. Pointers
  BY <1>2, <1>6, <1>7 DEF Pointers, Sound
<1> QED
  BY <1>5, <1>6, <1>8

LEMMA Invariance == CollectorSpec => [](HeapBase /\ Pointers)
<1>1. CollectorInit => HeapBase /\ Pointers
  BY Started
<1>2. HeapBase /\ Pointers /\ [CollectorNext]_collectorVars => (HeapBase /\ Pointers)'
  BY Classified, StepsSound
<1> QED
  BY <1>1, <1>2, PTL DEF CollectorSpec

-----------------------------------------------------------------------------
(* Every object lies below the program break, and so does _bump,           *)
(* and gcs_in_period never passes GC_PERIOD.                               *)
THEOREM CollectorTypeCorrect == CollectorSpec => []CollectorTypeOK
<1>1. HeapBase => CollectorTypeOK
  <2> SUFFICES ASSUME HeapBase PROVE CollectorTypeOK
    OBVIOUS
  <2>1. /\ used \in Seq(Object) /\ free \in Seq(Object)
        /\ WordsOf(Objects) = 1..brk
    BY DEF HeapBase, HeapLists, Lists
  <2>2. ToSet(used \o free) = Objects /\ Objects \in SUBSET Object
    <3>1. ToSet(used) \in SUBSET Object /\ ToSet(free) \in SUBSET Object
      BY <2>1, ListSet
    <3> QED
      BY <2>1, <3>1, JoinedSet DEF Objects
  <2>3. \A o \in Objects : o.size \in Sizes /\ Words(o) \subseteq 1..brk
    BY <2>1, <2>2 DEF Object, WordsOf
  <2> QED
    BY <2>2, <2>3 DEF CollectorTypeOK, HeapBase, HeapTyped
<1> QED
  BY <1>1, Invariance, PTL

(* malloc and gc_collect lose no memory and hand out none twice: used and  *)
(* free list together tile the heap.                                       *)
THEOREM ListsTileHeap == CollectorSpec => []HeapTiled
<1>1. HeapBase => HeapTiled
  <2> SUFFICES ASSUME HeapBase PROVE HeapTiled
    OBVIOUS
  <2> DEFINE l == used \o free
  <2>1. /\ used \in Seq(Object) /\ free \in Seq(Object) /\ IsInjective(used) /\ IsInjective(free)
        /\ ToSet(used) \cap ToSet(free) = {} /\ WordsOf(Objects) = 1..brk /\ Apart(Objects)
    BY DEF HeapBase, HeapLists, Lists
  <2>2. ToSet(l) = Objects /\ IsInjective(l)
    BY <2>1, JoinedSet DEF Objects
  <2> HIDE DEF l
  <2>3. \A i, j \in DOMAIN l : i # j => Words(l[i]) \cap Words(l[j]) = {}
    BY <2>1, <2>2 DEF Apart, IsInjective, ToSet
  <2> QED
    BY <2>1, <2>2, <2>3 DEF HeapTiled, l
<1> QED
  BY <1>1, Invariance, PTL

(* gc_collect never frees what a chain of pointers from the stack or the   *)
(* data segment leads to: every pointer the program can follow is into an  *)
(* object of the used list.                                                *)
THEOREM PointersLive == CollectorSpec => []NoDangling
<1>1. HeapBase /\ Pointers => NoDangling
  <2> SUFFICES ASSUME HeapBase, Pointers PROVE NoDangling
    OBVIOUS
  <2>1. Reachable \in SUBSET ToSet(used)
    BY ReachableUsed
  <2>2. WordsOf(Reachable) \subseteq WordsOf(ToSet(used))
    BY <2>1 DEF WordsOf
  <2> QED
    BY <2>2 DEF Pointers, Sound, Inner, NoDangling
<1> QED
  BY <1>1, Invariance, PTL

(* malloc returns an object of the size the program asked for: whenever    *)
(* malloc is called the program's _bump is the break, although a reuse     *)
(* does not move it.                                                       *)
THEOREM SizesKept == CollectorSpec => GetsWhatItAsked
<1>1. HeapBase /\ [CollectorNext]_collectorVars =>
        \A r \in Root, n \in Sizes : Malloc(r, n) /\ root'[r] # 0 =>
          \E o \in ToSet(used') : o.at = root'[r] /\ o.size = n
  <2> SUFFICES ASSUME HeapBase, NEW r \in Root, NEW n \in Sizes, Malloc(r, n), root'[r] # 0
               PROVE  \E o \in ToSet(used') : o.at = root'[r] /\ o.size = n
    OBVIOUS
  <2>1. DOMAIN root = Root
    BY DEF HeapBase, HeapTyped
  <2>2. ~Refused(r)
    BY <2>1 DEF Refused
  <2>3. PICK o : Obtained(r, n, o)
    BY <2>2, Allocating
  <2> QED
    BY <2>1, <2>3 DEF Obtained
<1> QED
  BY <1>1, Invariance, PTL DEF CollectorSpec, GetsWhatItAsked

(* A collection moves to the free list what cannot be reached, but for the *)
(* object that malloc takes from there at once, and no step takes from the *)
(* used list what can be reached.                                          *)
THEOREM GarbageCollected == CollectorSpec => CollectsGarbage
<1> DEFINE Only ==
      \A o \in ToSet(used) :
        /\ o \notin Reachable /\ Due /\ period' = 0 => o \in ToSet(free') \/ o = Head(used')
        /\ o \in Reachable => o \in ToSet(used')
<1>1. HeapBase /\ [CollectorNext]_collectorVars => [Only]_collectorVars
  <2> SUFFICES ASSUME HeapBase, [CollectorNext]_collectorVars PROVE Only \/ UNCHANGED collectorVars
    OBVIOUS
  <2>1. Due => period # 0
    BY CollectorAssumption DEF HeapBase, HeapTyped, Due
  <2>2. CASE Freeing
    BY <2>2 DEF Freeing
  <2>3. CASE ToSet(used') = ToSet(used) /\ period' = period
    BY <2>1, <2>3
  <2> QED
    BY <2>2, <2>3, Classified
<1> HIDE DEF Only
<1>2. CollectorSpec => [][Only]_collectorVars
  BY <1>1, Invariance, PTL DEF CollectorSpec
<1> QED
  BY <1>2 DEF CollectsGarbage, Only

-----------------------------------------------------------------------------
(* Refinement: what the program can reach changes as malloc promises.      *)
LEMMA SameBlocks ==
  /\ \A b : Promise!Words(b) = Words(b)
  /\ \A B : Promise!WordsOf(B) = WordsOf(B)
  /\ \A V, M, B : Promise!Reached(V, M, B) = Reached(V, M, B)
<1>1. \A b : Promise!Words(b) = Words(b)
  BY DEF Promise!Words, Words
<1>2. \A B : Promise!WordsOf(B) = WordsOf(B)
  BY <1>1 DEF Promise!WordsOf, WordsOf
<1>3. ASSUME NEW V, NEW M, NEW B
      PROVE  Promise!Reached(V, M, B) = Reached(V, M, B)
  <2>1. Promise!Cardinality(B) = Cardinality(B)
    BY DEF Promise!Cardinality, Cardinality
  <2> QED
    BY <2>1 DEF Promise!Reached, Promise!Targets, Promise!WordsOf, Promise!Words,
              Reached, Targets, WordsOf, Words
<1> QED
  BY <1>1, <1>2, <1>3

Agree(L, M, C) == \A w \in WordsOf(C) : L[w] = M[w]
Store == [w \in WordsOf(Reachable) |-> memory[w]]

Remembers(R, L, C) ==
  /\ root' = R
  /\ LET known == Promise!Reached({R[r] : r \in Root}, L, C) IN
     /\ Reachable' = known
     /\ Store' = [w \in Promise!WordsOf(known) |-> L[w]]

LEMMA Remembered ==
  ASSUME HeapBase', NEW C, Sound(Roots', memory', ToSet(used'), C),
         NEW L, Agree(L, memory', C)
  PROVE  Remembers(root', L, C)
<1> DEFINE known == Reached(Roots', L, C)
<1>1. known = Reached(Roots', memory', ToSet(used'))
  BY UsedAddresses, ReachedWithin DEF Agree
<1>2. known = Reachable' /\ known \in SUBSET C
  <2>1. Reached(Roots', memory', ToSet(used')) \subseteq C
    BY UsedAddresses, ReachedSound
  <2> QED
    BY <1>1, <2>1 DEF Reachable
<1> HIDE DEF known
<1>3. WordsOf(known) \subseteq WordsOf(C)
  BY <1>2 DEF WordsOf
<1>4. [w \in WordsOf(Reachable') |-> memory'[w]] = [w \in WordsOf(known) |-> L[w]]
  BY <1>2, <1>3 DEF Agree
<1>5. Promise!Reached({root'[r] : r \in Root}, L, C) = known
  BY SameBlocks DEF Roots, known
<1> QED
  BY <1>2, <1>4, <1>5, SameBlocks DEF Remembers, Store

LEMMA ImplementsAssign ==
  ASSUME HeapBase, HeapBase', Pointers, Assigned
  PROVE  Promise!Assign(Store, Reachable)
<1>1. Sound(Roots', memory', ToSet(used'), Reachable)
  BY SoundAssigned
<1>2. DOMAIN Store = WordsOf(Reachable) /\ \A w \in WordsOf(Reachable) : Store[w] = memory[w]
  BY DEF Store
<1>3. WordsOf(Reachable) \subseteq 1..MaxHeap /\ memory \in [1..MaxHeap -> 0..MaxHeap]
  BY ReachableUsed, CollectorAssumption DEF HeapBase, HeapTyped
<1>4. PICK v \in {0} \cup WordsOf(Reachable) :
        \/ \E r \in Root : root' = [root EXCEPT ![r] = v] /\ memory' = memory
        \/ \E w \in WordsOf(Reachable) : memory' = [memory EXCEPT ![w] = v] /\ root' = root
  BY DEF Assigned
<1>5. CASE \E r \in Root : root' = [root EXCEPT ![r] = v] /\ memory' = memory
  <2>1. PICK r \in Root : root' = [root EXCEPT ![r] = v] /\ memory' = memory
    BY <1>5
  <2>2. Remembers(root', Store, Reachable)
    <3>1. Agree(Store, memory', Reachable)
      BY <1>2, <2>1 DEF Agree
    <3> QED
      BY <1>1, <3>1, Remembered
  <2>3. Promise!Keep(Promise!Update(root, r, v), Store, Reachable)
    BY <2>1, <2>2 DEF Promise!Update, Promise!Keep, Remembers, Store
  <2> QED
    BY <2>3, SameBlocks DEF Promise!Assign
<1>6. CASE \E w \in WordsOf(Reachable) : memory' = [memory EXCEPT ![w] = v] /\ root' = root
  <2>1. PICK w \in WordsOf(Reachable) : memory' = [memory EXCEPT ![w] = v] /\ root' = root
    BY <1>6
  <2> DEFINE L == [Store EXCEPT ![w] = v]
  <2>2. Agree(L, memory', Reachable)
    BY <1>2, <1>3, <2>1 DEF Agree
  <2>3. Remembers(root', L, Reachable)
    <3> HIDE DEF L
    <3> QED
      BY <1>1, <2>2, Remembered
  <2>4. Promise!Keep(root, Promise!Update(Store, w, v), Reachable)
    BY <2>1, <2>3 DEF Promise!Update, Promise!Keep, Remembers, Store
  <2> QED
    BY <1>2, <2>4, SameBlocks DEF Promise!Assign
<1> QED
  BY <1>4, <1>5, <1>6

LEMMA ImplementsMalloc ==
  ASSUME HeapBase, HeapBase', Pointers, NEW r \in Root,
         Refused(r) \/ \E n \in Sizes : \E o : Obtained(r, n, o)
  PROVE  Promise!Malloc(Store, Reachable)
<1>1. DOMAIN Store = WordsOf(Reachable) /\ \A w \in WordsOf(Reachable) : Store[w] = memory[w]
  BY DEF Store
<1>2. WordsOf(Reachable) \subseteq 1..MaxHeap
  BY ReachableUsed, CollectorAssumption
<1>3. CASE Refused(r)
  <2>1. root' = [root EXCEPT ![r] = 0] /\ memory' = memory
    BY <1>3 DEF Refused
  <2>2. Agree(Store, memory', Reachable)
    BY <1>1, <2>1 DEF Agree
  <2>3. Remembers(root', Store, Reachable)
    BY <1>3, <2>2, SoundRefused, Remembered
  <2>4. Promise!Keep(Promise!Update(root, r, 0), Store, Reachable)
    BY <2>1, <2>3 DEF Promise!Update, Promise!Keep, Remembers, Store
  <2> QED
    BY <2>4 DEF Promise!Malloc
<1>4. ASSUME NEW n \in Sizes, NEW o, Obtained(r, n, o)
      PROVE  Promise!Malloc(Store, Reachable)
  <2> DEFINE L == Promise!WithZeroes(Store, o)
             C == Reachable \cup {o}
  <2>1. /\ o \in Object /\ o.size = n /\ Words(o) \subseteq 1..MaxHeap
        /\ Words(o) \cap WordsOf(Reachable) = {}
        /\ root' = [root EXCEPT ![r] = o.at]
        /\ memory' = [w \in 1..MaxHeap |-> IF w \in Words(o) THEN 0 ELSE memory[w]]
    BY <1>4 DEF Obtained
  <2>2. WordsOf(C) = WordsOf(Reachable) \cup Words(o)
    BY DEF WordsOf
  <2>3. L = [w \in WordsOf(C) |-> IF w \in Words(o) THEN 0 ELSE Store[w]]
    BY <1>1, <2>2, SameBlocks DEF Promise!WithZeroes
  <2>4. Agree(L, memory', C)
    BY <1>1, <1>2, <2>1, <2>2, <2>3 DEF Agree
  <2>5. Remembers(root', L, C)
    <3>1. Sound(Roots', memory', ToSet(used'), C)
      BY <1>4, SoundObtained
    <3> HIDE DEF L, C
    <3> QED
      BY <2>4, <3>1, Remembered
  <2>6. o \in Promise!Block
    <3>1. o = [at |-> o.at, size |-> o.size]
      BY <2>1 DEF Object
    <3>2. o.at \in 1..MaxHeap /\ o.size \in Sizes
      BY <2>1, Words1
    <3> QED
      BY <3>1, <3>2 DEF Promise!Block
  <2>7. Promise!Words(o) \subseteq 1..MaxHeap /\ Promise!Words(o) \cap Promise!WordsOf(Reachable) = {}
    BY <2>1, SameBlocks
  <2>8. \E b \in Promise!Block :
          /\ Promise!Words(b) \subseteq 1..MaxHeap
          /\ Promise!Words(b) \cap Promise!WordsOf(Reachable) = {}
          /\ Remembers(Promise!Update(root, r, b.at), Promise!WithZeroes(Store, b),
                       Reachable \cup {b})
    BY <2>1, <2>5, <2>6, <2>7 DEF Promise!Update
  <2> QED
    BY <2>8 DEF Promise!Malloc, Promise!Keep, Remembers, Store
<1> QED
  BY <1>3, <1>4

(* malloc with garbage collection is malloc: a program that cannot see the *)
(* garbage gets blocks of zeroes apart from all it can reach, and nothing  *)
(* it can reach is moved, overwritten or lost by a collection.             *)
THEOREM CollectorImplementsHeap == CollectorSpec => ImplementsHeap
<1>1. CollectorInit => Promise!HeapInit
  <2> SUFFICES ASSUME CollectorInit PROVE Promise!HeapInit
    OBVIOUS
  <2>1. Reachable = {} /\ WordsOf({}) = {}
    BY Started DEF WordsOf
  <2>2. root = [r \in Root |-> 0]
    BY DEF CollectorInit
  <2>3. Promise!WordsOf(Reachable) = {} /\ WordsOf(Reachable) = {}
    BY <2>1, SameBlocks
  <2>4. [w \in WordsOf(Reachable) |-> memory[w]] = [w \in {} |-> 0]
    BY <2>3
  <2> QED
    BY <2>1, <2>2, <2>4 DEF Promise!HeapInit
<1>2. HeapBase /\ Pointers /\ HeapBase' /\ [CollectorNext]_collectorVars
        => [Promise!HeapNext]_(Promise!heapVars)
  <2> SUFFICES ASSUME HeapBase, Pointers, HeapBase', [CollectorNext]_collectorVars
               PROVE  Promise!HeapNext \/ UNCHANGED Promise!heapVars
    OBVIOUS
  <2>1. CASE Assigned
    BY <2>1, ImplementsAssign DEF Promise!HeapNext, Store
  <2>2. CASE \E r \in Root : Refused(r) \/ \E n \in Sizes : \E o : Obtained(r, n, o)
    BY <2>2, ImplementsMalloc DEF Promise!HeapNext, Store
  <2>3. CASE UNCHANGED collectorVars
    <3>1. root' = root /\ memory' = memory /\ used' = used
      BY <2>3 DEF collectorVars
    <3>2. Reachable' = Reachable
      BY <3>1 DEF Reachable, Roots
    <3> QED
      BY <3>1, <3>2 DEF Promise!heapVars
  <2> QED
    BY <2>1, <2>2, <2>3, Classified
<1>3. CollectorSpec => Promise!HeapInit /\ [][Promise!HeapNext]_(Promise!heapVars)
  BY <1>1, <1>2, Invariance, PTL DEF CollectorSpec
<1> QED
  BY <1>3 DEF ImplementsHeap, Promise!HeapSpec
=============================================================================
