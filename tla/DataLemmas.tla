---------------------------- MODULE DataLemmas -----------------------------
(***************************************************************************)
(* Lemmas about data that the proofs of several components need: natural   *)
(* numbers, induction and recursion up to a number, and lists.             *)
(***************************************************************************)
EXTENDS Integers, FiniteSetsExt, SequencesExt, FiniteSetTheorems, TLAPS

-----------------------------------------------------------------------------
(* Quotients and remainders                                                *)
LEMMA DivMod ==
  ASSUME NEW a \in Nat, NEW n \in Nat \ {0}
  PROVE  /\ a \div n \in Nat /\ a % n \in Nat /\ a % n < n
         /\ a = (a \div n) * n + (a % n)
  OBVIOUS

LEMMA Divisible ==
  ASSUME NEW a \in Nat, NEW n \in Nat \ {0}, a % n = 0
  PROVE  \E k \in Nat : a = k * n
<1>1. a \div n \in Nat /\ a = (a \div n) * n
  BY DivMod
<1> QED
  BY <1>1

LEMMA Multiples ==
  ASSUME NEW x \in Nat, NEW y \in Nat, NEW n \in Nat, x < y
  PROVE  x * n + n <= y * n
<1>1. PICK k \in Nat : y = x + 1 + k
  OBVIOUS
<1>2. y * n = x * n + n + k * n /\ k * n >= 0
  BY <1>1
<1> QED
  BY <1>2

LEMMA Regroup ==
  ASSUME NEW t \in Nat, NEW s \in Nat, NEW i \in Nat, NEW w \in Nat, NEW r \in Nat
  PROVE  t * (s * w) + (i * w + r) = (t * s + i) * w + r
  OBVIOUS

LEMMA Unique ==
  ASSUME NEW q \in Nat, NEW r \in Nat, NEW s \in Nat, NEW t \in Nat, NEW n \in Nat \ {0},
         r < n, t < n, q * n + r = s * n + t
  PROVE  q = s /\ r = t
<1>1. q * n \in Nat /\ s * n \in Nat
  OBVIOUS
<1>2. ~(q < s) /\ ~(s < q)
  BY <1>1, Multiples
<1> QED
  BY <1>1, <1>2

LEMMA Quotient ==
  ASSUME NEW q \in Nat, NEW r \in Nat, NEW n \in Nat \ {0}, r < n
  PROVE  (q * n + r) \div n = q /\ (q * n + r) % n = r
<1>1. q * n + r \in Nat
  OBVIOUS
<1> QED
  BY <1>1, DivMod, Unique

LEMMA Bounded ==
  ASSUME NEW a \in Nat, NEW n \in Nat \ {0}, NEW k \in Nat, a < k * n
  PROVE  a \div n < k
<1>1. a \div n \in Nat /\ a % n \in Nat /\ a = (a \div n) * n + (a % n)
  BY DivMod
<1>2. k * n \in Nat /\ (a \div n) * n \in Nat
  BY <1>1
<1>3. k < a \div n => k * n + n <= (a \div n) * n
  BY <1>1, Multiples
<1> QED
  BY <1>1, <1>2, <1>3

LEMMA Shifted ==
  ASSUME NEW j \in Nat, NEW a \in Nat, NEW n \in Nat \ {0}
  PROVE  (j * n + a) % n = a % n /\ (j * n + a) \div n = j + (a \div n)
<1> DEFINE q == a \div n
           r == a % n
<1>1. q \in Nat /\ r \in Nat /\ r < n /\ a = q * n + r
  BY DivMod
<1> HIDE DEF q, r
<1>2. j * n + a = (j + q) * n + r
  BY <1>1
<1>3. (j * n + a) % n = r /\ (j * n + a) \div n = j + q
  BY <1>1, <1>2, Quotient
<1> QED
  BY <1>3 DEF q, r

LEMMA Congruent ==
  ASSUME NEW a \in Nat, NEW b \in Nat, NEW o \in Nat, NEW n \in Nat \ {0},
         NEW x, NEW y, x = a * n + o, y = b * n + o
  PROVE  x % n = y % n
<1>1. x % n = o % n
  BY Shifted
<1>2. y % n = o % n
  BY Shifted
<1> QED
  BY <1>1, <1>2

-----------------------------------------------------------------------------
(* Least and greatest elements                                             *)
LEMMA Least ==
  ASSUME NEW S \in SUBSET Nat, S # {}
  PROVE  Min(S) \in S /\ \A y \in S : Min(S) <= y
<1> DEFINE Below == {0..x : x \in S}
<1>1. \A x \in S : 0..x \in FiniteSubsetsOf(Nat)
  BY FS_Interval DEF FiniteSubsetsOf
<1>2. Below \subseteq FiniteSubsetsOf(Nat) /\ Below # {}
  BY <1>1
<1>3. PICK X \in Below : \A Y \in Below : <<Y, X>> \notin StrictSubsetOrdering(Nat)
  <2> HIDE DEF Below
  <2> QED
    BY <1>2, FS_StrictSubsetOrderingWellFounded, WFMin
<1>4. PICK x \in S : X = 0..x
  OBVIOUS
<1>5. ASSUME NEW y \in S, y < x
      PROVE  FALSE
  <2>1. x \in 0..x /\ x \notin 0..y
    BY <1>5
  <2>2. 0..y \subseteq 0..x /\ 0..y # 0..x
    BY <1>5, <2>1
  <2>3. 0..y \in SUBSET Nat /\ 0..x \in SUBSET Nat
    OBVIOUS
  <2>4. <<0..y, 0..x>> \in StrictSubsetOrdering(Nat)
    BY <2>2, <2>3, Zenon DEF StrictSubsetOrdering
  <2> QED
    BY <1>3, <1>4, <2>4
<1>6. \A y \in S : x <= y
  BY <1>5
<1> QED
  BY <1>6, Zenon DEF Min

LEMMA Greatest ==
  ASSUME NEW S \in SUBSET Nat, S # {}, NEW n \in Nat, \A x \in S : x <= n
  PROVE  Max(S) \in S /\ \A y \in S : Max(S) >= y
<1> DEFINE Gaps == {n - x : x \in S}
<1>1. Gaps \in SUBSET Nat /\ Gaps # {}
  <2>1. \A x \in S : n - x \in Nat
    OBVIOUS
  <2> QED
    BY <2>1
<1>2. Min(Gaps) \in Gaps /\ \A g \in Gaps : Min(Gaps) <= g
  <2> HIDE DEF Gaps
  <2> QED
    BY <1>1, Least
<1>3. PICK m \in S : Min(Gaps) = n - m
  BY <1>2
<1>4. \A y \in S : m >= y
  <2> SUFFICES ASSUME NEW y \in S PROVE m >= y
    OBVIOUS
  <2>1. n - m <= n - y
    BY <1>2, <1>3
  <2>2. m \in Nat /\ y \in Nat
    OBVIOUS
  <2> QED
    BY <2>1, <2>2
<1> QED
  BY <1>4, Zenon DEF Max

-----------------------------------------------------------------------------
(* Induction and recursion up to a number, on sets and functions           *)
LEMMA Induct ==
  ASSUME NEW N \in Nat, NEW T, 0 \in T, \A n \in 1..N : n - 1 \in T => n \in T
  PROVE  \A n \in 0..N : n \in T
<1> DEFINE Bad == (0..N) \ T
<1> SUFFICES ASSUME Bad # {} PROVE FALSE
  OBVIOUS
<1>1. Bad \in SUBSET Nat
  OBVIOUS
<1>2. Min(Bad) \in Bad /\ \A y \in Bad : Min(Bad) <= y
  BY <1>1, Least
<1> DEFINE m == Min(Bad)
<1> HIDE DEF m
<1>3. m \in 0..N /\ m \notin T /\ \A y \in Bad : m <= y
  BY <1>2 DEF m
<1>4. m \in 1..N /\ m - 1 \in 0..N
  BY <1>3
<1>5. m - 1 \in T
  BY <1>3, <1>4
<1> QED
  BY <1>3, <1>4, <1>5

Stepping(step, N, S) == step \in [(1..N) \X S -> S]
Stepwise(f, N, S, s0, step) ==
  f \in [0..N -> S] /\ f[0] = s0 /\ \A n \in 1..N : f[n] = step[<<n, f[n-1]>>]

LEMMA Recursion ==
  ASSUME NEW N \in Nat, NEW S, NEW s0 \in S, NEW step, Stepping(step, N, S)
  PROVE  \E f : Stepwise(f, N, S, s0, step)
<1> USE DEF Stepping, Stepwise
<1> DEFINE Good(f, k) == f \in [0..N -> S] /\ f[0] = s0 /\ \A n \in 1..k : f[n] = step[<<n, f[n-1]>>]
           T == {k \in 0..N : \E f : Good(f, k)}
<1>1. 0 \in T
  <2>1. Good([n \in 0..N |-> s0], 0)
    OBVIOUS
  <2> HIDE DEF Good
  <2> QED
    BY <2>1
<1>2. ASSUME NEW k \in 1..N, k - 1 \in T
      PROVE  k \in T
  <2>1. PICK f : Good(f, k - 1)
    BY <1>2
  <2> DEFINE x == step[<<k, f[k-1]>>]
             g == [f EXCEPT ![k] = x]
  <2>2. x \in S
    BY <2>1
  <2> HIDE DEF x
  <2>3. g \in [0..N -> S] /\ g[k] = x /\ \A n \in 0..N : n # k => g[n] = f[n]
    BY <2>1, <2>2
  <2> HIDE DEF g
  <2>4. ASSUME NEW n \in 1..k
        PROVE  g[n] = step[<<n, g[n-1]>>]
    <3>1. n - 1 \in 0..N /\ n - 1 # k /\ n \in 0..N
      OBVIOUS
    <3>2. g[n-1] = f[n-1]
      BY <2>3, <3>1
    <3>3. CASE n = k
      BY <2>3, <3>2, <3>3 DEF x
    <3>4. CASE n # k
      <4>1. n \in 1..(k - 1)
        BY <3>4
      <4> QED
        BY <2>1, <2>3, <3>1, <3>2, <3>4, <4>1
    <3> QED
      BY <3>3, <3>4
  <2>5. g[0] = s0
    BY <2>1, <2>3
  <2>6. Good(g, k)
    BY <2>3, <2>4, <2>5
  <2> HIDE DEF Good
  <2> QED
    BY <2>6
<1> HIDE DEF T
<1>3. N \in T
  BY <1>1, <1>2, Induct
<1> QED
  BY <1>3 DEF T

(* A set that grows step by step inside a finite one has all it will ever  *)
(* have after as many steps as the finite one has elements.                *)
Growing(step, B) ==
  step \in [SUBSET B -> SUBSET B] /\ \A X \in SUBSET B : X \subseteq step[X]
Stages(r, N, B, step) ==
  r \in [0..N -> SUBSET B] /\ \A n \in 1..N : r[n] = step[r[n-1]]

LEMMA Closure ==
  ASSUME NEW B, IsFiniteSet(B), NEW N \in Nat, Cardinality(B) <= N,
         NEW step, Growing(step, B), NEW r, Stages(r, N, B, step)
  PROVE  step[r[N]] = r[N]
<1> USE DEF Growing, Stages
<1> DEFINE T == {n \in 0..N : step[r[n]] = r[n] \/ Cardinality(r[n]) >= n}
<1>1. \A X \in SUBSET B : IsFiniteSet(X) /\ Cardinality(X) \in Nat /\ Cardinality(X) <= Cardinality(B)
  BY FS_Subset, FS_CardinalityType
<1>2. 0 \in T
  BY <1>1
<1>3. ASSUME NEW n \in 1..N, n - 1 \in T
      PROVE  n \in T
  <2>1. n - 1 \in 0..N /\ n \in 0..N /\ r[n-1] \in SUBSET B /\ r[n] = step[r[n-1]] /\ r[n] \in SUBSET B
    OBVIOUS
  <2>2. CASE step[r[n-1]] = r[n-1]
    BY <2>1, <2>2
  <2>3. CASE step[r[n-1]] # r[n-1] /\ Cardinality(r[n-1]) >= n - 1
    <3>1. r[n-1] \subseteq r[n] /\ r[n-1] # r[n]
      BY <2>1, <2>3
    <3>2. Cardinality(r[n-1]) < Cardinality(r[n])
      BY <1>1, <2>1, <3>1, FS_Subset
    <3>3. Cardinality(r[n]) >= n
      BY <1>1, <2>1, <2>3, <3>2
    <3> QED
      BY <2>1, <3>3
  <2> QED
    BY <1>3, <2>2, <2>3
<1> HIDE DEF T
<1>4. N \in T
  <2>1. \A n \in 1..N : n - 1 \in T => n \in T
    BY <1>3
  <2>2. \A n \in 0..N : n \in T
    BY <1>2, <2>1, Induct
  <2> QED
    BY <2>2
<1>5. CASE Cardinality(r[N]) >= N
  <2>1. r[N] \in SUBSET B /\ Cardinality(r[N]) = Cardinality(B)
    BY <1>1, <1>5, FS_CardinalityType
  <2>2. r[N] = B
    BY <2>1, FS_Subset
  <2>3. step[B] \in SUBSET B /\ B \subseteq step[B]
    OBVIOUS
  <2> QED
    BY <2>2, <2>3
<1> QED
  BY <1>4, <1>5 DEF T

-----------------------------------------------------------------------------
(* Lists without repetitions                                               *)
LEMMA Pushed ==
  ASSUME NEW S, NEW u \in Seq(S), NEW x \in S
  PROVE  /\ <<x>> \o u \in Seq(S) /\ Len(<<x>> \o u) = Len(u) + 1 /\ Head(<<x>> \o u) = x
         /\ ToSet(<<x>> \o u) = {x} \cup ToSet(u)
         /\ IsInjective(u) /\ x \notin ToSet(u) => IsInjective(<<x>> \o u)
<1> DEFINE l == <<x>> \o u
<1>1. /\ l \in Seq(S) /\ Len(l) = Len(u) + 1 /\ Head(l) = x /\ l[1] = x
      /\ \A i \in 1..Len(u) : l[i + 1] = u[i]
      /\ DOMAIN l = 1..(Len(u) + 1) /\ DOMAIN u = 1..Len(u) /\ Len(u) \in Nat
  OBVIOUS
<1> HIDE DEF l
<1>2. ASSUME NEW i \in DOMAIN l
      PROVE  i = 1 \/ (i - 1 \in DOMAIN u /\ l[i] = u[i - 1])
  BY <1>1
<1>3. ToSet(l) \subseteq {x} \cup ToSet(u)
  BY <1>1, <1>2 DEF ToSet
<1>4. {x} \cup ToSet(u) \subseteq ToSet(l)
  <2>1. 1 \in DOMAIN l /\ \A i \in DOMAIN u : i + 1 \in DOMAIN l
    BY <1>1
  <2> QED
    BY <1>1, <2>1 DEF ToSet
<1>5. ASSUME IsInjective(u), x \notin ToSet(u), NEW i \in DOMAIN l, NEW j \in DOMAIN l, l[i] = l[j]
      PROVE  i = j
  <2>1. \A k \in DOMAIN u : u[k] # x
    BY <1>5 DEF ToSet
  <2>2. CASE i = 1 \/ j = 1
    BY <1>1, <1>2, <1>5, <2>1, <2>2
  <2>3. CASE i # 1 /\ j # 1
    <3>1. i - 1 = j - 1
      BY <1>2, <1>5, <2>3 DEF IsInjective
    <3> QED
      BY <1>1, <3>1
  <2> QED
    BY <2>2, <2>3
<1> QED
  BY <1>1, <1>3, <1>4, <1>5 DEF IsInjective, l

LEMMA Popped ==
  ASSUME NEW S, NEW u \in Seq(S), u # <<>>, IsInjective(u)
  PROVE  /\ Tail(u) \in Seq(S) /\ Len(Tail(u)) = Len(u) - 1 /\ IsInjective(Tail(u))
         /\ Head(u) \in ToSet(u) /\ ToSet(Tail(u)) = ToSet(u) \ {Head(u)}
<1>1. /\ DOMAIN u = 1..Len(u) /\ Len(u) \in Nat /\ Len(u) >= 1
      /\ DOMAIN Tail(u) = 1..(Len(u) - 1)
      /\ \A i \in 1..(Len(u) - 1) : Tail(u)[i] = u[i + 1]
      /\ Head(u) = u[1] /\ Tail(u) \in Seq(S) /\ Len(Tail(u)) = Len(u) - 1
  OBVIOUS
<1>2. IsInjective(Tail(u))
  BY <1>1 DEF IsInjective
<1>3. ToSet(Tail(u)) \subseteq ToSet(u) \ {Head(u)}
  BY <1>1 DEF IsInjective, ToSet
<1>4. ASSUME NEW i \in DOMAIN u, u[i] # u[1]
      PROVE  u[i] \in ToSet(Tail(u))
  <2>1. i - 1 \in 1..(Len(u) - 1) /\ Tail(u)[i - 1] = u[i]
    BY <1>1, <1>4
  <2> QED
    BY <1>1, <2>1 DEF ToSet
<1>5. Head(u) \in ToSet(u)
  BY <1>1 DEF ToSet
<1>6. ToSet(u) \ {Head(u)} \subseteq ToSet(Tail(u))
  BY <1>1, <1>4 DEF ToSet
<1> QED
  BY <1>1, <1>2, <1>3, <1>5, <1>6

LEMMA Joined ==
  ASSUME NEW S, NEW a \in Seq(S), NEW b \in Seq(S)
  PROVE  /\ a \o b \in Seq(S) /\ Len(a \o b) = Len(a) + Len(b)
         /\ \A i \in 1..Len(a) : (a \o b)[i] = a[i]
         /\ \A i \in 1..Len(b) : (a \o b)[Len(a) + i] = b[i]
         /\ \A i \in 1..(Len(a) + Len(b)) : i <= Len(a) \/ i - Len(a) \in 1..Len(b)
OBVIOUS

LEMMA Appended ==
  ASSUME NEW S, NEW s \in Seq(S), NEW x \in S
  PROVE  /\ Append(s, x) \in Seq(S) /\ Len(Append(s, x)) = Len(s) + 1 /\ Last(Append(s, x)) = x
         /\ \A i \in 1..Len(s) : Append(s, x)[i] = s[i]
BY DEF Last

LEMMA Replaced ==
  ASSUME NEW S, NEW s \in Seq(S), NEW x \in S, NEW i \in 1..Len(s)
  PROVE  /\ [s EXCEPT ![i] = x] \in Seq(S) /\ Len([s EXCEPT ![i] = x]) = Len(s)
         /\ [s EXCEPT ![i] = x][i] = x
         /\ \A j \in 1..Len(s) : j # i => [s EXCEPT ![i] = x][j] = s[j]
OBVIOUS

LEMMA Removed ==
  ASSUME NEW S, NEW u \in Seq(S), NEW i \in DOMAIN u
  PROVE  /\ RemoveAt(u, i) \in Seq(S) /\ Len(RemoveAt(u, i)) = Len(u) - 1
         /\ \A j \in 1..(Len(u) - 1) : RemoveAt(u, i)[j] = IF j < i THEN u[j] ELSE u[j + 1]
<1> DEFINE l == RemoveAt(u, i)
<1>1. DOMAIN u = 1..Len(u) /\ Len(u) \in Nat /\ i \in 1..Len(u)
  OBVIOUS
<1>2. /\ l \in Seq(S) /\ Len(l) = Len(u) - 1
      /\ \A j \in 1..(Len(u) - 1) : l[j] = IF j < i THEN u[j] ELSE u[j + 1]
  <2> DEFINE a == SubSeq(u, 1, i - 1)
             b == SubSeq(u, i + 1, Len(u))
  <2>1. /\ a \in Seq(S) /\ Len(a) = i - 1 /\ \A j \in 1..(i - 1) : a[j] = u[j]
        /\ b \in Seq(S) /\ Len(b) = Len(u) - i /\ \A j \in 1..(Len(u) - i) : b[j] = u[i + j]
    <3>1. a \in Seq(S) /\ b \in Seq(S)
      BY <1>1
    <3>2. Len(a) = i - 1 /\ \A j \in 1..(i - 1) : a[j] = u[j]
      BY <1>1
    <3>3. Len(b) = Len(u) - i /\ \A j \in 1..(Len(u) - i) : b[j] = u[i + j]
      BY <1>1
    <3> QED
      BY <3>1, <3>2, <3>3
  <2>2. l = a \o b
    BY DEF RemoveAt
  <2> HIDE DEF a, b, l
  <2>3. /\ l \in Seq(S) /\ Len(l) = Len(a) + Len(b)
        /\ \A j \in 1..Len(a) : l[j] = a[j]
        /\ \A j \in 1..Len(b) : l[Len(a) + j] = b[j]
    <3>1. a \in Seq(S) /\ b \in Seq(S)
      BY <2>1
    <3>2. /\ a \o b \in Seq(S) /\ Len(a \o b) = Len(a) + Len(b)
          /\ \A j \in 1..Len(a) : (a \o b)[j] = a[j]
          /\ \A j \in 1..Len(b) : (a \o b)[Len(a) + j] = b[j]
      BY <3>1
    <3> QED
      BY <2>2, <3>2
  <2>4. Len(l) = Len(u) - 1
    BY <1>1, <2>1, <2>3
  <2>5. ASSUME NEW j \in 1..(Len(u) - 1)
        PROVE  l[j] = IF j < i THEN u[j] ELSE u[j + 1]
    <3>1. CASE j < i
      <4>1. j \in 1..(i - 1) /\ j \in 1..Len(a)
        BY <1>1, <2>1, <3>1
      <4>2. l[j] = a[j] /\ a[j] = u[j]
        BY <2>1, <2>3, <4>1
      <4> QED
        BY <3>1, <4>2
    <3>2. CASE j >= i
      <4>1. j - (i - 1) \in 1..Len(b) /\ Len(a) + (j - (i - 1)) = j /\ i + (j - (i - 1)) = j + 1
        BY <1>1, <2>1, <3>2
      <4>2. l[j] = b[j - (i - 1)]
        BY <2>3, <4>1
      <4>3. b[j - (i - 1)] = u[j + 1]
        <5> DEFINE k == j - (i - 1)
        <5>1. k \in 1..(Len(u) - i) /\ i + k = j + 1
          BY <2>1, <4>1
        <5> HIDE DEF k
        <5>2. b[k] = u[i + k]
          BY <2>1, <5>1
        <5> QED
          BY <5>1, <5>2 DEF k
      <4> QED
        BY <1>1, <3>2, <4>2, <4>3
    <3> QED
      BY <1>1, <3>1, <3>2
  <2> QED
    BY <2>3, <2>4, <2>5
<1> QED
  BY <1>2

LEMMA Unlinked ==
  ASSUME NEW S, NEW u \in Seq(S), IsInjective(u), NEW i \in DOMAIN u
  PROVE  /\ RemoveAt(u, i) \in Seq(S) /\ Len(RemoveAt(u, i)) = Len(u) - 1
         /\ IsInjective(RemoveAt(u, i)) /\ ToSet(RemoveAt(u, i)) = ToSet(u) \ {u[i]}
<1> DEFINE l == RemoveAt(u, i)
<1>1. DOMAIN u = 1..Len(u) /\ Len(u) \in Nat /\ i \in 1..Len(u)
  OBVIOUS
<1>2. /\ l \in Seq(S) /\ Len(l) = Len(u) - 1
      /\ \A j \in 1..(Len(u) - 1) : l[j] = IF j < i THEN u[j] ELSE u[j + 1]
  BY Removed
<1> HIDE DEF l
<1>3. DOMAIN l = 1..(Len(u) - 1)
  BY <1>1, <1>2
<1>4. IsInjective(l)
  <2>1. ASSUME NEW j \in DOMAIN l
        PROVE  \E k \in DOMAIN u : l[j] = u[k] /\ k = IF j < i THEN j ELSE j + 1
    BY <1>1, <1>2, <1>3
  <2>2. ASSUME NEW j \in DOMAIN l, NEW k \in DOMAIN l, l[j] = l[k]
        PROVE  j = k
    <3>1. PICK m \in DOMAIN u : l[j] = u[m] /\ m = IF j < i THEN j ELSE j + 1
      BY <2>1
    <3>2. PICK n \in DOMAIN u : l[k] = u[n] /\ n = IF k < i THEN k ELSE k + 1
      BY <2>1
    <3>3. m = n
      BY <2>2, <3>1, <3>2 DEF IsInjective
    <3> QED
      BY <1>1, <1>3, <3>1, <3>2, <3>3
  <2> QED
    BY <2>2 DEF IsInjective
<1>5. ToSet(l) \subseteq ToSet(u) \ {u[i]}
  BY <1>1, <1>2, <1>3 DEF IsInjective, ToSet
<1>6. ASSUME NEW j \in DOMAIN u, u[j] # u[i]
      PROVE  u[j] \in ToSet(l)
  <2>1. CASE j < i
    <3>1. j \in DOMAIN l /\ l[j] = u[j]
      BY <1>1, <1>2, <1>3, <2>1
    <3> QED
      BY <3>1 DEF ToSet
  <2>2. CASE j > i
    <3>1. j - 1 \in DOMAIN l /\ l[j - 1] = u[j]
      BY <1>1, <1>2, <1>3, <2>2
    <3> QED
      BY <3>1 DEF ToSet
  <2> QED
    BY <1>1, <1>6, <2>1, <2>2
<1>7. ToSet(u) \ {u[i]} \subseteq ToSet(l)
  BY <1>6 DEF ToSet
<1> QED
  BY <1>2, <1>4, <1>5, <1>7 DEF l

LEMMA Wider ==
  ASSUME NEW a \in Nat, NEW b \in Nat, a <= b, NEW s \in Seq(0..a)
  PROVE  s \in Seq(0..b)
<1>1. \A i \in 1..Len(s) : s[i] \in 0..b
  OBVIOUS
<1> QED
  BY <1>1
=============================================================================
