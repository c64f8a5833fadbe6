--------------------------- MODULE BareMetalProofs ---------------------------
(***************************************************************************)
(* Booting maps every frame the kernel works on, for any size of the pool  *)
(* and the page tables that lets it boot, and demand paging keeps it so;   *)
(* a program that uses its memory as it may is never killed for it.        *)
(***************************************************************************)
EXTENDS BareMetal, DataLemmas

LEMMA Sizes ==
  /\ Pool \in Nat \ {0} /\ StackPages \in Nat \ {0} /\ ImagePages \in Nat \ {0} /\ W \in Nat \ {0}
  /\ Top \in Nat /\ UserTop \in Nat /\ UserTop <= Top - StackPages /\ UserTop - 1 \in Nat
  /\ ElfFirst \in Nat /\ ElfLast \in Nat /\ ElfFirst <= ElfLast /\ ElfLast < UserTop - 1
  /\ \A e \in StackEnds : /\ e \in Nat /\ e - StackPages - ImagePages \in Nat
                          /\ e + 2 * Pool < Top - StackPages
<1>1. Entries \in Nat /\ Entries * Entries \in Nat /\ Entries * Entries * Entries \in Nat
  BY BareMetalAssumption DEF BareMetalAssumption
<1>2. Entries >= 2 /\ Entries * Entries >= 2 /\ Entries * Entries * Entries >= 2
  <2>1. Entries >= 2
    BY BareMetalAssumption DEF BareMetalAssumption
  <2>2. Entries * Entries >= 2 * Entries
    BY <1>1, <2>1
  <2>3. Entries * Entries * Entries >= 2 * Entries
    <3>1. PICK s \in Nat : s = Entries * Entries /\ s >= 2
      BY <1>1, <2>1, <2>2
    <3>2. s * Entries >= 2 * Entries
      BY <1>1, <3>1
    <3> QED
      BY <3>1, <3>2
  <2> QED
    BY <1>1, <2>1, <2>2, <2>3
<1>3. Top \in Nat /\ UserTop \in Nat /\ UserTop - 1 \in Nat
  <2>1. PICK n \in Nat : n = Entries * Entries * Entries /\ n >= 2
    BY <1>1, <1>2
  <2>2. Top = n - 1 /\ UserTop = n \div 2
    BY <2>1 DEF Top, UserTop
  <2> QED
    BY <2>1, <2>2
<1> QED
  BY <1>3, BareMetalAssumption DEF BareMetalAssumption

-----------------------------------------------------------------------------
(* Mapping pages.                                                           *)
Table == UNION {[D -> Nat] : D \in SUBSET Nat}
Memory == [mids : Table, leaves : Table, pages : Table, next : Nat, used : Nat, ok : BOOLEAN]
Level == {"mids", "leaves"}

LEMMA Entered ==
  ASSUME NEW t \in Table, NEW i \in Nat, NEW f \in Nat
  PROVE  /\ Enter(t, i, f) \in Table /\ DOMAIN Enter(t, i, f) = DOMAIN t \cup {i}
         /\ Enter(t, i, f)[i] = f /\ \A j \in DOMAIN t : j # i => Enter(t, i, f)[j] = t[j]
<1>1. PICK D \in SUBSET Nat : t \in [D -> Nat]
  BY DEF Table
<1>2. Enter(t, i, f) \in [D \cup {i} -> Nat]
  BY <1>1 DEF Enter
<1> QED
  BY <1>1, <1>2 DEF Enter, Table

(* What mapping pages does to a memory: the frames it takes are next to    *)
(* each other, tables are only added, pages only mapped. P is a set of     *)
(* pages that holds all that change, and that are mapped if m.ok stays.    *)
Grew(m, r, P) ==
  /\ r \in Memory
  /\ m.next <= r.next /\ r.next = m.next + (r.used - m.used)
  /\ m.used <= Pool => r.used <= Pool
  /\ Tables(r) \subseteq Tables(m) \cup m.next..(r.next - 1)
  /\ DOMAIN m.pages \subseteq DOMAIN r.pages /\ DOMAIN r.pages \subseteq DOMAIN m.pages \cup P
  /\ \A p \in DOMAIN m.pages \ P : r.pages[p] = m.pages[p]
  /\ r.ok => m.ok /\ P \subseteq DOMAIN r.pages

LEMMA GrewNot ==
  ASSUME NEW m \in Memory
  PROVE  Grew(m, m, {}) /\ \A P : Grew(m, [m EXCEPT !.ok = FALSE], P)
<1> DEFINE n == [m EXCEPT !.ok = FALSE]
<1>1. m.next \in Nat /\ m.used \in Nat
  BY DEF Memory
<1>2. /\ n \in Memory /\ n.next = m.next /\ n.used = m.used /\ n.mids = m.mids
      /\ n.leaves = m.leaves /\ n.pages = m.pages /\ n.ok = FALSE
  BY DEF Memory
<1> HIDE DEF n
<1>3. Tables(n) = Tables(m)
  BY <1>2 DEF Tables
<1>4. \A P : Grew(m, n, P)
  BY <1>1, <1>2, <1>3 DEF Grew
<1>5. Grew(m, m, {})
  BY <1>1 DEF Grew
<1> QED
  BY <1>4, <1>5 DEF n

LEMMA GrewOn ==
  ASSUME NEW m \in Memory, NEW n, NEW r, NEW P, NEW Q, Grew(m, n, P), Grew(n, r, Q)
  PROVE  Grew(m, r, P \cup Q)
<1>1. /\ m.next \in Nat /\ n.next \in Nat /\ r.next \in Nat
      /\ m.used \in Nat /\ n.used \in Nat /\ r.used \in Nat
  BY DEF Grew, Memory
<1>2. Tables(r) \subseteq Tables(m) \cup m.next..(r.next - 1)
  <2>1. /\ Tables(n) \subseteq Tables(m) \cup m.next..(n.next - 1)
        /\ Tables(r) \subseteq Tables(n) \cup n.next..(r.next - 1)
        /\ m.next <= n.next /\ n.next <= r.next
    BY DEF Grew
  <2>2. m.next..(n.next - 1) \subseteq m.next..(r.next - 1) /\ n.next..(r.next - 1) \subseteq m.next..(r.next - 1)
    BY <1>1, <2>1
  <2> QED
    BY <2>1, <2>2
<1>3. /\ m.next <= r.next /\ r.next = m.next + (r.used - m.used)
      /\ m.used <= Pool => r.used <= Pool
  BY <1>1 DEF Grew
<1>4. /\ DOMAIN m.pages \subseteq DOMAIN r.pages /\ DOMAIN r.pages \subseteq DOMAIN m.pages \cup (P \cup Q)
      /\ \A p \in DOMAIN m.pages \ (P \cup Q) : r.pages[p] = m.pages[p]
      /\ r.ok => m.ok /\ P \cup Q \subseteq DOMAIN r.pages
  BY DEF Grew
<1>5. r \in Memory
  BY DEF Grew
<1> QED
  BY <1>2, <1>3, <1>4, <1>5 DEF Grew

LEMMA TableTaken ==
  ASSUME NEW m \in Memory, NEW level \in Level, NEW i \in Nat
  PROVE  Grew(m, WithTable(m, level, i), {}) /\ WithTable(m, level, i).pages = m.pages
<1> DEFINE r == WithTable(m, level, i)
<1>1. CASE i \in DOMAIN m[level] \/ m.used >= Pool
  <2>1. r = m \/ r = [m EXCEPT !.ok = FALSE]
    BY <1>1 DEF WithTable
  <2>2. r.pages = m.pages
    BY <2>1 DEF Memory
  <2>3. Grew(m, r, {})
    BY <2>1, GrewNot
  <2> QED
    BY <2>2, <2>3
<1>2. CASE ~(i \in DOMAIN m[level] \/ m.used >= Pool)
  <2>1. m.next \in Nat /\ m.used \in Nat /\ m.mids \in Table /\ m.leaves \in Table /\ Pool \in Nat
    BY BareMetalAssumption DEF Memory, BareMetalAssumption
  <2>2. m.used < Pool
    BY <1>2, <2>1
  <2> DEFINE t == IF level = "mids" THEN m.mids ELSE m.leaves
             u == Enter(t, i, m.next)
             old == {t[j] : j \in DOMAIN t}
             new == {u[j] : j \in DOMAIN u}
  <2>3. t \in Table /\ u \in Table /\ new \subseteq old \cup {m.next}
    <3>1. t \in Table
      BY <2>1
    <3> HIDE DEF t
    <3>2. u \in Table /\ DOMAIN u = DOMAIN t \cup {i} /\ u[i] = m.next /\ \A j \in DOMAIN t : j # i => u[j] = t[j]
      <4>1. m.next \in Nat
        BY <2>1
      <4>2. PICK f \in Nat : f = m.next
        BY <4>1
      <4> QED
        BY <3>1, <4>2, Entered, ZenonT(60)
    <3> HIDE DEF u
    <3> QED
      BY <3>1, <3>2
  <2>4. /\ r \in Memory /\ r.next = m.next + 1 /\ r.used = m.used + 1 /\ r.pages = m.pages /\ r.ok = m.ok
        /\ level = "mids" => r.mids = u /\ r.leaves = m.leaves
        /\ level # "mids" => r.leaves = u /\ r.mids = m.mids
    <3>1. CASE level = "mids"
      <4>1. r = [m EXCEPT !.next = m.next + 1, !.used = m.used + 1, !.mids = u]
        BY <1>2, <3>1 DEF WithTable, Take, Memory
      <4>2. u \in Table /\ m.next + 1 \in Nat /\ m.used + 1 \in Nat
        BY <2>1, <2>3
      <4> HIDE DEF u, r, t
      <4>3. r \in Memory
        BY <4>1, <4>2 DEF Memory
      <4>4. /\ r.next = m.next + 1 /\ r.used = m.used + 1 /\ r.pages = m.pages /\ r.ok = m.ok
            /\ r.mids = u /\ r.leaves = m.leaves
        BY <4>1 DEF Memory
      <4> QED
        BY <3>1, <4>3, <4>4
    <3>2. CASE level = "leaves"
      <4>1. r = [m EXCEPT !.next = m.next + 1, !.used = m.used + 1, !.leaves = u]
        BY <1>2, <3>2 DEF WithTable, Take, Memory
      <4>2. u \in Table /\ m.next + 1 \in Nat /\ m.used + 1 \in Nat
        BY <2>1, <2>3
      <4> HIDE DEF u, r, t
      <4>3. r \in Memory
        BY <4>1, <4>2 DEF Memory
      <4>4. /\ r.next = m.next + 1 /\ r.used = m.used + 1 /\ r.pages = m.pages /\ r.ok = m.ok
            /\ r.leaves = u /\ r.mids = m.mids
        BY <4>1 DEF Memory
      <4> QED
        BY <3>2, <4>3, <4>4
    <3> QED
      BY <3>1, <3>2 DEF Level
  <2>5. Tables(r) \subseteq Tables(m) \cup {m.next}
    <3> HIDE DEF r, u
    <3>1. CASE level = "mids"
      <4>1. Tables(r) = new \cup {m.leaves[j] : j \in DOMAIN m.leaves}
        BY <2>4, <3>1 DEF Tables
      <4>2. old = {m.mids[j] : j \in DOMAIN m.mids}
        BY <3>1
      <4> HIDE DEF new, old
      <4> QED
        BY <2>3, <4>1, <4>2 DEF Tables
    <3>2. CASE level # "mids"
      <4>1. Tables(r) = new \cup {m.mids[j] : j \in DOMAIN m.mids}
        BY <2>4, <3>2 DEF Tables
      <4>2. old = {m.leaves[j] : j \in DOMAIN m.leaves}
        BY <3>2
      <4> HIDE DEF new, old
      <4> QED
        BY <2>3, <4>1, <4>2 DEF Tables
    <3> QED
      BY <3>1, <3>2
  <2> HIDE DEF r, t, u, old, new
  <2>6. m.next \in m.next..(r.next - 1)
    BY <2>1, <2>4
  <2>7. Grew(m, r, {}) /\ r.pages = m.pages
    BY <2>1, <2>2, <2>4, <2>5, <2>6 DEF Grew
  <2> QED
    BY <2>7 DEF r
<1> QED
  BY <1>1, <1>2

(* The pages mapped since m are mapped to frames taken since.              *)
Fresh(m, r) ==
  \A p \in DOMAIN r.pages : \/ r.pages[p] \in m.next..(r.next - 1)
                            \/ p \in DOMAIN m.pages /\ r.pages[p] = m.pages[p]

LEMMA PageMapped ==
  ASSUME NEW m \in Memory, NEW page \in Nat, NEW frame \in Nat, NEW r, r = MapPageByPpn(m, page, frame)
  PROVE  /\ Grew(m, r, {page})
         /\ r.ok => r.pages[page] = frame
         /\ page \in DOMAIN r.pages => \/ r.pages[page] = frame
                                       \/ page \in DOMAIN m.pages /\ r.pages[page] = m.pages[page]
<1> DEFINE n == WithTable(m, "mids", page \div (Entries * Entries))
           l == WithTable(n, "leaves", page \div Entries)
<1>1. /\ Grew(m, n, {}) /\ n \in Memory /\ n.pages = m.pages
      /\ Grew(n, l, {}) /\ l \in Memory /\ l.pages = m.pages
  <2>1. page \div (Entries * Entries) \in Nat /\ page \div Entries \in Nat
    <3>1. Entries \in Nat \ {0} /\ Entries * Entries \in Nat \ {0}
      BY BareMetalAssumption DEF BareMetalAssumption
    <3> QED
      BY <3>1, DivMod
  <2>2. Grew(m, n, {}) /\ n.pages = m.pages
    BY <2>1, TableTaken DEF Level
  <2>3. n \in Memory
    BY <2>2 DEF Grew
  <2> HIDE DEF n
  <2>4. Grew(n, l, {}) /\ l.pages = n.pages
    BY <2>1, <2>3, TableTaken DEF Level
  <2> QED
    BY <2>2, <2>3, <2>4 DEF Grew
<1>2. r = IF ~n.ok THEN n ELSE IF ~l.ok THEN l ELSE [l EXCEPT !.pages = Enter(@, page, frame)]
  BY DEF MapPageByPpn
<1> HIDE DEF n, l
<1>3. Grew(m, l, {})
  <2>1. Grew(m, l, {} \cup {})
    BY <1>1, GrewOn
  <2> QED
    BY <2>1
<1>4. CASE ~n.ok
  <2>1. Grew(m, n, {page})
    BY <1>1, <1>4 DEF Grew
  <2> QED
    BY <1>1, <1>2, <1>4, <2>1
<1>5. CASE n.ok /\ ~l.ok
  <2>1. Grew(m, l, {page})
    BY <1>3, <1>5 DEF Grew
  <2> QED
    BY <1>1, <1>2, <1>5, <2>1
<1>6. CASE n.ok /\ l.ok
  <2> DEFINE u == Enter(m.pages, page, frame)
  <2>1. /\ u \in Table /\ DOMAIN u = DOMAIN m.pages \cup {page}
        /\ u[page] = frame /\ \A j \in DOMAIN m.pages : j # page => u[j] = m.pages[j]
    <3>1. m.pages \in Table
      BY DEF Memory
    <3> QED
      BY <3>1, Entered, ZenonT(60)
  <2> HIDE DEF u
  <2>2. r = [l EXCEPT !.pages = u]
    BY <1>1, <1>2, <1>6 DEF u, Memory
  <2>3. /\ r \in Memory /\ r.next = l.next /\ r.used = l.used /\ r.ok = l.ok
        /\ r.mids = l.mids /\ r.leaves = l.leaves /\ r.pages = u
    BY <1>1, <2>1, <2>2 DEF Memory
  <2>4. Tables(r) = Tables(l)
    BY <2>3 DEF Tables
  <2>5. Grew(m, r, {page})
    BY <1>3, <2>1, <2>3, <2>4 DEF Grew
  <2> QED
    BY <2>1, <2>3, <2>5
<1> QED
  BY <1>4, <1>5, <1>6

LEMMA PageAdded ==
  ASSUME NEW m \in Memory, NEW page \in Nat, NEW r, r = MapPage(m, page)
  PROVE  Grew(m, r, {page}) /\ Fresh(m, r)
<1> DEFINE n == Take(m)
<1>1. m.next \in Nat /\ m.used \in Nat /\ Pool \in Nat
  BY BareMetalAssumption DEF Memory, BareMetalAssumption
<1>2. CASE m.used >= Pool
  <2>1. r = [m EXCEPT !.ok = FALSE]
    BY <1>2 DEF MapPage
  <2>2. r.pages = m.pages
    BY <2>1 DEF Memory
  <2>3. Grew(m, r, {page})
    BY <2>1, GrewNot
  <2> QED
    BY <2>2, <2>3 DEF Fresh
<1>3. CASE m.used < Pool
  <2>1. /\ n \in Memory /\ n.next = m.next + 1 /\ n.used = m.used + 1 /\ n.ok = m.ok
        /\ n.mids = m.mids /\ n.leaves = m.leaves /\ n.pages = m.pages
    <3>1. n = [m EXCEPT !.next = m.next + 1, !.used = m.used + 1]
      BY DEF Take, Memory
    <3>2. m.next + 1 \in Nat /\ m.used + 1 \in Nat
      BY <1>1
    <3> HIDE DEF n
    <3> QED
      BY <3>1, <3>2 DEF Memory
  <2>2. r = MapPageByPpn(n, page, m.next)
    BY <1>1, <1>3 DEF MapPage
  <2> HIDE DEF n
  <2>3. /\ Grew(n, r, {page})
        /\ page \in DOMAIN r.pages => \/ r.pages[page] = m.next
                                      \/ page \in DOMAIN n.pages /\ r.pages[page] = n.pages[page]
    <3>1. PICK frame \in Nat : frame = m.next
      BY <1>1
    <3> QED
      BY <2>1, <2>2, <3>1, PageMapped
  <2>4. Tables(n) = Tables(m)
    BY <2>1 DEF Tables
  <2>5. Grew(m, n, {})
    BY <1>1, <1>3, <2>1, <2>4 DEF Grew
  <2>6. Grew(m, r, {page})
    <3>1. Grew(m, r, {} \cup {page})
      BY <2>3, <2>5, GrewOn
    <3>2. {} \cup {page} = {page}
      OBVIOUS
    <3> QED
      BY <3>1, <3>2
  <2>7. m.next \in m.next..(r.next - 1)
    <3>1. n.next <= r.next /\ r.next \in Nat
      BY <2>3 DEF Grew, Memory
    <3> QED
      BY <1>1, <2>1, <3>1
  <2>8. Fresh(m, r)
    <3> SUFFICES ASSUME NEW p \in DOMAIN r.pages
                 PROVE  \/ r.pages[p] \in m.next..(r.next - 1)
                        \/ p \in DOMAIN m.pages /\ r.pages[p] = m.pages[p]
      BY DEF Fresh
    <3>1. CASE p = page
      BY <2>1, <2>3, <2>7, <3>1
    <3>2. CASE p # page
      BY <2>6, <3>2 DEF Grew
    <3> QED
      BY <3>1, <3>2
  <2> QED
    BY <2>6, <2>8
<1> QED
  BY <1>1, <1>2, <1>3

(* Loops over a list of pages and frames; a page has one frame in it.      *)
Places(list) ==
  /\ list \in Seq(Nat \X Nat)
  /\ \A j, k \in 1..Len(list) : list[j][1] = list[k][1] => list[j][2] = list[k][2]

PagesOf(list, n) == {list[j][1] : j \in 1..n}
Placed(r, list, n) == \A j \in 1..n : r.pages[list[j][1]] = list[j][2]

LEMMA AllMapped ==
  ASSUME NEW m \in Memory, NEW list, Places(list), NEW r, r = MapAll(m, list)
  PROVE  /\ Grew(m, r, PagesOf(list, Len(list)))
         /\ r.ok => Placed(r, list, Len(list))
         /\ Len(list) = 0 => r = m
<1> DEFINE N == Len(list)
           Body(f) == [i \in 0..N |-> IF i = 0 THEN m ELSE MapPageByPpn(f[i - 1], list[i][1], list[i][2])]
           step == [p \in (1..N) \X Memory |-> MapPageByPpn(p[2], list[p[1]][1], list[p[1]][2])]
           mapped == CHOOSE f : f = Body(f)
<1>1. N \in Nat /\ \A i \in 1..N : list[i][1] \in Nat /\ list[i][2] \in Nat
  BY DEF Places
<1>2. ASSUME NEW n \in Memory, NEW i \in 1..N, NEW o, o = MapPageByPpn(n, list[i][1], list[i][2])
      PROVE  /\ Grew(n, o, {list[i][1]}) /\ o \in Memory
             /\ o.ok => o.pages[list[i][1]] = list[i][2]
  <2>1. PICK page \in Nat, frame \in Nat : page = list[i][1] /\ frame = list[i][2]
    BY <1>1
  <2>2. Grew(n, o, {page}) /\ (o.ok => o.pages[page] = frame)
    BY <1>2, <2>1, PageMapped
  <2> QED
    BY <2>1, <2>2 DEF Grew
<1>3. /\ Stepping(step, N, Memory)
      /\ \A i \in 1..N, n \in Memory : step[<<i, n>>] = MapPageByPpn(n, list[i][1], list[i][2])
  BY <1>2 DEF Stepping
<1> HIDE DEF step, N
<1>4. PICK f : Stepwise(f, N, Memory, m, step)
  BY <1>1, <1>3, Recursion
<1>5. f = Body(f)
  <2>1. f = [i \in 0..N |-> f[i]]
    BY <1>4 DEF Stepwise
  <2>2. ASSUME NEW i \in 0..N
        PROVE  f[i] = Body(f)[i]
    <3>1. CASE i = 0
      BY <1>4, <3>1 DEF Stepwise
    <3>2. CASE i # 0
      <4>1. i \in 1..N /\ i - 1 \in 0..N
        BY <1>1, <3>2
      <4>2. f[i-1] \in Memory /\ f[i] = step[<<i, f[i-1]>>]
        BY <1>4, <4>1 DEF Stepwise
      <4> QED
        BY <1>3, <3>2, <4>1, <4>2
    <3> QED
      BY <3>1, <3>2
  <2> QED
    BY <2>1, <2>2
<1>6. mapped = Body(mapped)
  <2> HIDE DEF Body
  <2> QED
    BY <1>5
<1>7. r = mapped[N]
  BY DEF MapAll, N
<1> HIDE DEF mapped
<1>8. mapped[0] = m /\ \A i \in 1..N : mapped[i] = MapPageByPpn(mapped[i-1], list[i][1], list[i][2])
  <2>1. mapped[0] = m
    BY <1>1, <1>6
  <2>2. ASSUME NEW i \in 1..N
        PROVE  mapped[i] = MapPageByPpn(mapped[i-1], list[i][1], list[i][2])
    <3>1. i \in 0..N /\ i # 0
      BY <1>1
    <3> QED
      BY <1>6, <3>1
  <2> QED
    BY <2>1, <2>2
<1> HIDE DEF Body
<1> DEFINE Good(i) == Grew(m, mapped[i], PagesOf(list, i)) /\ (mapped[i].ok => Placed(mapped[i], list, i))
           T == {i \in 0..N : Good(i)}
<1>9. 0 \in T
  <2>1. PagesOf(list, 0) = {}
    BY DEF PagesOf
  <2>2. Grew(m, m, {})
    BY GrewNot
  <2>3. Good(0)
    BY <1>8, <2>1, <2>2 DEF Placed
  <2> HIDE DEF Good
  <2> QED
    BY <1>1, <2>3
<1>10. ASSUME NEW i \in 1..N, i - 1 \in T
       PROVE  i \in T
  <2> DEFINE n == mapped[i-1]
             o == mapped[i]
             page == list[i][1]
  <2>1. Grew(m, n, PagesOf(list, i - 1)) /\ (n.ok => Placed(n, list, i - 1)) /\ n \in Memory
    BY <1>10 DEF Grew
  <2>2. /\ Grew(n, o, {page}) /\ o \in Memory
        /\ o.ok => o.pages[page] = list[i][2]
    <3> HIDE DEF n, o
    <3>1. o = MapPageByPpn(n, list[i][1], list[i][2])
      BY <1>8 DEF n, o
    <3> QED
      BY <1>2, <2>1, <3>1
  <2> HIDE DEF n, o
  <2>3. PagesOf(list, i) = PagesOf(list, i - 1) \cup {page}
    <3>1. 1..i = (1..(i - 1)) \cup {i}
      BY <1>1
    <3> QED
      BY <3>1 DEF PagesOf
  <2>4. Grew(m, o, PagesOf(list, i))
    <3> HIDE DEF page
    <3>1. Grew(m, o, PagesOf(list, i - 1) \cup {page})
      BY <2>1, <2>2, GrewOn
    <3> QED
      BY <2>3, <3>1
  <2>5. ASSUME o.ok, NEW j \in 1..i
        PROVE  o.pages[list[j][1]] = list[j][2]
    <3>1. CASE list[j][1] = page
      <4>1. j \in 1..N
        BY <1>1
      <4>2. list[j][2] = list[i][2]
        BY <3>1, <4>1 DEF Places, N
      <4> QED
        BY <2>2, <2>5, <3>1, <4>2
    <3>2. CASE list[j][1] # page
      <4>1. j \in 1..(i - 1)
        BY <1>1, <3>2
      <4>2. n.ok
        BY <2>2, <2>5 DEF Grew
      <4>3. n.pages[list[j][1]] = list[j][2]
        BY <2>1, <4>1, <4>2 DEF Placed
      <4>4. list[j][1] \in DOMAIN n.pages
        BY <2>1, <4>1, <4>2 DEF Grew, PagesOf
      <4>5. o.pages[list[j][1]] = n.pages[list[j][1]]
        BY <2>2, <3>2, <4>4 DEF Grew
      <4> QED
        BY <4>3, <4>5
    <3> QED
      BY <3>1, <3>2
  <2>6. Good(i)
    BY <2>4, <2>5 DEF Placed, o
  <2>7. i \in 0..N
    BY <1>1
  <2> QED
    BY <2>6, <2>7
<1> HIDE DEF T
<1>11. N \in T
  <2>1. \A i \in 0..N : i \in T
    BY <1>1, <1>9, <1>10, Induct
  <2> QED
    BY <1>1, <2>1
<1>12. Good(N)
  BY <1>11 DEF T
<1>13. N = 0 => r = m
  BY <1>7, <1>8
<1> QED
  BY <1>7, <1>12, <1>13 DEF N

LEMMA RangeMapped ==
  ASSUME NEW m \in Memory, NEW from \in Nat, NEW to \in Nat, from <= to,
         NEW r, r = IdentityMapRange(m, from, to)
  PROVE  Grew(m, r, from..(to - 1)) /\ (from = to => r = m)
<1> DEFINE list == [i \in 1..(to - from) |-> <<from + i - 1, from + i - 1>>]
           n == to - from
<1>1. n \in Nat
  OBVIOUS
<1>2. /\ list \in Seq(Nat \X Nat) /\ Len(list) = n
      /\ \A i \in 1..n : list[i][1] = from + i - 1 /\ list[i][2] = from + i - 1
  BY <1>1
<1>3. r = MapAll(m, list)
  BY DEF IdentityMapRange
<1> HIDE DEF list
<1>4. Places(list)
  BY <1>2 DEF Places
<1>5. PagesOf(list, n) = from..(to - 1)
  <2>1. \A p \in from..(to - 1) : p - from + 1 \in 1..n /\ from + (p - from + 1) - 1 = p
    OBVIOUS
  <2>2. \A i \in 1..n : from + i - 1 \in from..(to - 1)
    OBVIOUS
  <2>3. from..(to - 1) \subseteq PagesOf(list, n)
    BY <1>2, <2>1 DEF PagesOf
  <2>4. PagesOf(list, n) \subseteq from..(to - 1)
    BY <1>2, <2>2 DEF PagesOf
  <2> QED
    BY <2>3, <2>4
<1>6. Grew(m, r, PagesOf(list, Len(list))) /\ (Len(list) = 0 => r = m)
  BY <1>3, <1>4, AllMapped
<1> QED
  BY <1>2, <1>5, <1>6

(* The stack of the kernel and the trampoline are the last pages.          *)
Upper == (Top - StackPages)..Top
UpperFrame(stackEnd, i) == IF i = 0 THEN stackEnd - StackPages - ImagePages ELSE stackEnd - i

LEMMA UpperMapped ==
  ASSUME NEW m \in Memory, NEW stackEnd \in StackEnds, NEW r, r = MapUpperHalf(m, stackEnd)
  PROVE  /\ Grew(m, r, Upper)
         /\ r.ok => \A i \in 0..StackPages : r.pages[Top - i] = UpperFrame(stackEnd, i)
<1> DEFINE list == [i \in 1..StackPages |-> <<Top - i, stackEnd - i>>]
           trampoline == stackEnd - StackPages - ImagePages
           n == MapPageByPpn(m, Top, trampoline)
<1>1. /\ StackPages \in Nat /\ ImagePages \in Nat /\ Top \in Nat /\ Top - StackPages \in Nat
      /\ stackEnd \in Nat /\ trampoline \in Nat
  BY Sizes
<1>2. /\ list \in Seq(Nat \X Nat) /\ Len(list) = StackPages
      /\ \A i \in 1..StackPages : list[i][1] = Top - i /\ list[i][2] = stackEnd - i
  <2>1. \A i \in 1..StackPages : Top - i \in Nat /\ stackEnd - i \in Nat
    BY <1>1
  <2> QED
    BY <1>1, <2>1
<1>3. r = MapAll(n, list)
  BY DEF MapUpperHalf
<1> HIDE DEF list, trampoline, n
<1>4. Places(list)
  BY <1>1, <1>2 DEF Places
<1>5. Grew(m, n, {Top}) /\ n \in Memory /\ (n.ok => n.pages[Top] = trampoline)
  <2>1. PICK page \in Nat, frame \in Nat : page = Top /\ frame = trampoline
    BY <1>1
  <2>2. n = MapPageByPpn(m, page, frame)
    BY <2>1 DEF n
  <2> HIDE DEF n
  <2>3. Grew(m, n, {page}) /\ (n.ok => n.pages[page] = frame)
    BY <2>2, PageMapped
  <2> QED
    BY <2>1, <2>3 DEF Grew
<1>6. Grew(n, r, PagesOf(list, StackPages)) /\ (r.ok => Placed(r, list, StackPages))
  BY <1>2, <1>3, <1>4, <1>5, AllMapped
<1>7. PagesOf(list, StackPages) = (Top - StackPages)..(Top - 1)
  <2>1. \A p \in (Top - StackPages)..(Top - 1) : Top - p \in 1..StackPages /\ Top - (Top - p) = p
    BY <1>1
  <2>2. \A i \in 1..StackPages : Top - i \in (Top - StackPages)..(Top - 1)
    BY <1>1
  <2>3. (Top - StackPages)..(Top - 1) \subseteq PagesOf(list, StackPages)
    BY <1>2, <2>1 DEF PagesOf
  <2>4. PagesOf(list, StackPages) \subseteq (Top - StackPages)..(Top - 1)
    BY <1>2, <2>2 DEF PagesOf
  <2> QED
    BY <2>3, <2>4
<1>8. {Top} \cup (Top - StackPages)..(Top - 1) = Upper
  BY <1>1 DEF Upper
<1>9. Grew(m, r, Upper)
  BY <1>5, <1>6, <1>7, <1>8, GrewOn
<1>10. ASSUME r.ok, NEW i \in 0..StackPages
       PROVE  r.pages[Top - i] = UpperFrame(stackEnd, i)
  <2>1. CASE i = 0
    <3>1. n.ok /\ Top \in DOMAIN n.pages
      BY <1>5, <1>6, <1>10 DEF Grew
    <3>2. Top \notin PagesOf(list, StackPages)
      BY <1>1, <1>7
    <3>3. r.pages[Top] = n.pages[Top]
      BY <1>6, <3>1, <3>2 DEF Grew
    <3>4. Top - i = Top
      BY <1>1, <2>1
    <3> QED
      BY <1>5, <2>1, <3>1, <3>3, <3>4 DEF UpperFrame, trampoline
  <2>2. CASE i # 0
    <3>1. i \in 1..StackPages
      BY <1>1, <2>2
    <3>2. r.pages[list[i][1]] = list[i][2]
      BY <1>6, <1>10, <3>1 DEF Placed
    <3> QED
      BY <1>2, <2>2, <3>1, <3>2 DEF UpperFrame
  <2> QED
    BY <2>1, <2>2
<1> QED
  BY <1>9, <1>10

(* A round maps the tables that the rounds before took; as long as one     *)
(* takes a table the next has a frame to map, and there are Pool at most.  *)
LEMMA TablesReached ==
  ASSUME NEW m \in Memory, m.used <= Pool, NEW e \in Nat, m.next = e + m.used,
         NEW r, r = MapTables(m, e)
  PROVE  Grew(m, r, e..(r.next - 1))
<1> DEFINE S == {x \in [from : Nat, m : Memory] : x.from <= x.m.next}
           start == [from |-> e, m |-> m]
           After(x) == [from |-> x.m.next, m |-> IdentityMapRange(x.m, x.from, x.m.next)]
           Body(f) == [i \in 0..Pool |-> IF i = 0 THEN start ELSE After(f[i - 1])]
           step == [p \in (1..Pool) \X S |-> After(p[2])]
           round == CHOOSE f : f = Body(f)
<1>1. Pool \in Nat /\ m.next \in Nat /\ m.used \in Nat /\ e <= m.next
  BY Sizes DEF Memory
<1>2. ASSUME NEW x \in S
      PROVE  /\ After(x) \in S /\ After(x).from = x.m.next
             /\ Grew(x.m, After(x).m, x.from..(x.m.next - 1))
             /\ x.from = x.m.next => After(x).m = x.m
  <2> DEFINE o == IdentityMapRange(x.m, x.from, x.m.next)
  <2>1. PICK n \in Memory, from \in Nat, to \in Nat :
          n = x.m /\ from = x.from /\ to = x.m.next /\ from <= to
    BY DEF Memory
  <2>2. After(x) = [from |-> to, m |-> o]
    BY <2>1
  <2>3. o = IdentityMapRange(n, from, to)
    BY <2>1
  <2> HIDE DEF o, After
  <2>4. Grew(n, o, from..(to - 1)) /\ (from = to => o = n)
    BY <2>1, <2>3, RangeMapped
  <2>5. o \in Memory /\ to <= o.next
    BY <2>1, <2>4 DEF Grew
  <2>6. After(x) \in S /\ After(x).from = to /\ After(x).m = o
    BY <2>2, <2>5
  <2> QED
    BY <2>1, <2>4, <2>6
<1>3. start \in S
  BY <1>1
<1>4. Stepping(step, Pool, S) /\ \A i \in 1..Pool, x \in S : step[<<i, x>>] = After(x)
  <2> HIDE DEF After, S
  <2> QED
    BY <1>2 DEF Stepping
<1> HIDE DEF step, S, start
<1>5. PICK f : Stepwise(f, Pool, S, start, step)
  BY <1>1, <1>3, <1>4, Recursion
<1>6. f = Body(f)
  <2>1. f = [i \in 0..Pool |-> f[i]]
    BY <1>5 DEF Stepwise
  <2>2. ASSUME NEW i \in 0..Pool
        PROVE  f[i] = Body(f)[i]
    <3> HIDE DEF After
    <3>1. CASE i = 0
      BY <1>5, <3>1 DEF Stepwise
    <3>2. CASE i # 0
      <4>1. i \in 1..Pool /\ i - 1 \in 0..Pool
        BY <1>1, <3>2
      <4>2. f[i-1] \in S /\ f[i] = step[<<i, f[i-1]>>]
        BY <1>5, <4>1 DEF Stepwise
      <4> QED
        BY <1>4, <3>2, <4>1, <4>2
    <3> QED
      BY <3>1, <3>2
  <2> QED
    BY <2>1, <2>2
<1>7. round = Body(round)
  <2> HIDE DEF Body
  <2> QED
    BY <1>6
<1>8. r = round[Pool].m
  BY DEF MapTables, start
<1> HIDE DEF round, After
<1>9. round[0] = start /\ \A i \in 1..Pool : round[i] = After(round[i-1])
  <2>1. round[0] = start
    BY <1>1, <1>7
  <2>2. ASSUME NEW i \in 1..Pool
        PROVE  round[i] = After(round[i-1])
    <3>1. i \in 0..Pool /\ i # 0
      BY <1>1
    <3> QED
      BY <1>7, <3>1
  <2> QED
    BY <2>1, <2>2
<1> HIDE DEF Body
<1> DEFINE Good(i) == /\ round[i] \in S /\ e <= round[i].from
                      /\ Grew(m, round[i].m, e..(round[i].from - 1))
                      /\ round[i].from = round[i].m.next \/ round[i].from >= e + i
           T == {i \in 0..Pool : Good(i)}
<1>10. 0 \in T
  <2>1. round[0].from = e /\ round[0].m = m
    BY <1>9 DEF start
  <2>2. e..(e - 1) = {}
    OBVIOUS
  <2>3. Grew(m, m, e..(e - 1))
    BY <2>2, GrewNot
  <2>4. Good(0)
    BY <1>3, <1>9, <2>1, <2>3
  <2> HIDE DEF Good
  <2> QED
    BY <1>1, <2>4
<1>11. ASSUME NEW i \in 1..Pool, i - 1 \in T
       PROVE  i \in T
  <2> DEFINE x == round[i-1]
             y == round[i]
  <2>1. x \in S /\ y = After(x)
    BY <1>9, <1>11
  <2>2. /\ e <= x.from /\ Grew(m, x.m, e..(x.from - 1))
        /\ x.from = x.m.next \/ x.from >= e + (i - 1)
    BY <1>11
  <2> HIDE DEF x, y
  <2>3. /\ y \in S /\ y.from = x.m.next /\ Grew(x.m, y.m, x.from..(x.m.next - 1))
        /\ x.from = x.m.next => y.m = x.m
    BY <1>2, <2>1
  <2>4. x.from \in Nat /\ x.m.next \in Nat /\ x.from <= x.m.next /\ x.m \in Memory /\ y.m.next \in Nat
    BY <2>1, <2>3 DEF S, Memory
  <2>5. e..(x.from - 1) \cup x.from..(x.m.next - 1) = e..(y.from - 1)
    BY <2>2, <2>3, <2>4
  <2>6. Grew(m, y.m, e..(y.from - 1))
    <3>1. Grew(m, y.m, e..(x.from - 1) \cup x.from..(x.m.next - 1))
      <4>1. PICK P, Q : P = e..(x.from - 1) /\ Q = x.from..(x.m.next - 1)
        OBVIOUS
      <4> QED
        BY <2>2, <2>3, <4>1, GrewOn
    <3> QED
      BY <2>5, <3>1
  <2>7. y.from = y.m.next \/ y.from >= e + i
    BY <2>2, <2>3, <2>4
  <2>8. e <= y.from
    BY <2>2, <2>3, <2>4
  <2>9. Good(i)
    BY <2>3, <2>6, <2>7, <2>8 DEF y
  <2> HIDE DEF Good
  <2>10. i \in 0..Pool
    BY <1>1
  <2> QED
    BY <2>9, <2>10
<1> HIDE DEF T
<1>12. Pool \in T
  <2>1. \A i \in 0..Pool : i \in T
    BY <1>1, <1>10, <1>11, Induct
  <2> QED
    BY <1>1, <2>1
<1>13. Good(Pool)
  BY <1>12 DEF T
<1> DEFINE from == round[Pool].from
<1>14. /\ r \in Memory /\ from <= r.next /\ Grew(m, r, e..(from - 1))
       /\ from = r.next \/ from >= e + Pool
  BY <1>8, <1>13 DEF S
<1> HIDE DEF from, Good
<1>15. r.next = e + r.used /\ r.used <= Pool /\ r.used \in Nat /\ r.next \in Nat
  BY <1>1, <1>14 DEF Grew, Memory
<1>16. from = r.next
  <2>1. from \in Nat
    BY <1>13, <1>14 DEF from, Good, S
  <2> QED
    BY <1>1, <1>14, <1>15, <2>1
<1> QED
  BY <1>14, <1>16

(* The first round maps the frames of the pool and one more; what tables   *)
(* the later ones map, and where they take them, is in reach of the pool.  *)
LEMMA PoolReached ==
  ASSUME NEW m \in Memory, m.used <= Pool, NEW e \in Nat, m.next = e + m.used,
         NEW r, r = InitPagePool(m)
  PROVE  \E P \in SUBSET m.next..(e + 2 * Pool), k \in Memory :
           /\ Grew(m, k, P) /\ m.next..(m.next + Pool) \subseteq P
           /\ r = [k EXCEPT !.used = 0]
<1> DEFINE S == {x \in [allocated : 0..Pool, m : Memory] : x.m.used <= Pool}
           start == [allocated |-> 0, m |-> m]
           Left(x) == Pool - x.allocated
           More(x) == LET new == IdentityMapRange(x.m, x.m.next, PoolRangeEnd(x.m.next, Left(x)))
                      IN  [allocated |-> x.allocated + Left(x) - (new.next - x.m.next), m |-> new]
           After(x) == IF Left(x) <= 0 THEN x ELSE More(x)
           Body(f) == [i \in 0..Pool |-> IF i = 0 THEN start ELSE After(f[i - 1])]
           step == [p \in (1..Pool) \X S |-> After(p[2])]
           round == CHOOSE f : f = Body(f)
           n0 == m.next
<1>1. Pool \in Nat \ {0} /\ n0 \in Nat /\ m.used \in Nat /\ n0 = e + m.used /\ e <= n0
  BY Sizes DEF Memory
<1>2. ASSUME NEW x \in S
      PROVE  /\ After(x) \in S
             /\ Left(x) <= 0 => After(x) = x
             /\ Left(x) > 0 => Grew(x.m, After(x).m, x.m.next..(x.m.next + Left(x)))
  <2> DEFINE new == IdentityMapRange(x.m, x.m.next, PoolRangeEnd(x.m.next, Left(x)))
  <2>1. Left(x) \in Nat /\ x.allocated \in Nat /\ x.allocated + Left(x) = Pool
        /\ x.m \in Memory /\ x.m.next \in Nat /\ x.m.used \in Nat /\ x.m.used <= Pool
    BY <1>1 DEF Memory
  <2>2. CASE Left(x) <= 0
    BY <2>1, <2>2
  <2>3. CASE Left(x) > 0
    <3>1. PICK n \in Memory, from \in Nat, to \in Nat :
            n = x.m /\ from = x.m.next /\ to = x.m.next + Left(x) + 1
      BY <2>1
    <3>2. new = IdentityMapRange(n, from, to)
      BY <3>1 DEF PoolRangeEnd
    <3>3. After(x) = [allocated |-> x.allocated + Left(x) - (new.next - x.m.next), m |-> new]
      BY <2>3, <2>1
    <3> HIDE DEF new, After
    <3>4. Grew(n, new, from..(to - 1))
      BY <2>1, <3>1, <3>2, RangeMapped
    <3>5. /\ new \in Memory /\ new.next = x.m.next + (new.used - x.m.used) /\ x.m.next <= new.next
          /\ new.used <= Pool /\ new.used \in Nat /\ new.next \in Nat
      BY <2>1, <3>1, <3>4 DEF Grew, Memory
    <3>6. x.allocated + Left(x) - (new.next - x.m.next) \in 0..Pool
      BY <2>1, <3>5
    <3>7. After(x).m = new /\ After(x) \in S
      <4> HIDE DEF Left
      <4> QED
        BY <3>3, <3>5, <3>6
    <3>8. to - 1 = x.m.next + Left(x)
      BY <2>1, <3>1
    <3> QED
      BY <2>1, <2>3, <3>1, <3>4, <3>7, <3>8
  <2> QED
    BY <2>1, <2>2, <2>3
<1>3. start \in S
  BY <1>1
<1>4. Stepping(step, Pool, S) /\ \A i \in 1..Pool, x \in S : step[<<i, x>>] = After(x)
  <2> HIDE DEF After, S
  <2> QED
    BY <1>2 DEF Stepping
<1> HIDE DEF step, S, start
<1>5. PICK f : Stepwise(f, Pool, S, start, step)
  BY <1>1, <1>3, <1>4, Recursion
<1>6. f = Body(f)
  <2>1. f = [i \in 0..Pool |-> f[i]]
    BY <1>5 DEF Stepwise
  <2>2. ASSUME NEW i \in 0..Pool
        PROVE  f[i] = Body(f)[i]
    <3> HIDE DEF After
    <3>1. CASE i = 0
      BY <1>5, <3>1 DEF Stepwise
    <3>2. CASE i # 0
      <4>1. i \in 1..Pool /\ i - 1 \in 0..Pool
        BY <1>1, <3>2
      <4>2. f[i-1] \in S /\ f[i] = step[<<i, f[i-1]>>]
        BY <1>5, <4>1 DEF Stepwise
      <4> QED
        BY <1>4, <3>2, <4>1, <4>2
    <3> QED
      BY <3>1, <3>2
  <2> QED
    BY <2>1, <2>2
<1>7. round = Body(round)
  <2> HIDE DEF Body
  <2> QED
    BY <1>6
<1>8. r = [round[Pool].m EXCEPT !.used = 0]
  BY DEF InitPagePool, start
<1> HIDE DEF round, After
<1>9. round[0] = start /\ \A i \in 1..Pool : round[i] = After(round[i-1])
  <2>1. round[0] = start
    BY <1>1, <1>7
  <2>2. ASSUME NEW i \in 1..Pool
        PROVE  round[i] = After(round[i-1])
    <3>1. i \in 0..Pool /\ i # 0
      BY <1>1
    <3> QED
      BY <1>7, <3>1
  <2> QED
    BY <2>1, <2>2
<1> HIDE DEF Body
<1> DEFINE Reach(x, i) == \E P \in SUBSET (n0..(e + 2 * Pool)) :
                            Grew(m, x.m, P) /\ (i >= 1 => n0..(n0 + Pool) \subseteq P)
           T == {i \in 0..Pool : round[i] \in S /\ Reach(round[i], i)}
<1>10. 0 \in T
  <2>1. round[0].m = m
    BY <1>9 DEF start
  <2>2. Reach(round[0], 0)
    <3>1. {} \in SUBSET (n0..(e + 2 * Pool)) /\ Grew(m, m, {})
      BY GrewNot
    <3> QED
      BY <2>1, <3>1
  <2> HIDE DEF Reach
  <2> QED
    BY <1>1, <1>3, <1>9, <2>2
<1>11. ASSUME NEW i \in 1..Pool, i - 1 \in T
       PROVE  i \in T
  <2> DEFINE x == round[i-1]
             y == round[i]
  <2>1. x \in S /\ y = After(x) /\ Reach(x, i - 1) /\ (i = 1 => x = start)
    BY <1>9, <1>11
  <2> HIDE DEF x, y
  <2>2. PICK P \in SUBSET (n0..(e + 2 * Pool)) :
          Grew(m, x.m, P) /\ (i - 1 >= 1 => n0..(n0 + Pool) \subseteq P)
    BY <2>1
  <2>3. /\ y \in S
        /\ Left(x) <= 0 => y = x
        /\ Left(x) > 0 => Grew(x.m, y.m, x.m.next..(x.m.next + Left(x)))
    BY <1>2, <2>1
  <2>4. /\ x.m \in Memory /\ x.m.next \in Nat /\ x.m.used \in Nat /\ x.m.used <= Pool
        /\ x.allocated \in 0..Pool /\ Left(x) \in 0..Pool
    BY <1>1, <2>1 DEF S, Memory
  <2>5. i = 1 => Left(x) = Pool /\ x.m.next = n0
    BY <1>1, <2>1 DEF start
  <2>6. CASE Left(x) <= 0
    <3>1. i >= 1 => n0..(n0 + Pool) \subseteq P
      BY <1>1, <2>2, <2>5, <2>6
    <3>2. Reach(y, i)
      BY <2>2, <2>3, <2>6, <3>1
    <3> HIDE DEF Reach
    <3> QED
      BY <1>1, <2>3, <3>2 DEF y
  <2>7. CASE Left(x) > 0
    <3> DEFINE Q == x.m.next..(x.m.next + Left(x))
    <3>1. x.m.next = e + x.m.used /\ n0 <= x.m.next
      BY <1>1, <2>2, <2>4 DEF Grew
    <3>2. Q \in SUBSET (n0..(e + 2 * Pool))
      BY <1>1, <2>4, <3>1
    <3>3. i = 1 => Q = n0..(n0 + Pool)
      BY <2>5
    <3>4. Grew(x.m, y.m, Q)
      BY <2>3, <2>7
    <3> HIDE DEF Q, Left
    <3>5. Grew(m, y.m, P \cup Q)
      BY <2>2, <3>4, GrewOn
    <3>6. n0..(n0 + Pool) \subseteq P \cup Q
      BY <1>1, <2>2, <3>3
    <3>7. Reach(y, i)
      BY <2>2, <3>2, <3>5, <3>6
    <3> HIDE DEF Reach
    <3> QED
      BY <1>1, <2>3, <3>7 DEF y
  <2> HIDE DEF Reach
  <2> QED
    BY <2>4, <2>6, <2>7
<1> HIDE DEF T
<1>12. Pool \in T
  <2>1. \A i \in 0..Pool : i \in T
    BY <1>1, <1>10, <1>11, Induct
  <2> QED
    BY <1>1, <2>1
<1>13. PICK P \in SUBSET (n0..(e + 2 * Pool)) :
         Grew(m, round[Pool].m, P) /\ n0..(n0 + Pool) \subseteq P
  BY <1>1, <1>12 DEF T
<1>14. round[Pool].m \in Memory
  BY <1>13 DEF Grew
<1> QED
  BY <1>8, <1>13, <1>14

(* The page table of the kernel.                                           *)
KernelReaches(stackEnd, k) ==
  LET start == TablesMapped(stackEnd).next
  IN  /\ k \in Memory /\ k.used = 0 /\ start \in Nat /\ stackEnd <= start /\ start <= k.next
      /\ Tables(k) \subseteq stackEnd..(k.next - 1)
      /\ k.ok => /\ stackEnd..(start + Pool) \subseteq DOMAIN k.pages
                 /\ \A i \in 0..StackPages : k.pages[Top - i] = UpperFrame(stackEnd, i)

LEMMA KernelBooted ==
  ASSUME NEW e \in StackEnds
  PROVE  KernelReaches(e, KernelTable(e))
<1> DEFINE n == NoTables(e)
           image == IdentityMapRange(n, e - StackPages - ImagePages, e)
           upper == MapUpperHalf(image, e)
           tables == TablesMapped(e)
           k == KernelTable(e)
           I == (e - StackPages - ImagePages)..(e - 1)
           R == e..(tables.next - 1)
<1>1. /\ e \in Nat /\ e - StackPages - ImagePages \in Nat /\ e - StackPages - ImagePages <= e
      /\ Pool \in Nat \ {0} /\ Top \in Nat /\ StackPages \in Nat /\ e + 2 * Pool < Top - StackPages
  BY Sizes
<1>2. n \in Memory /\ n.next = e /\ n.used = 0 /\ Tables(n) = {} /\ n.pages = Empty /\ DOMAIN Empty = {}
  <2>1. Empty \in Table /\ DOMAIN Empty = {}
    BY DEF Empty, Table
  <2> QED
    BY <1>1, <2>1 DEF NoTables, Memory, Tables
<1>3. tables = MapTables(upper, e) /\ k = InitPagePool(tables)
  BY DEF TablesMapped, KernelTable
<1> HIDE DEF n
<1>4. Grew(n, image, I) /\ image \in Memory
  <2>1. PICK from \in Nat, to \in Nat : from = e - StackPages - ImagePages /\ to = e
    BY <1>1
  <2> HIDE DEF image
  <2>2. image = IdentityMapRange(n, from, to)
    BY <2>1 DEF image
  <2>3. Grew(n, image, from..(to - 1))
    BY <1>1, <1>2, <2>1, <2>2, RangeMapped
  <2> QED
    BY <2>1, <2>3 DEF Grew
<1> HIDE DEF image
<1>5. /\ Grew(image, upper, Upper) /\ upper \in Memory
      /\ upper.ok => \A i \in 0..StackPages : upper.pages[Top - i] = UpperFrame(e, i)
  BY <1>4, UpperMapped DEF Grew
<1> HIDE DEF upper, I
<1>6. Grew(n, upper, I \cup Upper)
  BY <1>2, <1>4, <1>5, GrewOn
<1>7. upper.next = e + upper.used /\ upper.used <= Pool /\ upper.used \in Nat
  BY <1>1, <1>2, <1>5, <1>6 DEF Grew, Memory
<1>8. Grew(upper, tables, R) /\ tables \in Memory
  <2> HIDE DEF tables
  <2>1. Grew(upper, tables, e..(tables.next - 1))
    BY <1>1, <1>3, <1>5, <1>7, TablesReached
  <2> QED
    BY <2>1 DEF Grew
<1> HIDE DEF tables, k, R
<1>9. /\ tables.next = e + tables.used /\ tables.used <= Pool /\ tables.used \in Nat
      /\ tables.next \in Nat /\ upper.next <= tables.next
  BY <1>1, <1>5, <1>7, <1>8 DEF Grew, Memory
<1>10. PICK P \in SUBSET (tables.next..(e + 2 * Pool)), l \in Memory :
         /\ Grew(tables, l, P) /\ tables.next..(tables.next + Pool) \subseteq P
         /\ k = [l EXCEPT !.used = 0]
  BY <1>1, <1>3, <1>8, <1>9, PoolReached
<1>11. /\ k \in Memory /\ k.used = 0 /\ k.next = l.next /\ k.ok = l.ok /\ k.pages = l.pages
       /\ k.mids = l.mids /\ k.leaves = l.leaves
  BY <1>10 DEF Memory
<1>12. Tables(k) = Tables(l)
  BY <1>11 DEF Tables
<1>13. /\ Grew(n, tables, (I \cup Upper) \cup R)
       /\ Grew(n, l, ((I \cup Upper) \cup R) \cup P)
  <2>1. Grew(n, tables, (I \cup Upper) \cup R)
    BY <1>2, <1>6, <1>8, GrewOn
  <2> QED
    BY <1>2, <1>10, <2>1, GrewOn
<1>14. Tables(k) \subseteq e..(k.next - 1)
  BY <1>2, <1>11, <1>12, <1>13 DEF Grew
<1>15. e <= tables.next /\ tables.next <= k.next
  BY <1>1, <1>9, <1>10, <1>11 DEF Grew
<1>16. ASSUME k.ok
       PROVE  e..(tables.next + Pool) \subseteq DOMAIN k.pages
  <2>1. R \subseteq DOMAIN k.pages /\ P \subseteq DOMAIN k.pages
    BY <1>11, <1>13, <1>16 DEF Grew
  <2>2. e..(tables.next + Pool) = R \cup tables.next..(tables.next + Pool)
    BY <1>1, <1>9 DEF R
  <2> QED
    BY <1>10, <2>1, <2>2
<1>17. ASSUME k.ok, NEW i \in 0..StackPages
       PROVE  k.pages[Top - i] = UpperFrame(e, i)
  <2>1. Top - i \in Upper
    BY <1>1 DEF Upper
  <2>2. l.ok /\ tables.ok /\ upper.ok
    BY <1>8, <1>10, <1>11, <1>17 DEF Grew
  <2>3. Top - i \in DOMAIN upper.pages
    BY <1>5, <2>1, <2>2 DEF Grew
  <2>4. Top - i \notin R /\ Top - i \notin P
    BY <1>1, <1>9 DEF R
  <2>5. tables.pages[Top - i] = upper.pages[Top - i] /\ Top - i \in DOMAIN tables.pages
    BY <1>8, <2>3, <2>4 DEF Grew
  <2>6. l.pages[Top - i] = tables.pages[Top - i]
    BY <1>10, <2>4, <2>5 DEF Grew
  <2> QED
    BY <1>5, <1>11, <2>2, <2>5, <2>6
<1> QED
  BY <1>9, <1>11, <1>14, <1>15, <1>16, <1>17 DEF KernelReaches, tables, k

-----------------------------------------------------------------------------
(* The page table of the process.                                           *)
LEMMA FreshOn ==
  ASSUME NEW m \in Memory, NEW n, NEW r, NEW P, NEW Q, Grew(m, n, P), Grew(n, r, Q), Fresh(m, n), Fresh(n, r)
  PROVE  Fresh(m, r)
<1>1. /\ m.next \in Nat /\ n.next \in Nat /\ r.next \in Nat /\ m.next <= n.next /\ n.next <= r.next
  BY DEF Grew, Memory
<1>2. m.next..(n.next - 1) \subseteq m.next..(r.next - 1) /\ n.next..(r.next - 1) \subseteq m.next..(r.next - 1)
  BY <1>1
<1> QED
  BY <1>2 DEF Fresh

LEMMA SegmentMapped ==
  ASSUME NEW m \in Memory, NEW r, r = MapSegment(m)
  PROVE  Grew(m, r, ElfPages) /\ Fresh(m, r)
<1> DEFINE N == ElfLast - ElfFirst + 1
           Body(f) == [i \in 0..N |-> IF i = 0 THEN m ELSE MapPage(f[i - 1], ElfFirst + i - 1)]
           step == [p \in (1..N) \X Memory |-> MapPage(p[2], ElfFirst + p[1] - 1)]
           mapped == CHOOSE f : f = Body(f)
<1>1. N \in Nat /\ ElfFirst \in Nat /\ \A i \in 1..N : ElfFirst + i - 1 \in Nat
  BY Sizes
<1>2. ASSUME NEW n \in Memory, NEW i \in 1..N, NEW o, o = MapPage(n, ElfFirst + i - 1)
      PROVE  Grew(n, o, {ElfFirst + i - 1}) /\ Fresh(n, o) /\ o \in Memory
  <2>1. PICK page \in Nat : page = ElfFirst + i - 1
    BY <1>1
  <2>2. Grew(n, o, {page}) /\ Fresh(n, o)
    BY <1>2, <2>1, PageAdded
  <2> QED
    BY <2>1, <2>2 DEF Grew
<1>3. /\ Stepping(step, N, Memory)
      /\ \A i \in 1..N, n \in Memory : step[<<i, n>>] = MapPage(n, ElfFirst + i - 1)
  BY <1>2 DEF Stepping
<1> HIDE DEF step, N
<1>4. PICK f : Stepwise(f, N, Memory, m, step)
  BY <1>1, <1>3, Recursion
<1>5. f = Body(f)
  <2>1. f = [i \in 0..N |-> f[i]]
    BY <1>4 DEF Stepwise
  <2>2. ASSUME NEW i \in 0..N
        PROVE  f[i] = Body(f)[i]
    <3>1. CASE i = 0
      BY <1>4, <3>1 DEF Stepwise
    <3>2. CASE i # 0
      <4>1. i \in 1..N /\ i - 1 \in 0..N
        BY <1>1, <3>2
      <4>2. f[i-1] \in Memory /\ f[i] = step[<<i, f[i-1]>>]
        BY <1>4, <4>1 DEF Stepwise
      <4> QED
        BY <1>3, <3>2, <4>1, <4>2
    <3> QED
      BY <3>1, <3>2
  <2> QED
    BY <2>1, <2>2
<1>6. mapped = Body(mapped)
  <2> HIDE DEF Body
  <2> QED
    BY <1>5
<1>7. r = mapped[N]
  BY DEF MapSegment, N
<1> HIDE DEF mapped
<1>8. mapped[0] = m /\ \A i \in 1..N : mapped[i] = MapPage(mapped[i-1], ElfFirst + i - 1)
  <2>1. mapped[0] = m
    BY <1>1, <1>6
  <2>2. ASSUME NEW i \in 1..N
        PROVE  mapped[i] = MapPage(mapped[i-1], ElfFirst + i - 1)
    <3>1. i \in 0..N /\ i # 0
      BY <1>1
    <3> QED
      BY <1>6, <3>1
  <2> QED
    BY <2>1, <2>2
<1> HIDE DEF Body
<1> DEFINE Before(i) == ElfFirst..(ElfFirst + i - 1)
           Good(i) == Grew(m, mapped[i], Before(i)) /\ Fresh(m, mapped[i])
           T == {i \in 0..N : Good(i)}
<1>9. 0 \in T
  <2>1. Before(0) = {}
    BY <1>1
  <2>2. Grew(m, m, {}) /\ Fresh(m, m)
    BY GrewNot DEF Fresh
  <2>3. Good(0)
    BY <1>8, <2>1, <2>2
  <2> HIDE DEF Good
  <2> QED
    BY <1>1, <2>3
<1>10. ASSUME NEW i \in 1..N, i - 1 \in T
       PROVE  i \in T
  <2> DEFINE n == mapped[i-1]
             o == mapped[i]
             page == ElfFirst + i - 1
  <2>1. Grew(m, n, Before(i - 1)) /\ Fresh(m, n) /\ n \in Memory
    BY <1>10 DEF Grew
  <2>2. Grew(n, o, {page}) /\ Fresh(n, o)
    <3> HIDE DEF n, o
    <3>1. o = MapPage(n, page)
      BY <1>8 DEF n, o
    <3> QED
      BY <1>2, <2>1, <3>1
  <2> HIDE DEF n, o
  <2>3. Before(i) = Before(i - 1) \cup {page}
    BY <1>1
  <2> HIDE DEF page, Before
  <2>4. Grew(m, o, Before(i)) /\ Fresh(m, o)
    <3>1. Grew(m, o, Before(i - 1) \cup {page})
      BY <2>1, <2>2, GrewOn
    <3>2. Fresh(m, o)
      BY <2>1, <2>2, FreshOn
    <3> QED
      BY <2>3, <3>1, <3>2
  <2>5. Good(i)
    BY <2>4 DEF o
  <2> HIDE DEF Good
  <2>6. i \in 0..N
    BY <1>1
  <2> QED
    BY <2>5, <2>6
<1> HIDE DEF T
<1>11. N \in T
  <2>1. \A i \in 0..N : i \in T
    BY <1>1, <1>9, <1>10, Induct
  <2> QED
    BY <1>1, <2>1
<1>12. Grew(m, r, Before(N)) /\ Fresh(m, r)
  BY <1>7, <1>11 DEF T
<1>13. Before(N) = ElfPages
  BY Sizes DEF N, ElfPages
<1> QED
  BY <1>12, <1>13

(* A process of a kernel whose next free frame is base: its tables and its *)
(* pages below the upper half are frames taken since, and its upper half   *)
(* is that of the build.                                                   *)
Paged(m, base, stackEnd) ==
  /\ m \in Memory /\ m.used <= Pool /\ m.next = base + m.used
  /\ Tables(m) \subseteq base..(m.next - 1)
  /\ \A page \in DOMAIN m.pages : page < UserTop => m.pages[page] \in base..(m.next - 1)
  /\ \A i \in 0..StackPages : Top - i \in DOMAIN m.pages /\ m.pages[Top - i] = UpperFrame(stackEnd, i)

LEMMA ProcessStarted ==
  ASSUME NEW e \in StackEnds, NEW k \in Memory, k.used = 0, NEW p, p = InitProcess(k, e), p.ok
  PROVE  /\ Paged(p, k.next, e)
         /\ \A page \in DOMAIN p.pages : page < UserTop => page \in ElfPages \cup {UserTop - 1}
         /\ ElfPages \cup {UserTop - 1} \subseteq DOMAIN p.pages
<1> DEFINE fresh == [NoTables(k.next) EXCEPT !.used = k.used]
           root == Take(fresh)
           stack == MapPage(root, UserTop - 1)
           upper == MapUpperHalf(stack, e)
           base == k.next
<1>1. /\ base \in Nat /\ Pool \in Nat \ {0} /\ UserTop \in Nat /\ UserTop - 1 \in Nat /\ Top \in Nat
      /\ StackPages \in Nat /\ UserTop <= Top - StackPages
      /\ ElfFirst \in Nat /\ ElfLast \in Nat /\ ElfLast < UserTop - 1
  BY Sizes DEF Memory
<1>2. /\ root \in Memory /\ root.next = base + 1 /\ root.used = 1 /\ Tables(root) = {}
      /\ DOMAIN root.pages = {}
  <2>1. Empty \in Table /\ DOMAIN Empty = {}
    BY DEF Empty, Table
  <2> DEFINE n == NoTables(base)
  <2>2. /\ n \in Memory /\ n.next = base /\ n.used = 0 /\ n.mids = Empty /\ n.leaves = Empty
        /\ n.pages = Empty
    BY <1>1, <2>1 DEF NoTables, Memory
  <2> HIDE DEF n
  <2>3. fresh = n
    <3>1. fresh = [n EXCEPT !.used = 0]
      BY DEF n
    <3> HIDE DEF fresh
    <3> QED
      BY <2>2, <3>1 DEF Memory
  <2> HIDE DEF fresh
  <2>4. root = [n EXCEPT !.next = base + 1, !.used = 1]
    <3>1. root = Take(n)
      BY <2>3
    <3> HIDE DEF root
    <3>2. root = [n EXCEPT !.next = n.next + 1, !.used = n.used + 1]
      BY <2>2, <3>1 DEF Take, Memory
    <3>3. n.next + 1 = base + 1 /\ n.used + 1 = 1
      BY <1>1, <2>2
    <3> QED
      BY <3>2, <3>3
  <2> HIDE DEF root
  <2>5. /\ root \in Memory /\ root.next = base + 1 /\ root.used = 1
        /\ root.mids = Empty /\ root.leaves = Empty /\ root.pages = Empty
    <3>1. base + 1 \in Nat
      BY <1>1
    <3> QED
      BY <2>2, <2>4, <3>1 DEF Memory
  <2> QED
    BY <2>1, <2>5 DEF Tables
<1>3. p = MapSegment(upper)
  BY DEF InitProcess
<1> HIDE DEF root
<1>4. Grew(root, stack, {UserTop - 1}) /\ Fresh(root, stack) /\ stack \in Memory
  <2>1. PICK page \in Nat : page = UserTop - 1
    BY <1>1
  <2> HIDE DEF stack
  <2>2. stack = MapPage(root, page)
    BY <2>1 DEF stack
  <2>3. Grew(root, stack, {page}) /\ Fresh(root, stack)
    BY <1>2, <2>2, PageAdded
  <2> QED
    BY <2>1, <2>3 DEF Grew
<1> HIDE DEF stack
<1>5. /\ Grew(stack, upper, Upper) /\ upper \in Memory
      /\ upper.ok => \A i \in 0..StackPages : upper.pages[Top - i] = UpperFrame(e, i)
  BY <1>4, UpperMapped DEF Grew
<1> HIDE DEF upper
<1>6. Grew(upper, p, ElfPages) /\ Fresh(upper, p)
  BY <1>3, <1>5, SegmentMapped
<1>7. /\ Grew(root, upper, {UserTop - 1} \cup Upper)
      /\ Grew(root, p, ({UserTop - 1} \cup Upper) \cup ElfPages)
  <2>1. Grew(root, upper, {UserTop - 1} \cup Upper)
    BY <1>2, <1>4, <1>5, GrewOn
  <2> QED
    BY <1>2, <1>6, <2>1, GrewOn
<1>8. /\ \A page \in Upper : ~(page < UserTop) /\ page \notin ElfPages
      /\ \A i \in 0..StackPages : Top - i \in Upper
      /\ \A page \in ElfPages \cup {UserTop - 1} : page < UserTop /\ page \in Nat
  BY <1>1 DEF Upper, ElfPages
<1>9. /\ p \in Memory /\ p.used <= Pool /\ p.next = base + p.used /\ base <= p.next
      /\ Tables(p) \subseteq base..(p.next - 1)
  <2>1. p \in Memory /\ p.next \in Nat /\ p.used \in Nat /\ root.used <= Pool
    BY <1>1, <1>2, <1>7 DEF Grew, Memory
  <2>2. /\ root.next <= p.next /\ p.next = root.next + (p.used - root.used) /\ p.used <= Pool
        /\ Tables(p) \subseteq Tables(root) \cup root.next..(p.next - 1)
    BY <1>7, <2>1 DEF Grew
  <2>3. root.next..(p.next - 1) \subseteq base..(p.next - 1)
    BY <1>1, <1>2, <2>1
  <2> QED
    BY <1>1, <1>2, <2>1, <2>2, <2>3
<1>10. ASSUME NEW page \in DOMAIN p.pages, page < UserTop
       PROVE  p.pages[page] \in base..(p.next - 1) /\ page \in ElfPages \cup {UserTop - 1}
  <2>1. page \in ({UserTop - 1} \cup Upper) \cup ElfPages
    BY <1>2, <1>7 DEF Grew
  <2>2. page \in ElfPages \cup {UserTop - 1} /\ page \notin Upper
    BY <1>8, <1>10, <2>1
  <2>3. /\ root.next \in Nat /\ stack.next \in Nat /\ upper.next \in Nat /\ p.next \in Nat
        /\ base <= root.next /\ root.next <= stack.next /\ stack.next <= upper.next /\ upper.next <= p.next
    BY <1>1, <1>2, <1>4, <1>5, <1>6 DEF Grew, Memory
  <2>4. CASE p.pages[page] \in upper.next..(p.next - 1)
    BY <1>1, <2>2, <2>3, <2>4
  <2>5. CASE page \in DOMAIN upper.pages /\ p.pages[page] = upper.pages[page]
    <3>1. page \in DOMAIN stack.pages /\ upper.pages[page] = stack.pages[page]
      BY <1>5, <2>2, <2>5 DEF Grew
    <3>2. stack.pages[page] \in root.next..(stack.next - 1)
      BY <1>2, <1>4, <3>1 DEF Fresh
    <3> QED
      BY <1>1, <2>2, <2>3, <2>5, <3>1, <3>2
  <2> QED
    BY <1>6, <2>4, <2>5 DEF Fresh
<1>11. ASSUME NEW i \in 0..StackPages
       PROVE  Top - i \in DOMAIN p.pages /\ p.pages[Top - i] = UpperFrame(e, i)
  <2>1. upper.ok
    BY <1>6 DEF Grew
  <2>2. Top - i \in DOMAIN upper.pages /\ Top - i \notin ElfPages
    BY <1>5, <1>8, <2>1 DEF Grew
  <2>3. Top - i \in DOMAIN p.pages /\ p.pages[Top - i] = upper.pages[Top - i]
    BY <1>6, <2>2 DEF Grew
  <2> QED
    BY <1>5, <2>1, <2>3
<1>12. ElfPages \cup {UserTop - 1} \subseteq DOMAIN p.pages
  BY <1>7 DEF Grew
<1> QED
  BY <1>9, <1>10, <1>11, <1>12 DEF Paged

LEMMA PageServed ==
  ASSUME NEW m, NEW base \in Nat, NEW e, Paged(m, base, e), NEW page \in Nat, page < UserTop,
         NEW r, r = MapPage(m, page)
  PROVE  Paged(r, base, e) /\ Grew(m, r, {page})
<1>1. m \in Memory
  BY DEF Paged
<1>2. Grew(m, r, {page}) /\ Fresh(m, r)
  BY <1>1, PageAdded
<1>3. /\ m.next \in Nat /\ m.used \in Nat /\ r.next \in Nat /\ r.used \in Nat /\ r \in Memory
      /\ m.used <= Pool /\ r.used <= Pool /\ m.next = base + m.used /\ m.next <= r.next
      /\ r.next = base + r.used
  BY <1>1, <1>2 DEF Paged, Grew, Memory
<1>4. base..(m.next - 1) \subseteq base..(r.next - 1) /\ m.next..(r.next - 1) \subseteq base..(r.next - 1)
  BY <1>3
<1>5. Tables(r) \subseteq base..(r.next - 1)
  BY <1>2, <1>4 DEF Grew, Paged
<1>6. \A p \in DOMAIN r.pages : p < UserTop => r.pages[p] \in base..(r.next - 1)
  BY <1>2, <1>4 DEF Fresh, Paged
<1>7. ASSUME NEW i \in 0..StackPages
      PROVE  Top - i \in DOMAIN r.pages /\ r.pages[Top - i] = UpperFrame(e, i)
  <2>1. Top - i # page
    BY Sizes
  <2>2. Top - i \in DOMAIN m.pages /\ m.pages[Top - i] = UpperFrame(e, i)
    BY DEF Paged
  <2> QED
    BY <1>2, <2>1, <2>2 DEF Grew
<1> QED
  BY <1>2, <1>3, <1>5, <1>6, <1>7 DEF Paged
-----------------------------------------------------------------------------
(* The regions of the process.                                              *)
Region(highest) == [lowest : Nat, highest : highest]

(* Below the region of the stack there is no hole up to its end, and the   *)
(* region of code, data and heap starts at a page.                         *)
Regions ==
  /\ lo \in Region(Nat) /\ mid \in Region({UserTop - 1})
  /\ brk \in Nat /\ sp \in Nat

LEMMA Addressing ==
  /\ UserTop * W - 1 \in Nat /\ 0..(UserTop * W - 1) \subseteq Nat
  /\ \A a \in Breaks \cup StackPointers \cup {ElfEnd} : a \in Nat /\ a < UserTop * W
  /\ Touched \subseteq Nat
<1>1. UserTop * W \in Nat /\ UserTop * W >= 1
  <2>1. PICK n \in Nat : n = UserTop - 1
    BY Sizes
  <2>2. UserTop * W = n * W + W /\ n * W \in Nat /\ W >= 1
    BY <2>1, Sizes
  <2> QED
    BY <2>2, Sizes
<1>2. PICK n \in Nat : n = UserTop * W /\ n >= 1
  BY <1>1
<1>3. \A a \in Breaks \cup StackPointers \cup {ElfEnd} : a \in 0..(n - 1)
  BY <1>2, BareMetalAssumption DEF BareMetalAssumption
<1>4. Touched \subseteq 0..Top /\ 0..Top \subseteq Nat
  BY BareMetalAssumption, Sizes DEF BareMetalAssumption
<1> QED
  BY <1>2, <1>3, <1>4

LEMMA InitRegions == BareInit => Regions
<1> SUFFICES ASSUME BareInit
             PROVE  Regions
  OBVIOUS
<1>1. /\ lo = [lowest |-> ElfFirst, highest |-> ElfLast]
      /\ mid = [lowest |-> UserTop - 1, highest |-> UserTop - 1]
      /\ brk = ElfEnd /\ sp = UserTop * W - 1
  BY DEF BareInit
<1> QED
  BY <1>1, Sizes, Addressing DEF Regions, Region

LEMMA Pages ==
  ASSUME NEW a \in Nat
  PROVE  /\ Page(a) \in Nat
         /\ \A page \in Nat : page * W <= a => page <= Page(a)
         /\ \A page \in Nat : a < page * W => Page(a) < page
<1>1. W \in Nat \ {0}
  BY Sizes
<1>2. Page(a) \in Nat /\ a = Page(a) * W + (a % W) /\ a % W \in Nat /\ a % W < W
  BY <1>1, DivMod DEF Page
<1>3. ASSUME NEW page \in Nat, page * W <= a, ~(page <= Page(a))
      PROVE  FALSE
  <2>1. Page(a) * W + W <= page * W
    BY <1>1, <1>2, <1>3, Multiples
  <2>2. page * W \in Nat /\ Page(a) * W \in Nat
    BY <1>1, <1>2
  <2> QED
    BY <1>1, <1>2, <1>3, <2>1, <2>2
<1>4. ASSUME NEW page \in Nat, a < page * W
      PROVE  Page(a) < page
  BY <1>1, <1>4, Bounded DEF Page
<1> QED
  BY <1>2, <1>3, <1>4

LEMMA Touches ==
  ASSUME NEW page \in Touched, NEW i \in 0..(W - 1)
  PROVE  page * W + i \in Nat
  BY Addressing, Sizes

LEMMA RegionsStep == Regions /\ [BareNext]_bareVars => Regions'
<1> SUFFICES ASSUME Regions, [BareNext]_bareVars
             PROVE  Regions'
  OBVIOUS
<1>1. ASSUME NEW page, NEW newLo \in Region(Nat), NEW newMid \in Region({UserTop - 1}),
             Serve(page, newLo, newMid)
      PROVE  Regions'
  BY <1>1 DEF Serve, Regions
<1>2. ASSUME NEW reason, Die(reason)
      PROVE  Regions'
  BY <1>2 DEF Die, Regions
<1>3. ASSUME NEW a \in Nat, Access(a)
      PROVE  Regions'
  <2>1. /\ [lo EXCEPT !.highest = Page(a)] \in Region(Nat)
        /\ [mid EXCEPT !.lowest = Page(a)] \in Region({UserTop - 1})
        /\ lo \in Region(Nat) /\ mid \in Region({UserTop - 1})
    BY Pages DEF Regions, Region
  <2> QED
    BY <1>1, <1>2, <1>3, <2>1 DEF Access
<1>4. ASSUME NEW b \in Breaks, Brk(b)
      PROVE  Regions'
  BY <1>4, Addressing DEF Brk, Regions
<1>5. ASSUME NEW s \in StackPointers, MoveStack(s)
      PROVE  Regions'
  BY <1>5, Addressing DEF MoveStack, Regions
<1>6. CASE UNCHANGED bareVars
  BY <1>6 DEF bareVars, Regions
<1> QED
  BY <1>2, <1>3, <1>4, <1>5, <1>6, Touches DEF BareNext, Killed, Stopped

(* A legal address lies in one of the regions, or one of them may grow to  *)
(* its page: the heap upwards to below the break, the stack downwards to   *)
(* the page of the stack pointer.                                          *)
LEMMA LegalServed ==
  ASSUME Regions, NEW a \in Nat, Legal(a)
  PROVE  InRegion(a) \/ IsLegalHeapGrowth(a) \/ HasStackGrown(a)
<1>1. Page(a) \in Nat /\ lo.lowest \in Nat /\ lo.highest \in Nat /\ mid.lowest \in Nat
  BY Pages DEF Regions, Region
<1>2. CASE lo.lowest * W <= a /\ a < brk
  <2>1. lo.lowest <= Page(a)
    BY <1>1, <1>2, Pages
  <2> QED
    BY <1>1, <1>2, <2>1 DEF InRegion, Within, IsLegalHeapGrowth
<1>3. CASE sp <= a /\ a < UserTop * W
  <2>1. UserTop \in Nat /\ Page(a) < UserTop
    BY <1>3, Pages, Sizes
  <2>2. mid.highest = UserTop - 1
    BY DEF Regions, Region
  <2>3. Page(a) <= mid.highest
    BY <1>1, <2>1, <2>2
  <2> QED
    BY <1>1, <1>3, <2>3 DEF InRegion, Within, HasStackGrown
<1> QED
  BY <1>2, <1>3 DEF Legal

LEMMA Served ==
  ASSUME Regions, NEW a \in Nat, Legal(a), Access(a)
  PROVE  status' # "segfault"
<1>1. ASSUME NEW page, NEW newLo, NEW newMid, Serve(page, newLo, newMid)
      PROVE  status' # "segfault"
  BY <1>1 DEF Serve, Access
<1> QED
  BY <1>1, LegalServed DEF Access

(* A program that stays below its break, or at or above its stack pointer, *)
(* is never killed for a segmentation fault by the page-fault handler (of  *)
(* trap.c), in whatever order it moves them and first uses its pages.      *)
THEOREM LegalUseNeverFaults == BareSpec => LegalUseSurvives
<1>1. ASSUME Regions
      PROVE  \A a \in Addresses : Legal(a) /\ Access(a) => status' # "segfault"
  <2>1. \A a \in Addresses : a \in Nat
    BY Touches DEF Addresses
  <2> QED
    BY <1>1, <2>1, Served
<1>2. Regions =>
        [\A a \in Addresses : Legal(a) /\ Access(a) => status' # "segfault"]_bareVars
  BY <1>1
<1> QED
  BY <1>2, InitRegions, RegionsStep, PTL DEF BareSpec, LegalUseSurvives


-----------------------------------------------------------------------------
(* The frames of the process.                                               *)
LEMMA Boots ==
  ASSUME NEW e \in StackEnds, NEW k, k = KernelTable(e), NEW p, p = InitProcess(k, e)
  PROVE  /\ k \in Memory /\ k.used = 0 /\ k.ok /\ p.ok /\ k.next \in Nat
         /\ Tables(k) \subseteq DOMAIN k.pages /\ Tables(k) \subseteq Nat
         /\ \A i \in 0..StackPages : k.pages[Top - i] = UpperFrame(e, i)
         /\ TablesForPool[e] \in Nat
         /\ k.next..(k.next + Pool - TablesForPool[e]) \subseteq DOMAIN k.pages
         /\ p.used <= Pool - (TablesForPool[e] - 1)
<1> DEFINE start == TablesMapped(e).next
<1>1. KernelReaches(e, k)
  BY KernelBooted
<1>2. k.ok /\ p.ok /\ p.used <= Pool - (k.next - start - 1)
  BY PoolAssumption DEF PoolAssumption
<1>3. TablesForPool[e] = k.next - start
  BY DEF TablesForPool
<1> HIDE DEF start
<1>4. /\ k \in Memory /\ k.used = 0 /\ e <= start /\ start <= k.next
      /\ Tables(k) \subseteq e..(k.next - 1)
      /\ e..(start + Pool) \subseteq DOMAIN k.pages
      /\ \A i \in 0..StackPages : k.pages[Top - i] = UpperFrame(e, i)
  BY <1>1, <1>2 DEF KernelReaches, start
<1>5. e \in Nat /\ k.next \in Nat /\ Pool \in Nat
  BY <1>4, Sizes DEF Memory
<1>6. start \in Nat
  BY <1>1 DEF KernelReaches, start
<1>7. p.used \in Nat
  <2>1. Paged(p, k.next, e)
    BY <1>2, <1>4, ProcessStarted
  <2> QED
    BY <2>1 DEF Paged, Memory
<1>8. k.next - 1 <= start + Pool
  BY <1>2, <1>5, <1>6, <1>7
<1>9. e..(k.next - 1) \subseteq e..(start + Pool) /\ e..(k.next - 1) \subseteq Nat
  BY <1>5, <1>6, <1>8
<1>10. k.next..(k.next + Pool - (k.next - start)) \subseteq e..(start + Pool)
  BY <1>4, <1>5, <1>6
<1> QED
  BY <1>2, <1>3, <1>4, <1>5, <1>6, <1>9, <1>10

(* While the kernel runs, it can reach the frames taken for the process;   *)
(* when it could not, the process had used up what the pool has mapped.    *)
FramesReached ==
  \E e \in StackEnds :
    /\ kernel = KernelTable(e)
    /\ Paged(user, kernel.next, e)
    /\ status # "kernel trap" => kernel.next..(user.next - 1) \subseteq DOMAIN kernel.pages
    /\ status = "kernel trap" => user.used > Pool - (TablesForPool[e] - 1)

(* The regions of the process start and end at pages that are mapped.      *)
RegionsMapped ==
  /\ UserPages \subseteq Touched \cup ElfPages \cup {UserTop - 1}
  /\ {lo.lowest, lo.highest, mid.lowest, mid.highest} \subseteq UserPages
  /\ brk \in Breaks \cup {ElfEnd} /\ sp \in StackPointers \cup {UserTop * W - 1}
  /\ status \in {"runs", "segfault", "out of memory", "kernel trap", "killed"}

PagingInv == Regions /\ FramesReached /\ RegionsMapped

LEMMA InitPaging == BareInit => PagingInv
<1> SUFFICES ASSUME BareInit
             PROVE  FramesReached /\ RegionsMapped
  BY InitRegions DEF PagingInv
<1>1. PICK e \in StackEnds : kernel = KernelTable(e) /\ user = InitProcess(kernel, e)
  BY DEF BareInit
<1>2. /\ lo = [lowest |-> ElfFirst, highest |-> ElfLast]
      /\ mid = [lowest |-> UserTop - 1, highest |-> UserTop - 1]
      /\ brk = ElfEnd /\ sp = UserTop * W - 1 /\ status = "runs"
  BY DEF BareInit
<1>3. /\ kernel \in Memory /\ kernel.used = 0 /\ user.ok /\ kernel.next \in Nat /\ TablesForPool[e] \in Nat
      /\ kernel.next..(kernel.next + Pool - TablesForPool[e]) \subseteq DOMAIN kernel.pages
      /\ user.used <= Pool - (TablesForPool[e] - 1)
  BY <1>1, Boots
<1>4. /\ Paged(user, kernel.next, e)
      /\ \A page \in DOMAIN user.pages : page < UserTop => page \in ElfPages \cup {UserTop - 1}
      /\ ElfPages \cup {UserTop - 1} \subseteq DOMAIN user.pages
  BY <1>1, <1>3, ProcessStarted
<1>5. FramesReached
  <2>1. user.next = kernel.next + user.used /\ user.used \in Nat /\ Pool \in Nat
    BY <1>4, Sizes DEF Paged, Memory
  <2>2. kernel.next..(user.next - 1) \subseteq kernel.next..(kernel.next + Pool - TablesForPool[e])
    BY <1>3, <2>1
  <2> QED
    BY <1>1, <1>2, <1>3, <1>4, <2>2 DEF FramesReached
<1>6. {ElfFirst, ElfLast, UserTop - 1} \subseteq UserPages
  <2>1. {ElfFirst, ElfLast} \subseteq ElfPages /\ \A page \in ElfPages \cup {UserTop - 1} : page < UserTop
    BY Sizes DEF ElfPages
  <2> QED
    BY <1>4, <2>1 DEF UserPages
<1>7. UserPages \subseteq Touched \cup ElfPages \cup {UserTop - 1}
  BY <1>4 DEF UserPages
<1> QED
  BY <1>2, <1>5, <1>6, <1>7 DEF RegionsMapped

LEMMA ServePaging ==
  ASSUME PagingInv, status = "runs", NEW page \in Touched, page < UserTop,
         NEW newLo \in Region(Nat), NEW newMid \in Region({UserTop - 1}),
         {newLo.lowest, newLo.highest, newMid.lowest, newMid.highest} \subseteq UserPages \cup {page},
         Serve(page, newLo, newMid)
  PROVE  FramesReached' /\ RegionsMapped'
<1> DEFINE m == MapPage(user, page)
           new == user.next..(m.next - 1)
<1>1. /\ user' = m /\ kernel' = kernel /\ brk' = brk /\ sp' = sp
      /\ \/ new \ DOMAIN kernel.pages # {} /\ status' = "kernel trap" /\ lo' = lo /\ mid' = mid
         \/ new \subseteq DOMAIN kernel.pages /\ ~m.ok /\ status' = "out of memory" /\ lo' = lo /\ mid' = mid
         \/ new \subseteq DOMAIN kernel.pages /\ m.ok /\ status' = status /\ lo' = newLo /\ mid' = newMid
  BY DEF Serve
<1>2. PICK e \in StackEnds :
        /\ kernel = KernelTable(e)
        /\ Paged(user, kernel.next, e)
        /\ kernel.next..(user.next - 1) \subseteq DOMAIN kernel.pages
  BY DEF PagingInv, FramesReached
<1>3. PICK p : p = InitProcess(kernel, e)
  OBVIOUS
<1>4. /\ kernel.next \in Nat /\ TablesForPool[e] \in Nat /\ Pool \in Nat
      /\ kernel.next..(kernel.next + Pool - TablesForPool[e]) \subseteq DOMAIN kernel.pages
  BY <1>2, <1>3, Boots, Sizes
<1>5. page \in Nat
  BY Addressing
<1> HIDE DEF m
<1>6. Paged(m, kernel.next, e) /\ Grew(user, m, {page})
  BY <1>2, <1>4, <1>5, PageServed DEF m
<1>7. /\ user.next \in Nat /\ m.next \in Nat /\ m.used \in Nat /\ m.next = kernel.next + m.used
      /\ kernel.next <= user.next /\ user.next <= m.next
  <2>1. user \in Memory /\ m \in Memory /\ user.next = kernel.next + user.used /\ m.next = kernel.next + m.used
        /\ user.next <= m.next
    BY <1>2, <1>6 DEF Paged, Grew
  <2> QED
    BY <1>4, <2>1 DEF Memory
<1>8. ASSUME new \subseteq DOMAIN kernel.pages
      PROVE  kernel.next..(m.next - 1) \subseteq DOMAIN kernel.pages
  <2>1. kernel.next..(m.next - 1) \subseteq kernel.next..(user.next - 1) \cup new
    BY <1>4, <1>7
  <2> QED
    BY <1>2, <1>8, <2>1
<1>9. ASSUME new \ DOMAIN kernel.pages # {}
      PROVE  m.used > Pool - (TablesForPool[e] - 1)
  <2>1. PICK frame \in new : frame \notin kernel.next..(kernel.next + Pool - TablesForPool[e])
    BY <1>4, <1>9
  <2> QED
    BY <1>4, <1>7, <2>1
<1>10. FramesReached'
  <2>1. status' # "kernel trap" => new \subseteq DOMAIN kernel.pages
    BY <1>1
  <2>2. status' = "kernel trap" => new \ DOMAIN kernel.pages # {}
    BY <1>1
  <2> HIDE DEF new
  <2>3. /\ kernel' = KernelTable(e) /\ Paged(user', kernel'.next, e)
        /\ status' # "kernel trap" => kernel'.next..(user'.next - 1) \subseteq DOMAIN kernel'.pages
        /\ status' = "kernel trap" => user'.used > Pool - (TablesForPool[e] - 1)
    BY <1>1, <1>2, <1>6, <1>8, <1>9, <2>1, <2>2
  <2> QED
    BY <2>3 DEF FramesReached
<1>11. /\ UserPages \subseteq UserPages' /\ UserPages' \subseteq UserPages \cup {page}
       /\ m.ok => page \in UserPages'
  <2>1. /\ DOMAIN user.pages \subseteq DOMAIN m.pages /\ DOMAIN m.pages \subseteq DOMAIN user.pages \cup {page}
        /\ m.ok => page \in DOMAIN m.pages
    BY <1>6 DEF Grew
  <2>2. UserPages' = {q \in DOMAIN m.pages : q < UserTop}
    BY <1>1 DEF UserPages
  <2> QED
    BY <2>1, <2>2 DEF UserPages
<1>12. RegionsMapped'
  <2>1. {lo'.lowest, lo'.highest, mid'.lowest, mid'.highest} \subseteq UserPages'
    <3>1. {lo.lowest, lo.highest, mid.lowest, mid.highest} \subseteq UserPages
      BY DEF PagingInv, RegionsMapped
    <3> HIDE DEF new
    <3>2. CASE lo' = lo /\ mid' = mid
      BY <1>11, <3>1, <3>2
    <3>3. CASE m.ok /\ lo' = newLo /\ mid' = newMid
      BY <1>11, <3>3
    <3> QED
      BY <1>1, <3>2, <3>3
  <2>2. UserPages' \subseteq Touched \cup ElfPages \cup {UserTop - 1}
    BY <1>11 DEF PagingInv, RegionsMapped
  <2>3. status' \in {"runs", "segfault", "out of memory", "kernel trap", "killed"}
    BY <1>1
  <2>4. brk' \in Breaks \cup {ElfEnd} /\ sp' \in StackPointers \cup {UserTop * W - 1}
    BY <1>1 DEF PagingInv, RegionsMapped
  <2> QED
    BY <2>1, <2>2, <2>3, <2>4 DEF RegionsMapped
<1> QED
  BY <1>10, <1>12

LEMMA DiePaging ==
  ASSUME PagingInv, status = "runs", NEW reason \in {"segfault", "killed"}, Die(reason)
  PROVE  FramesReached' /\ RegionsMapped'
<1>1. UNCHANGED <<kernel, user, lo, mid, brk, sp>> /\ status' = reason
  BY DEF Die
<1>2. FramesReached'
  BY <1>1 DEF PagingInv, FramesReached
<1>3. RegionsMapped'
  BY <1>1 DEF PagingInv, RegionsMapped, UserPages
<1> QED
  BY <1>2, <1>3

LEMMA AccessPaging ==
  ASSUME PagingInv, NEW page \in Touched, NEW i \in 0..(W - 1), Access(page * W + i)
  PROVE  FramesReached' /\ RegionsMapped'
<1> DEFINE a == page * W + i
<1>1. a \in Nat /\ Page(a) = page /\ page \in Nat /\ UserTop \in Nat
  <2>1. page \in Nat /\ W \in Nat \ {0} /\ i \in Nat /\ i < W
    BY Addressing, Sizes
  <2> QED
    BY <2>1, Quotient, Sizes DEF Page
<1>2. /\ lo \in Region(Nat) /\ mid \in Region({UserTop - 1})
      /\ {lo.lowest, lo.highest, mid.lowest, mid.highest} \subseteq UserPages
      /\ \A q \in UserPages : q < UserTop
  BY DEF PagingInv, Regions, RegionsMapped, UserPages
<1>3. status = "runs" /\ Access(a)
  BY DEF Access
<1> HIDE DEF a
<1>4. CASE InRegion(a) /\ Serve(page, lo, mid)
  <2>1. page < UserTop
    <3>1. page <= lo.highest \/ page <= mid.highest
      BY <1>1, <1>4 DEF InRegion, Within
    <3>2. lo.highest \in Nat /\ mid.highest \in Nat /\ lo.highest < UserTop /\ mid.highest < UserTop
      BY <1>2, Sizes DEF Region
    <3> QED
      BY <1>1, <3>1, <3>2
  <2> QED
    BY <1>2, <1>3, <1>4, <2>1, ServePaging
<1>5. CASE IsLegalHeapGrowth(a) /\ Serve(page, [lo EXCEPT !.highest = page], mid)
  <2>1. page < UserTop
    <3>1. brk \in Nat /\ brk < UserTop * W
      BY Addressing DEF PagingInv, RegionsMapped
    <3>2. UserTop * W \in Nat
      BY Sizes
    <3>3. a < UserTop * W
      BY <1>1, <1>5, <3>1, <3>2 DEF IsLegalHeapGrowth
    <3> QED
      BY <1>1, <3>3, Pages
  <2> DEFINE newLo == [lo EXCEPT !.highest = page]
  <2>2. newLo \in Region(Nat) /\ newLo.lowest = lo.lowest /\ newLo.highest = page
    BY <1>1, <1>2 DEF Region
  <2>3. Serve(page, newLo, mid)
    BY <1>5
  <2> HIDE DEF newLo
  <2> QED
    BY <1>2, <1>3, <2>1, <2>2, <2>3, ServePaging
<1>6. CASE HasStackGrown(a) /\ Serve(page, lo, [mid EXCEPT !.lowest = page])
  <2>1. page < UserTop
    <3>1. page <= mid.lowest /\ mid.lowest \in Nat /\ mid.lowest < UserTop
      BY <1>1, <1>2, <1>6 DEF HasStackGrown, Region
    <3> QED
      BY <1>1, <3>1
  <2> DEFINE newMid == [mid EXCEPT !.lowest = page]
  <2>2. newMid \in Region({UserTop - 1}) /\ newMid.lowest = page /\ newMid.highest = mid.highest
    BY <1>1, <1>2 DEF Region
  <2>3. Serve(page, lo, newMid)
    BY <1>6
  <2> HIDE DEF newMid
  <2> QED
    BY <1>2, <1>3, <2>1, <2>2, <2>3, ServePaging
<1>7. CASE Die("segfault")
  BY <1>3, <1>7, DiePaging
<1> QED
  BY <1>1, <1>3, <1>4, <1>5, <1>6, <1>7 DEF Access

LEMMA PagingStep == PagingInv /\ [BareNext]_bareVars => PagingInv'
<1> SUFFICES ASSUME PagingInv, [BareNext]_bareVars
             PROVE  FramesReached' /\ RegionsMapped'
  BY RegionsStep DEF PagingInv
<1>1. ASSUME NEW page \in Touched, NEW i \in 0..(W - 1), Access(page * W + i)
      PROVE  FramesReached' /\ RegionsMapped'
  BY <1>1, AccessPaging
<1>2. ASSUME UNCHANGED <<kernel, user, lo, mid, status>>,
             brk' \in Breaks \cup {ElfEnd}, sp' \in StackPointers \cup {UserTop * W - 1}
      PROVE  FramesReached' /\ RegionsMapped'
  BY <1>2 DEF PagingInv, FramesReached, RegionsMapped, UserPages
<1>3. brk \in Breaks \cup {ElfEnd} /\ sp \in StackPointers \cup {UserTop * W - 1}
  BY DEF PagingInv, RegionsMapped
<1>4. ASSUME NEW b \in Breaks, Brk(b)
      PROVE  FramesReached' /\ RegionsMapped'
  BY <1>2, <1>3, <1>4 DEF Brk
<1>5. ASSUME NEW s \in StackPointers, MoveStack(s)
      PROVE  FramesReached' /\ RegionsMapped'
  BY <1>2, <1>3, <1>5 DEF MoveStack
<1>6. CASE Killed
  BY <1>6, DiePaging DEF Killed
<1>7. CASE UNCHANGED bareVars
  BY <1>2, <1>3, <1>7 DEF bareVars
<1> QED
  BY <1>1, <1>4, <1>5, <1>6, <1>7 DEF BareNext, Stopped

LEMMA PagingAlways == BareSpec => []PagingInv
BY InitPaging, PagingStep, PTL DEF BareSpec

(* Every variable keeps its type, the trampoline and the kernel's stack    *)
(* stay in both page tables and the regions of the process start and end   *)
(* at pages mapped, in any number of page faults (setup_kernel_pt,         *)
(* kinit_context, load_elf and the page-fault handler).                    *)
THEOREM BareMetalTypes == BareSpec => []BareTypeOK
<1>1. PagingInv => BareTypeOK
  <2> SUFFICES ASSUME PagingInv PROVE BareTypeOK
    OBVIOUS
  <2>1. PICK e \in StackEnds : kernel = KernelTable(e) /\ Paged(user, kernel.next, e)
    BY DEF PagingInv, FramesReached
  <2>2. PICK p : p = InitProcess(kernel, e)
    OBVIOUS
  <2>3. /\ kernel.ok /\ Tables(kernel) \subseteq Nat
        /\ \A i \in 0..StackPages : kernel.pages[Top - i] = UpperFrame(e, i)
    BY <2>1, <2>2, Boots
  <2>4. \A i \in 0..StackPages : user.pages[Top - i] = kernel.pages[Top - i]
    BY <2>1, <2>3 DEF Paged
  <2>5. user.used \in 0..Pool /\ user.next = kernel.next + user.used
    BY <2>1, Sizes DEF Paged, Memory
  <2> QED
    BY <2>3, <2>4, <2>5 DEF BareTypeOK, PagingInv, RegionsMapped
<1> QED
  BY <1>1, PagingAlways, PTL

(* The kernel reaches, through its own page table, every table and every   *)
(* page it works on, and traps only when the pool has almost no frame left *)
(* (kinit_page_pool and setup_kernel_pt, whatever the sizes of the tables, *)
(* of the pool and of the kernel's image).                                 *)
THEOREM FramesStayMapped == BareSpec => []HoleBounded
<1>1. PagingInv => HoleBounded
  <2> SUFFICES ASSUME PagingInv PROVE HoleBounded
    OBVIOUS
  <2>1. PICK e \in StackEnds :
          /\ kernel = KernelTable(e)
          /\ Paged(user, kernel.next, e)
          /\ status # "kernel trap" => kernel.next..(user.next - 1) \subseteq DOMAIN kernel.pages
          /\ status = "kernel trap" => user.used > Pool - (TablesForPool[e] - 1)
    BY DEF PagingInv, FramesReached
  <2>2. PICK p : p = InitProcess(kernel, e)
    OBVIOUS
  <2>3. Tables(kernel) \subseteq DOMAIN kernel.pages
    BY <2>1, <2>2, Boots
  <2>4. user.pages[Top - 1] + 1 = e
    <3>1. 1 \in 0..StackPages /\ e \in Nat
      BY Sizes
    <3>2. user.pages[Top - 1] = UpperFrame(e, 1)
      BY <2>1, <3>1 DEF Paged
    <3>3. UpperFrame(e, 1) = e - 1
      BY DEF UpperFrame
    <3> QED
      BY <3>1, <3>2, <3>3
  <2>5. Tables(user) \cup {user.pages[page] : page \in UserPages} \subseteq kernel.next..(user.next - 1)
    BY <2>1 DEF Paged, UserPages
  <2> QED
    BY <2>1, <2>3, <2>4, <2>5 DEF HoleBounded
<1> QED
  BY <1>1, PagingAlways, PTL

=============================================================================
