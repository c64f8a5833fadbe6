----------------------------- MODULE CacheProofs -----------------------------
(***************************************************************************)
(* Theorems about the L1 caches, for every geometry that the assertions of *)
(* the code admit, any number of ways and any placement of the frames.     *)
(***************************************************************************)
EXTENDS Cache, DataLemmas

-----------------------------------------------------------------------------
(* The geometry of a cache                                                 *)
Places == BlockSize \div Double
Sets == SetSize \div BlockSize

LEMMA Geometry ==
  /\ Double \in Nat \ {0} /\ BlockSize \in Nat \ {0} /\ SetSize \in Nat \ {0}
  /\ PageSize \in Nat \ {0}
  /\ Places \in Nat \ {0} /\ BlockSize = Places * Double
  /\ Sets \in Nat \ {0} /\ SetSize = Sets * BlockSize
  /\ Place = 0..(Places - 1) /\ Place \subseteq Value /\ 0 \in Value
<1>1. /\ Double \in Nat \ {0} /\ BlockSize \in Nat \ {0} /\ SetSize \in Nat \ {0}
      /\ PageSize \in Nat \ {0}
      /\ BlockSize % Double = 0 /\ SetSize % BlockSize = 0
  BY CacheAssumption DEF CacheAssumption
<1>2. Places \in Nat /\ BlockSize = Places * Double
  BY <1>1, DivMod DEF Places
<1>3. Sets \in Nat /\ SetSize = Sets * BlockSize
  BY <1>1, DivMod DEF Sets
<1>4. Places # 0 /\ Sets # 0
  BY <1>1, <1>2, <1>3
<1>5. Place = 0..(Places - 1) /\ Place \subseteq Value
  BY CacheAssumption DEF CacheAssumption, Place, Places
<1> QED
  BY <1>1, <1>2, <1>3, <1>4, <1>5

(* The block of an address is found from its tag and its index.            *)
LEMMA BlockOf ==
  ASSUME NEW a \in Nat
  PROVE  /\ Index(a) \in 0..(Sets - 1) /\ Tag(a) \in Nat
         /\ BlockAddress(a) = (Tag(a) * Sets + Index(a)) * BlockSize
         /\ BlockAddress(a) \in Nat
         /\ a = BlockAddress(a) + (a % BlockSize)
<1> DEFINE x == a % SetSize
<1>1. /\ Tag(a) \in Nat /\ x \in Nat /\ x < Sets * BlockSize
      /\ a = Tag(a) * SetSize + x
  BY DivMod, Geometry DEF Tag
<1>2. /\ Index(a) \in Nat /\ x % BlockSize \in Nat /\ x % BlockSize < BlockSize
      /\ x = Index(a) * BlockSize + (x % BlockSize)
  BY <1>1, DivMod, Geometry DEF Index
<1>3. Index(a) < Sets
  BY <1>1, Bounded, Geometry DEF Index
<1> HIDE DEF x
<1>4. Tag(a) * Sets + Index(a) \in Nat
  <2>1. Tag(a) \in Nat /\ Sets \in Nat /\ Index(a) \in Nat
    BY <1>1, <1>2, Geometry
  <2> HIDE DEF Tag
  <2> QED
    BY <2>1
<1>5. a = (Tag(a) * Sets + Index(a)) * BlockSize + (x % BlockSize)
  <2>1. a = Tag(a) * (Sets * BlockSize) + (Index(a) * BlockSize + (x % BlockSize))
    <3>1. SetSize = Sets * BlockSize
      BY Geometry
    <3> QED
      BY <1>1, <1>2, <3>1
  <2>2. BlockSize \in Nat /\ Sets \in Nat /\ Index(a) \in Nat /\ Tag(a) \in Nat
        /\ x % BlockSize \in Nat
    BY <1>1, <1>2, Geometry
  <2> HIDE DEF x
  <2> QED
    BY <2>1, <2>2, Regroup
<1>6. a \div BlockSize = Tag(a) * Sets + Index(a) /\ a % BlockSize = x % BlockSize
  <2> DEFINE q == Tag(a) * Sets + Index(a)
  <2>1. q \in Nat /\ BlockSize \in Nat \ {0} /\ x % BlockSize \in Nat /\ x % BlockSize < BlockSize
    BY <1>2, <1>4, Geometry
  <2>2. a = q * BlockSize + (x % BlockSize)
    BY <1>5
  <2> HIDE DEF q, x
  <2>3. a \div BlockSize = q /\ a % BlockSize = x % BlockSize
    BY <2>1, <2>2, Quotient
  <2> QED
    BY <2>3 DEF q
<1>7. BlockAddress(a) = (Tag(a) * Sets + Index(a)) * BlockSize
  BY <1>6 DEF BlockAddress
<1>8. BlockAddress(a) \in Nat
  BY <1>4, <1>7, Geometry
<1> QED
  BY <1>1, <1>2, <1>3, <1>5, <1>6, <1>7, <1>8, Geometry

-----------------------------------------------------------------------------
(* The translation of addresses                                            *)
Address == Code \cup Data

LEMMA Paged ==
  ASSUME NEW v \in Address
  PROVE  /\ v \in Nat /\ v \div PageSize \in Page /\ v % PageSize \in 0..(PageSize - 1)
         /\ v = (v \div PageSize) * PageSize + (v % PageSize)
         /\ v \in Code <=> v \div PageSize = 0
         /\ v \in Data <=> v \div PageSize # 0
<1>1. PageSize \in Nat \ {0} /\ Page \subseteq Nat /\ 0 \in Page
  BY Geometry, CacheAssumption DEF CacheAssumption
<1>2. PICK n \in Page, o \in 0..(PageSize - 1) :
        v = n * PageSize + o /\ (v \in Code => n = 0) /\ (v \in Data => n # 0)
  <2>1. CASE v \in Code
    <3>1. v \notin Data
      <4> SUFFICES ASSUME NEW n \in Page \ {0}, NEW o \in 0..(PageSize - 1),
                          v = n * PageSize + o
                   PROVE  FALSE
        BY DEF Data
      <4>1. 0 * PageSize + PageSize <= n * PageSize
        BY <1>1, Multiples
      <4> QED
        BY <1>1, <2>1, <4>1 DEF Code
    <3> QED
      BY <1>1, <2>1, <3>1 DEF Code
  <2>2. CASE v \notin Code
    BY <1>1, <2>2 DEF Address, Data
  <2> QED
    BY <2>1, <2>2
<1>3. n \in Nat /\ o \in Nat /\ o < PageSize
  BY <1>1
<1>4. v \div PageSize = n /\ v % PageSize = o
  BY <1>1, <1>2, <1>3, Quotient
<1> QED
  BY <1>1, <1>2, <1>3, <1>4 DEF Address

LEMMA OnPage ==
  ASSUME NEW n \in Page, NEW o \in 0..(PageSize - 1)
  PROVE  /\ n * PageSize + o \in Address
         /\ (n * PageSize + o) \div PageSize = n
         /\ (n * PageSize + o) % PageSize = o
<1>1. PageSize \in Nat \ {0} /\ n \in Nat
  BY Geometry, CacheAssumption DEF CacheAssumption
<1>2. n * PageSize + o \in Address
  BY <1>1 DEF Address, Code, Data
<1> QED
  BY <1>1, <1>2, Quotient

(* Frames and pages hold whole blocks, pages hold whole sets of them.      *)
LEMMA Alignment ==
  /\ \E k \in Nat : PageSize = k * SetSize
  /\ \E h \in Nat : PageSize = h * Places
  /\ \A n \in Page : /\ Frames[n] \in Nat
                     /\ \E m \in Nat : Frames[n] = m * (Double * PageSize)
                     /\ \E g \in Nat : Frames[n] = g * BlockSize
<1>1. PICK k \in Nat : PageSize = k * SetSize
  <2>1. PageSize \in Nat /\ SetSize \in Nat \ {0} /\ PageSize % SetSize = 0
    BY Geometry, CacheAssumption DEF CacheAssumption
  <2> QED
    BY <2>1, Divisible
<1>2. /\ k * Sets * Double \in Nat /\ PageSize = (k * Sets * Double) * Places
      /\ k * Sets \in Nat /\ PageSize = (k * Sets) * BlockSize
  BY <1>1, Geometry
<1>3. ASSUME NEW n \in Page
      PROVE  /\ Frames[n] \in Nat
             /\ \E m \in Nat : Frames[n] = m * (Double * PageSize)
             /\ \E g \in Nat : Frames[n] = g * BlockSize
  <2>1. Frames[n] \in Nat /\ Frames[n] % (Double * PageSize) = 0
    BY CacheAssumption DEF CacheAssumption
  <2>2. Double * PageSize \in Nat \ {0}
    BY Geometry
  <2>3. PICK m \in Nat : Frames[n] = m * (Double * PageSize)
    BY <2>1, <2>2, Divisible
  <2>4. m * Double * (k * Sets) \in Nat /\ Frames[n] = (m * Double * (k * Sets)) * BlockSize
    BY <1>2, <2>3, Geometry
  <2> QED
    BY <2>1, <2>3, <2>4
<1> QED
  BY <1>1, <1>2, <1>3

LEMMA Translated ==
  ASSUME NEW v \in Address
  PROVE  Tlb(v) \in Nat /\ Tlb(v) \in Cell(Address)
<1>1. Frames[v \div PageSize] \in Nat /\ v % PageSize \in Nat /\ Double \in Nat
  BY Paged, Alignment, Geometry
<1> QED
  BY <1>1 DEF Tlb, Cell

(* No two virtual addresses share a word.                                  *)
LEMMA TlbInjective ==
  ASSUME NEW v \in Address, NEW u \in Address, Tlb(v) = Tlb(u)
  PROVE  v = u
<1> DEFINE n == v \div PageSize
           m == u \div PageSize
           L == Double * PageSize
<1>1. /\ n \in Page /\ v % PageSize \in 0..(PageSize - 1) /\ v = n * PageSize + (v % PageSize)
      /\ m \in Page /\ u % PageSize \in 0..(PageSize - 1) /\ u = m * PageSize + (u % PageSize)
  BY Paged
<1>2. L \in Nat \ {0} /\ Double \in Nat \ {0} /\ PageSize \in Nat \ {0}
  BY Geometry
<1>3. PICK i \in Nat, j \in Nat : Frames[n] = i * L /\ Frames[m] = j * L
  BY <1>1, Alignment
<1>4. ASSUME NEW o \in 0..(PageSize - 1)
      PROVE  o * Double \in Nat /\ o * Double < L
  <2>1. o * Double + Double <= PageSize * Double
    BY <1>2, Multiples
  <2> QED
    BY <1>2, <2>1
<1>5. i * L + (v % PageSize) * Double = j * L + (u % PageSize) * Double
  <2> HIDE DEF L
  <2>1. (v % PageSize) * Double + i * L = (u % PageSize) * Double + j * L
    BY <1>3 DEF Tlb
  <2> QED
    BY <1>1, <1>2, <1>4, <2>1
<1> HIDE DEF L
<1>6. i = j /\ (v % PageSize) * Double = (u % PageSize) * Double
  <2> DEFINE a == (v % PageSize) * Double
             b == (u % PageSize) * Double
  <2>1. a \in Nat /\ a < L /\ b \in Nat /\ b < L /\ i * L + a = j * L + b
    BY <1>1, <1>4, <1>5
  <2> HIDE DEF a, b
  <2>2. i = j /\ a = b
    BY <1>2, <2>1, Unique
  <2> QED
    BY <2>2 DEF a, b
<1>7. n = m
  BY <1>1, <1>3, <1>6, CacheAssumption DEF CacheAssumption
<1>8. v % PageSize = u % PageSize
  <2>1. Double = 1 \/ Double = 2
    BY CacheAssumption DEF CacheAssumption
  <2> QED
    BY <1>1, <1>6, <2>1
<1> QED
  BY <1>1, <1>7, <1>8

(* The block of a word lies on its page.                                   *)
LEMMA BlockOnPage ==
  ASSUME NEW v \in Address, NEW i \in Place
  PROVE  \E u \in Address : /\ Tlb(u) = BlockAddress(Tlb(v)) + i * Double
                            /\ u \div PageSize = v \div PageSize
<1> DEFINE n == v \div PageSize
           o == v % PageSize
           q == o \div Places
           r == o % Places
<1>1. n \in Page /\ o \in 0..(PageSize - 1)
  BY Paged
<1>2. /\ Double \in Nat \ {0} /\ BlockSize \in Nat \ {0} /\ PageSize \in Nat \ {0}
      /\ Places \in Nat \ {0} /\ BlockSize = Places * Double
      /\ i \in 0..(Places - 1)
  BY Geometry
<1>3. PICK h \in Nat, g \in Nat : PageSize = h * Places /\ Frames[n] = g * BlockSize
  BY <1>1, Alignment
<1>4. q \in Nat /\ r \in Nat /\ r < Places /\ o = q * Places + r /\ q < h
  <2> HIDE DEF o
  <2> QED
    BY <1>1, <1>2, <1>3, DivMod, Bounded
<1>5. Tlb(v) = o * Double + Frames[n]
  BY DEF Tlb
<1> HIDE DEF n, o, q, r
<1>6. Tlb(v) = (q + g) * BlockSize + r * Double
  <2>1. o * Double = q * BlockSize + r * Double
    BY <1>2, <1>4
  <2> QED
    BY <1>2, <1>3, <1>4, <1>5, <2>1
<1>7. r * Double \in Nat /\ r * Double < BlockSize
  <2>1. r * Double + Double <= Places * Double
    BY <1>2, <1>4, Multiples
  <2> QED
    BY <1>2, <1>4, <2>1
<1>8. BlockAddress(Tlb(v)) = (q + g) * BlockSize
  <2>1. q + g \in Nat
    BY <1>4
  <2>2. Tlb(v) \div BlockSize = q + g
    <3>1. BlockSize \in Nat \ {0} /\ Tlb(v) = (q + g) * BlockSize + r * Double
      BY <1>2, <1>6
    <3> QED
      BY <1>7, <2>1, <3>1, Quotient
  <2> QED
    BY <2>2 DEF BlockAddress
<1> DEFINE w == q * Places + i
           u == n * PageSize + w
<1>9. w \in 0..(PageSize - 1)
  <2>1. q * Places + Places <= h * Places
    BY <1>2, <1>4, Multiples
  <2> QED
    BY <1>2, <1>3, <1>4, <2>1
<1>10. u \in Address /\ u \div PageSize = n /\ u % PageSize = w
  BY <1>1, <1>9, OnPage
<1>11. w * Double = q * BlockSize + i * Double
  BY <1>2, <1>4
<1>12. Tlb(u) = BlockAddress(Tlb(v)) + i * Double
  <2> HIDE DEF u, w
  <2>1. Tlb(u) = q * BlockSize + i * Double + g * BlockSize
    BY <1>3, <1>10, <1>11 DEF Tlb
  <2> QED
    BY <1>2, <1>4, <1>8, <2>1
<1> QED
  BY <1>10, <1>12 DEF n

LEMMA WordsTyped ==
  ASSUME memory \in [Cell(Address) -> Value], NEW v \in Address
  PROVE  /\ Words(Tlb(v)) \in [Place -> Value]
         /\ \A i \in Place : BlockAddress(Tlb(v)) + i * Double \in DOMAIN memory
<1>1. ASSUME NEW i \in Place
      PROVE  BlockAddress(Tlb(v)) + i * Double \in Cell(Address)
  <2>1. PICK u \in Address : Tlb(u) = BlockAddress(Tlb(v)) + i * Double
    BY BlockOnPage
  <2> QED
    BY <2>1, Translated
<1> QED
  BY <1>1 DEF Words

-----------------------------------------------------------------------------
(* One cache.  What its blocks hold, with M for the memory behind it.      *)
Tags == {Tag(p) : p \in Cell(Address)}

BlockType == [valid : BOOLEAN, tag : Nat, data : [Place -> Value] \cup {<<>>}, stamp : Nat]

Shaped(c, ways) ==
  c \in [ways : {ways}, timer : Nat, block : [0..(ways * Sets - 1) -> BlockType]]

Sound(c) ==
  \A b \in DOMAIN c.block :
    /\ c.block[b].valid => c.block[b].data \in [Place -> Value] /\ c.block[b].tag \in Tags
    /\ c.block[b].stamp <= c.timer

Once(c) ==
  \A v \in Address : \A b, o \in Set(c, v) :
    c.block[b].valid /\ c.block[o].valid /\ c.block[b].tag = c.block[o].tag => b = o

Well(c, ways) == Shaped(c, ways) /\ Sound(c) /\ Once(c)

Copy(M, p) == [i \in Place |-> M[BlockAddress(p) + i * Double]]

(* The blocks of the addresses V are copies of memory.                     *)
Mirrors(c, V, M) ==
  \A v \in V : \A b \in Hits(c, v, Tlb(v)) : c.block[b].data = Copy(M, Tlb(v))

LEMMA TimerPut ==
  ASSUME NEW W, NEW B, NEW c \in [ways : W, timer : Nat, block : B], NEW t \in Nat
  PROVE  [c EXCEPT !.timer = t] \in [ways : W, timer : Nat, block : B]
  OBVIOUS

LEMMA BlockPut ==
  ASSUME NEW W, NEW B, NEW c \in [ways : W, timer : Nat, block : B], NEW b \in B
  PROVE  [c EXCEPT !.block = b] \in [ways : W, timer : Nat, block : B]
  OBVIOUS

LEMMA SetShape ==
  ASSUME NEW ways \in Nat \ {0}, NEW c, Shaped(c, ways), NEW v \in Nat
  PROVE  /\ Set(c, v) \subseteq DOMAIN c.block /\ Set(c, v) \subseteq Nat
         /\ Set(c, v) # {}
<1>1. c.ways = ways /\ DOMAIN c.block = 0..(ways * Sets - 1)
  BY DEF Shaped
<1>2. Index(v) \in Nat /\ Index(v) < Sets /\ Sets \in Nat
  <2>1. Sets \in Nat /\ Index(v) \in 0..(Sets - 1)
    BY BlockOf, Geometry
  <2> QED
    BY <2>1
<1>3. Index(v) * ways + ways <= Sets * ways /\ Index(v) * ways \in Nat /\ Sets * ways = ways * Sets
  BY <1>2, Multiples
<1>4. ASSUME NEW i \in 0..(ways - 1)
      PROVE  Index(v) * ways + i \in 0..(ways * Sets - 1)
  BY <1>2, <1>3
<1> QED
  BY <1>1, <1>3, <1>4 DEF Set

LEMMA SetsDisjoint ==
  ASSUME NEW ways \in Nat \ {0}, NEW c, Shaped(c, ways), NEW v \in Nat, NEW u \in Nat,
         NEW b \in Set(c, v), b \in Set(c, u)
  PROVE  Index(v) = Index(u)
<1>1. c.ways = ways
  BY DEF Shaped
<1>2. Index(v) \in Nat /\ Index(u) \in Nat
  BY BlockOf
<1>3. PICK i \in 0..(ways - 1), j \in 0..(ways - 1) :
        b = Index(v) * ways + i /\ b = Index(u) * ways + j
  BY <1>1 DEF Set
<1>4. i \in Nat /\ i < ways /\ j \in Nat /\ j < ways
  OBVIOUS
<1>5. Index(v) * ways + i = Index(u) * ways + j
  BY <1>3
<1> DEFINE q == Index(v)
           s == Index(u)
<1> HIDE DEF q, s
<1>6. q \in Nat /\ s \in Nat /\ q * ways + i = s * ways + j
  BY <1>2, <1>5 DEF q, s
<1>7. q = s
  BY <1>4, <1>6, Unique
<1> QED
  BY <1>7 DEF q, s

LEMMA SameSet ==
  ASSUME NEW c, NEW d, c.ways = d.ways, NEW v, NEW u, Index(v) = Index(u)
  PROVE  Set(c, v) = Set(d, u)
  BY DEF Set

LEMMA LineFound ==
  ASSUME NEW ways \in Nat \ {0}, NEW c, Shaped(c, ways), NEW v \in Nat, NEW p
  PROVE  /\ Line(c, v, p) \in Set(c, v)
         /\ Hits(c, v, p) # {} => Line(c, v, p) \in Hits(c, v, p)
<1>1. Set(c, v) \subseteq Nat /\ Set(c, v) # {}
  BY SetShape
<1>2. CASE Hits(c, v, p) # {}
  <2>1. Hits(c, v, p) \subseteq Set(c, v)
    BY DEF Hits
  <2>2. Hits(c, v, p) \in SUBSET Nat
    BY <1>1, <2>1
  <2>3. Min(Hits(c, v, p)) \in Hits(c, v, p)
    BY <1>2, <2>2, Least
  <2> QED
    BY <1>2, <2>1, <2>3 DEF Line
<1>3. CASE Hits(c, v, p) = {}
  <2> DEFINE Stamps == {c.block[b].stamp : b \in Set(c, v)}
             Old == {b \in Set(c, v) : \A o \in Set(c, v) : c.block[b].stamp <= c.block[o].stamp}
  <2>1. \A b \in Set(c, v) : c.block[b].stamp \in Nat
    BY SetShape DEF Shaped, BlockType
  <2>2. Stamps \in SUBSET Nat /\ Stamps # {}
    BY <1>1, <2>1
  <2>3. Min(Stamps) \in Stamps /\ \A y \in Stamps : Min(Stamps) <= y
    <3> HIDE DEF Stamps
    <3> QED
      BY <2>2, Least
  <2>4. Old # {}
    <3>1. PICK b \in Set(c, v) : c.block[b].stamp = Min(Stamps)
      BY <2>3
    <3>2. b \in Old
      BY <2>3, <3>1
    <3> QED
      BY <3>2
  <2>5. Old \in SUBSET Nat
    BY <1>1
  <2>6. Min(Old) \in Old
    <3> HIDE DEF Old
    <3> QED
      BY <2>4, <2>5, Least
  <2>7. Line(c, v, p) = Min(Old)
    BY <1>3 DEF Line, Oldest
  <2> QED
    BY <1>3, <2>6, <2>7
<1> QED
  BY <1>2, <1>3

-----------------------------------------------------------------------------
(* What the operations do to one cache                                     *)
LEMMA BlankWell ==
  ASSUME NEW ways \in Nat \ {0}, NEW c, Shaped(c, ways), NEW V \in SUBSET Address, NEW M,
         \A b \in DOMAIN c.block : c.block[b] = Invalid(0)
  PROVE  Well(c, ways) /\ Mirrors(c, V, M)
<1>1. Invalid(0).valid = FALSE /\ Invalid(0).stamp = 0 /\ c.timer \in Nat
  BY DEF Invalid, Shaped
<1>2. \A v \in Address : Set(c, v) \subseteq DOMAIN c.block
  BY SetShape, Paged
<1>3. Sound(c) /\ Once(c)
  BY <1>1, <1>2 DEF Sound, Once
<1>4. Mirrors(c, V, M)
  BY <1>1, <1>2 DEF Mirrors, Hits
<1> QED
  BY <1>3, <1>4 DEF Well

LEMMA NewWell ==
  ASSUME NEW ways \in Nat \ {0}, NEW V \in SUBSET Address, NEW M
  PROVE  Well(New(ways), ways) /\ New(ways).timer = 0 /\ Mirrors(New(ways), V, M)
<1>1. Invalid(0) \in BlockType
  BY DEF Invalid, BlockType
<1>2. Shaped(New(ways), ways) /\ New(ways).timer = 0
      /\ \A b \in DOMAIN New(ways).block : New(ways).block[b] = Invalid(0)
  BY <1>1 DEF Shaped, New, Sets
<1> QED
  BY <1>2, BlankWell

LEMMA EmptyWell ==
  ASSUME NEW ways \in Nat \ {0}, NEW c, Shaped(c, ways), NEW V \in SUBSET Address, NEW M
  PROVE  Well(Empty(c), ways) /\ Empty(c).timer = 0 /\ Mirrors(Empty(c), V, M)
<1>1. Invalid(0) \in BlockType
  BY DEF Invalid, BlockType
<1>2. Shaped(Empty(c), ways) /\ Empty(c).timer = 0
      /\ \A b \in DOMAIN Empty(c).block : Empty(c).block[b] = Invalid(0)
  BY <1>1 DEF Shaped, Empty
<1> QED
  BY <1>2, BlankWell

(* A block b of the set of v is overwritten with r, the timer goes on.     *)
Put(c, d, ways, v, b, r) ==
  /\ Shaped(d, ways) /\ d.block = [c.block EXCEPT ![b] = r] /\ c.timer <= d.timer
  /\ b \in Set(c, v) /\ r.stamp <= d.timer

LEMMA PutWell ==
  ASSUME NEW ways \in Nat \ {0}, NEW c, Well(c, ways), NEW v \in Address, NEW b, NEW r, NEW d,
         Put(c, d, ways, v, b, r),
         r.valid => /\ r.data \in [Place -> Value] /\ r.tag \in Tags
                    /\ \A o \in Set(c, v) \ {b} : ~(c.block[o].valid /\ c.block[o].tag = r.tag)
  PROVE  Well(d, ways)
<1>1. /\ c.ways = ways /\ d.ways = ways /\ c.timer \in Nat /\ d.timer \in Nat
      /\ DOMAIN c.block = DOMAIN d.block
      /\ \A o \in DOMAIN c.block : c.block[o].stamp \in Nat /\ d.block[o].stamp \in Nat
  BY DEF Put, Well, Shaped, BlockType
<1>2. b \in DOMAIN c.block /\ b \in Set(c, v)
  BY SetShape, Paged DEF Put, Well
<1>3. d.block[b] = r /\ \A o \in DOMAIN c.block \ {b} : d.block[o] = c.block[o]
  BY <1>2 DEF Put
<1>4. Sound(d)
  BY <1>1, <1>2, <1>3 DEF Put, Sound, Well
<1>5. ASSUME NEW u \in Address, NEW x \in Set(d, u), NEW y \in Set(d, u), x # y,
             d.block[x].valid, d.block[y].valid, d.block[x].tag = d.block[y].tag
      PROVE  FALSE
  <2>1. x \in Set(c, u) /\ y \in Set(c, u)
    BY <1>1, SameSet
  <2>2. x \in DOMAIN c.block /\ y \in DOMAIN c.block
    BY <2>1, SetShape, Paged DEF Well
  <2>3. CASE x # b /\ y # b
    BY <1>3, <1>5, <2>1, <2>2, <2>3 DEF Well, Once
  <2>4. CASE x = b \/ y = b
    <3>1. Index(u) = Index(v)
      BY <1>2, <2>1, <2>4, SetsDisjoint, Paged DEF Well
    <3>2. x \in Set(c, v) /\ y \in Set(c, v)
      BY <2>1, <3>1, SameSet
    <3> QED
      BY <1>3, <1>5, <2>2, <2>4, <3>2
  <2> QED
    BY <2>3, <2>4
<1>6. Once(d)
  BY <1>5 DEF Once
<1> QED
  BY <1>4, <1>6 DEF Well, Put

LEMMA PutMirrors ==
  ASSUME NEW ways \in Nat \ {0}, NEW c, Well(c, ways), NEW v \in Address, NEW b, NEW r, NEW d,
         Put(c, d, ways, v, b, r), NEW V \in SUBSET Address, NEW M,
         \A u \in V : \A o \in Hits(c, u, Tlb(u)) \ {b} : c.block[o].data = Copy(M, Tlb(u)),
         r.valid => \A u \in V :
           Index(u) = Index(v) /\ Tag(Tlb(u)) = r.tag => r.data = Copy(M, Tlb(u))
  PROVE  Mirrors(d, V, M)
<1>1. c.ways = ways /\ d.ways = ways /\ DOMAIN c.block = DOMAIN d.block
  BY DEF Put, Well, Shaped
<1>2. b \in DOMAIN c.block /\ b \in Set(c, v)
  BY SetShape, Paged DEF Put, Well
<1>3. d.block[b] = r /\ \A o \in DOMAIN c.block \ {b} : d.block[o] = c.block[o]
  BY <1>2 DEF Put
<1> SUFFICES ASSUME NEW u \in V, NEW o \in Hits(d, u, Tlb(u))
             PROVE  d.block[o].data = Copy(M, Tlb(u))
  BY DEF Mirrors
<1>4. o \in Set(c, u) /\ d.block[o].valid /\ d.block[o].tag = Tag(Tlb(u)) /\ u \in Address
  BY <1>1, SameSet DEF Hits
<1>5. o \in DOMAIN c.block
  BY <1>4, SetShape, Paged DEF Well
<1>6. CASE o # b
  BY <1>3, <1>4, <1>5, <1>6 DEF Hits
<1>7. CASE o = b
  <2>1. Index(u) = Index(v)
    BY <1>2, <1>4, <1>7, SetsDisjoint, Paged DEF Well
  <2> QED
    BY <1>3, <1>4, <1>7, <2>1
<1> QED
  BY <1>6, <1>7

(* load and fetch                                                          *)
LEMMA AccessPut ==
  ASSUME NEW ways \in Nat \ {0}, NEW c, Well(c, ways), NEW v \in Address,
         memory \in [Cell(Address) -> Value]
  PROVE  LET p == Tlb(v)
             b == Line(c, v, p)
             d == Accessed(c, v, p)
         IN  \E r : /\ Put(c, d, ways, v, b, r) /\ d.timer = c.timer + 1 /\ d.block[b] = r
                    /\ r.valid /\ r.tag = Tag(p) /\ r.tag \in Tags /\ r.data \in [Place -> Value]
                    /\ r.data = IF Hits(c, v, p) # {} THEN c.block[b].data ELSE Filled(p)
                    /\ \A o \in Set(c, v) \ {b} : ~(c.block[o].valid /\ c.block[o].tag = r.tag)
<1> DEFINE p == Tlb(v)
           b == Line(c, v, p)
           d == Accessed(c, v, p)
           r == [valid |-> TRUE, tag |-> Tag(p), stamp |-> c.timer,
                 data |-> IF Hits(c, v, p) # {} THEN c.block[b].data ELSE Filled(p)]
<1>1. /\ c.ways = ways /\ c.timer \in Nat /\ Shaped(c, ways)
      /\ c \in [ways : {ways}, timer : Nat, block : [0..(ways * Sets - 1) -> BlockType]]
  BY DEF Well, Shaped
<1>2. b \in Set(c, v) /\ (Hits(c, v, p) # {} => b \in Hits(c, v, p))
  BY <1>1, LineFound, Paged
<1>3. b \in DOMAIN c.block
  BY <1>1, <1>2, SetShape, Paged
<1>4. p \in Nat /\ Tag(p) \in Nat /\ Tag(p) \in Tags
  BY Translated, BlockOf DEF Tags
<1>5. r.data \in [Place -> Value]
  <2>1. CASE Hits(c, v, p) # {}
    BY <1>2, <1>3, <2>1 DEF Hits, Well, Sound
  <2>2. CASE Hits(c, v, p) = {}
    BY <2>2, WordsTyped DEF Filled
  <2> QED
    BY <2>1, <2>2
<1>6. r \in BlockType /\ r.stamp = c.timer /\ r.tag = Tag(p) /\ r.valid
      /\ r.data = IF Hits(c, v, p) # {} THEN c.block[b].data ELSE Filled(p)
  BY <1>1, <1>4, <1>5 DEF BlockType
<1>7. \A o \in Set(c, v) \ {b} : ~(c.block[o].valid /\ c.block[o].tag = r.tag)
  <2>1. CASE Hits(c, v, p) # {}
    BY <1>2, <2>1 DEF Hits, Well, Once
  <2>2. CASE Hits(c, v, p) = {}
    BY <2>2 DEF Hits
  <2> QED
    BY <2>1, <2>2
<1>8. d = [c EXCEPT !.timer = @ + 1, !.block[b] = r]
  BY DEF Accessed
<1> HIDE DEF b, r, d, p
<1>9. Shaped(d, ways) /\ d.timer = c.timer + 1 /\ d.block = [c.block EXCEPT ![b] = r]
  <2>1. [c.block EXCEPT ![b] = r] \in [0..(ways * Sets - 1) -> BlockType]
    BY <1>1, <1>6
  <2>2. d = [[c EXCEPT !.timer = c.timer + 1] EXCEPT !.block = [c.block EXCEPT ![b] = r]]
    BY <1>1, <1>8
  <2>3. d.ways = ways /\ d.timer = c.timer + 1 /\ d.block = [c.block EXCEPT ![b] = r]
    BY <1>1, <2>2
  <2>4. d \in [ways : {ways}, timer : Nat, block : [0..(ways * Sets - 1) -> BlockType]]
    <3> DEFINE k == [c EXCEPT !.timer = c.timer + 1]
               B == [c.block EXCEPT ![b] = r]
    <3>1. c.timer + 1 \in Nat /\ d = [k EXCEPT !.block = B]
      BY <1>1, <2>2
    <3>2. k \in [ways : {ways}, timer : Nat, block : [0..(ways * Sets - 1) -> BlockType]]
      BY <1>1, <3>1, TimerPut
    <3> HIDE DEF k, B
    <3>3. B \in [0..(ways * Sets - 1) -> BlockType]
      BY <2>1 DEF B
    <3> QED
      BY <3>1, <3>2, <3>3, BlockPut
  <2> QED
    BY <2>3, <2>4 DEF Shaped
<1>10. c.timer <= d.timer /\ r.stamp <= d.timer
  BY <1>1, <1>6, <1>9
<1>11. d.block[b] = r
  BY <1>3, <1>9
<1>12. Put(c, d, ways, v, b, r)
  BY <1>2, <1>9, <1>10 DEF Put
<1> QED
  BY <1>4, <1>5, <1>6, <1>7, <1>9, <1>11, <1>12 DEF d, b, p

(* The instruction cache when data is stored                               *)
LEMMA SnoopPut ==
  ASSUME NEW ways \in Nat \ {0}, NEW c, Well(c, ways), NEW v \in Address, NEW p
  PROVE  LET b == Line(c, v, p)
             d == Snooped(c, v, p)
         IN  \E r : Put(c, d, ways, v, b, r) /\ ~r.valid /\ d.timer = c.timer
<1> DEFINE b == Line(c, v, p)
           d == Snooped(c, v, p)
           r == Invalid(IF Hits(c, v, p) # {} THEN 0 ELSE c.block[b].stamp)
<1>1. /\ c.ways = ways /\ c.timer \in Nat /\ Shaped(c, ways)
      /\ c \in [ways : {ways}, timer : Nat, block : [0..(ways * Sets - 1) -> BlockType]]
  BY DEF Well, Shaped
<1>2. b \in Set(c, v)
  BY <1>1, LineFound, Paged
<1>3. b \in DOMAIN c.block
  BY <1>1, <1>2, SetShape, Paged
<1>4. r \in BlockType /\ r.stamp <= c.timer /\ ~r.valid
  <2>1. c.block[b].stamp \in Nat /\ c.block[b].stamp <= c.timer
    BY <1>1, <1>3 DEF Well, Sound, BlockType
  <2> QED
    BY <1>1, <2>1 DEF Invalid, BlockType
<1>5. d = [c EXCEPT !.block = [c.block EXCEPT ![b] = r]]
  BY <1>1, <1>3 DEF Snooped
<1> HIDE DEF b, r, d
<1>6. [c.block EXCEPT ![b] = r] \in [0..(ways * Sets - 1) -> BlockType]
  BY <1>1, <1>4
<1>7. Shaped(d, ways) /\ d.timer = c.timer /\ d.block = [c.block EXCEPT ![b] = r]
  BY <1>1, <1>5, <1>6 DEF Shaped
<1>8. Put(c, d, ways, v, b, r)
  BY <1>1, <1>2, <1>4, <1>7 DEF Put
<1> QED
  BY <1>4, <1>7, <1>8 DEF b, d

(* The data cache when data is stored: as for a load, then one word of the *)
(* block is replaced.                                                      *)
LEMMA StorePut ==
  ASSUME Well(dcache, DWays), DWays \in Nat \ {0}, memory \in [Cell(Address) -> Value],
         NEW v \in Data, NEW x \in Value, Store(v, x)
  PROVE  LET p == Tlb(v)
             b == Line(dcache, v, p)
         IN  \E r : /\ Put(dcache, dcache', DWays, v, b, r)
                    /\ dcache'.timer = dcache.timer + 1
                    /\ r.valid /\ r.tag = Tag(p) /\ r.tag \in Tags
                    /\ r.data \in [Place -> Value]
                    /\ r.data = [Accessed(dcache, v, p).block[b].data EXCEPT ![Offset(v)] = x]
                    /\ \A o \in Set(dcache, v) \ {b} :
                         ~(dcache.block[o].valid /\ dcache.block[o].tag = r.tag)
                    /\ memory' = Written(memory, p, r.data)
<1> DEFINE p == Tlb(v)
           b == Line(dcache, v, p)
           c == Accessed(dcache, v, p)
           data == [c.block[b].data EXCEPT ![Offset(v)] = x]
           r == [c.block[b] EXCEPT !.data = data]
<1>1. v \in Address
  BY DEF Address
<1>2. /\ \E q : /\ Put(dcache, c, DWays, v, b, q) /\ c.block[b] = q
                /\ q.data \in [Place -> Value] /\ q.tag \in Tags /\ q.tag = Tag(p) /\ q.valid
                /\ \A o \in Set(dcache, v) \ {b} :
                     ~(dcache.block[o].valid /\ dcache.block[o].tag = q.tag)
      /\ c.timer = dcache.timer + 1
  BY <1>1, AccessPut
<1>3. dcache' = [c EXCEPT !.block[b].data = data] /\ memory' = Written(memory, p, data)
  BY DEF Store
<1> HIDE DEF p, b, c
<1>4. /\ c \in [ways : {DWays}, timer : Nat, block : [0..(DWays * Sets - 1) -> BlockType]]
      /\ Shaped(dcache, DWays)
  BY <1>2 DEF Put, Shaped, Well
<1>5. b \in Set(dcache, v) /\ b \in DOMAIN c.block /\ DOMAIN dcache.block = DOMAIN c.block
  <2>1. b \in Set(dcache, v) /\ DOMAIN dcache.block = DOMAIN c.block
    BY <1>2 DEF Put
  <2> QED
    BY <1>1, <1>4, <2>1, SetShape, Paged
<1>6. c.block[b] \in BlockType /\ c.block[b].stamp <= c.timer
  BY <1>2, <1>4, <1>5 DEF Put
<1>7. data \in [Place -> Value]
  BY <1>2
<1>8. r \in BlockType /\ r.valid = c.block[b].valid /\ r.tag = c.block[b].tag
      /\ r.stamp = c.block[b].stamp /\ r.data = data
  BY <1>6, <1>7 DEF BlockType
<1>9. dcache' = [c EXCEPT !.block = [c.block EXCEPT ![b] = r]]
  BY <1>3, <1>4, <1>5
<1> HIDE DEF r, data
<1>10. [c.block EXCEPT ![b] = r] \in [0..(DWays * Sets - 1) -> BlockType]
  BY <1>4, <1>8
<1>11. Shaped(dcache', DWays) /\ dcache'.timer = c.timer
       /\ dcache'.block = [c.block EXCEPT ![b] = r]
  BY <1>4, <1>9, <1>10 DEF Shaped
<1>12. [c.block EXCEPT ![b] = r] = [dcache.block EXCEPT ![b] = r]
  BY <1>2, <1>5 DEF Put
<1>13. dcache.timer <= dcache'.timer
  BY <1>2, <1>4, <1>11 DEF Shaped
<1>14. Put(dcache, dcache', DWays, v, b, r)
  BY <1>5, <1>6, <1>8, <1>11, <1>12, <1>13 DEF Put
<1>15. /\ r.valid /\ r.tag = Tag(p) /\ r.tag \in Tags
       /\ dcache'.timer = dcache.timer + 1
       /\ \A o \in Set(dcache, v) \ {b} : ~(dcache.block[o].valid /\ dcache.block[o].tag = r.tag)
  BY <1>2, <1>8, <1>11
<1>16. r.data = [c.block[b].data EXCEPT ![Offset(v)] = x] /\ r.data \in [Place -> Value]
       /\ memory' = Written(memory, p, r.data)
  BY <1>3, <1>7, <1>8 DEF data
<1> QED
  BY <1>14, <1>15, <1>16 DEF p, b, c

-----------------------------------------------------------------------------
(* A 64-bit target.  The index of a virtual address is that of its         *)
(* translation: a page holds whole sets of blocks (1515-1521).             *)
LEMMA IndexPhysical ==
  ASSUME Double = 1, NEW v \in Address
  PROVE  /\ Index(Tlb(v)) = Index(v)
         /\ Offset(v) \in Place /\ Tlb(v) = BlockAddress(Tlb(v)) + Offset(v)
<1> DEFINE n == v \div PageSize
           o == v % PageSize
<1>1. n \in Page /\ n \in Nat /\ o \in Nat /\ v = n * PageSize + o /\ v \in Nat
  BY Paged, CacheAssumption DEF CacheAssumption
<1>2. PICK k \in Nat, m \in Nat : PageSize = k * SetSize /\ Frames[n] = m * PageSize
  BY <1>1, Alignment
<1>3. Tlb(v) = o + m * PageSize
  BY <1>1, <1>2 DEF Tlb
<1> HIDE DEF n, o
<1>4. /\ SetSize \in Nat \ {0} /\ BlockSize \in Nat \ {0} /\ Sets \in Nat
      /\ SetSize = Sets * BlockSize
  BY Geometry
<1>5. n * k \in Nat /\ m * k \in Nat /\ n * k * Sets \in Nat /\ m * k * Sets \in Nat
  BY <1>1, <1>2, <1>4
<1>6. /\ v = (n * k) * SetSize + o /\ Tlb(v) = (m * k) * SetSize + o
      /\ v = (n * k * Sets) * BlockSize + o /\ Tlb(v) = (m * k * Sets) * BlockSize + o
  BY <1>1, <1>2, <1>3, <1>4
<1>7. v % SetSize = Tlb(v) % SetSize
  <2> DEFINE a == n * k
             b == m * k
  <2>1. a \in Nat /\ b \in Nat /\ v = a * SetSize + o /\ Tlb(v) = b * SetSize + o
    BY <1>5, <1>6
  <2>2. o \in Nat /\ SetSize \in Nat \ {0}
    BY <1>1, <1>4
  <2> HIDE DEF a, b
  <2> QED
    BY <2>1, <2>2, Congruent
<1>8. v % BlockSize = Tlb(v) % BlockSize
  <2> DEFINE a == n * k * Sets
             b == m * k * Sets
  <2>1. a \in Nat /\ b \in Nat /\ v = a * BlockSize + o /\ Tlb(v) = b * BlockSize + o
    BY <1>5, <1>6
  <2>2. o \in Nat /\ BlockSize \in Nat \ {0}
    BY <1>1, <1>4
  <2> HIDE DEF a, b
  <2> QED
    BY <2>1, <2>2, Congruent
<1>9. Index(Tlb(v)) = Index(v)
  BY <1>7 DEF Index
<1>10. /\ v = BlockAddress(v) + (v % BlockSize) /\ BlockAddress(v) \in Nat
       /\ Tlb(v) = BlockAddress(Tlb(v)) + (Tlb(v) % BlockSize)
  BY <1>1, BlockOf, Translated
<1>11. v % BlockSize \in 0..(BlockSize - 1)
  BY <1>1, <1>4, DivMod
<1>12. Offset(v) = v % BlockSize
  <2>1. v - BlockAddress(v) = v % BlockSize
    BY <1>10, <1>11
  <2> QED
    BY <1>11, <2>1 DEF Offset
<1>13. Place = 0..(BlockSize - 1)
  BY <1>4 DEF Place
<1> QED
  BY <1>8, <1>9, <1>10, <1>11, <1>12, <1>13

(* Index and tag determine the block and are determined by it.             *)
LEMMA SameBlock ==
  ASSUME Double = 1, NEW v \in Address, NEW u \in Address
  PROVE  BlockAddress(Tlb(u)) = BlockAddress(Tlb(v))
           <=> Index(u) = Index(v) /\ Tag(Tlb(u)) = Tag(Tlb(v))
<1> DEFINE i == Index(v)
           j == Index(u)
           s == Tag(Tlb(v))
           t == Tag(Tlb(u))
<1>1. /\ i \in 0..(Sets - 1) /\ j \in 0..(Sets - 1) /\ s \in Nat /\ t \in Nat
      /\ BlockAddress(Tlb(v)) = (s * Sets + i) * BlockSize
      /\ BlockAddress(Tlb(u)) = (t * Sets + j) * BlockSize
  BY BlockOf, Translated, IndexPhysical
<1>2. Sets \in Nat \ {0} /\ BlockSize \in Nat \ {0}
  BY Geometry
<1> HIDE DEF i, j, s, t
<1> DEFINE a == s * Sets + i
           b == t * Sets + j
<1>3. a \in Nat /\ b \in Nat
  BY <1>1, <1>2
<1>4. ASSUME a * BlockSize = b * BlockSize
      PROVE  i = j /\ s = t
  <2> HIDE DEF a, b
  <2>1. a * BlockSize + 0 = b * BlockSize + 0
    BY <1>4
  <2>2. a = b
    BY <1>2, <1>3, <2>1, Unique
  <2>3. i \in Nat /\ i < Sets /\ j \in Nat /\ j < Sets /\ s * Sets + i = t * Sets + j
    BY <1>1, <1>2, <2>2 DEF a, b
  <2> QED
    BY <1>1, <1>2, <2>3, Unique
<1> QED
  BY <1>1, <1>4 DEF i, j, s, t

(* A store writes the words of its block, and no other block.              *)
LEMMA WordOfBlock ==
  ASSUME Double = 1, NEW a \in Nat, NEW i \in Place
  PROVE  BlockAddress(BlockAddress(a) + i) = BlockAddress(a)
<1>1. BlockSize \in Nat \ {0} /\ i \in Nat /\ i < BlockSize
  BY Geometry
<1>2. a \div BlockSize \in Nat
  BY <1>1, DivMod
<1>3. ((a \div BlockSize) * BlockSize + i) \div BlockSize = a \div BlockSize
  BY <1>1, <1>2, Quotient
<1> QED
  BY <1>3 DEF BlockAddress

LEMMA WrittenWords ==
  ASSUME Double = 1, NEW v \in Address, NEW u \in Address, NEW data \in [Place -> Value],
         NEW M \in [Cell(Address) -> Value]
  PROVE  Copy(Written(M, Tlb(v), data), Tlb(u)) =
           IF BlockAddress(Tlb(u)) = BlockAddress(Tlb(v)) THEN data ELSE Copy(M, Tlb(u))
<1> DEFINE p == Tlb(v)
           q == Tlb(u)
           N == Written(M, p, data)
<1>1. p \in Nat /\ q \in Nat /\ BlockAddress(q) \in Nat
  BY Translated, BlockOf
<1>2. ASSUME NEW i \in Place
      PROVE  /\ i \in Nat /\ i * Double = i /\ BlockAddress(q) + i \in DOMAIN M
             /\ BlockAddress(BlockAddress(q) + i) = BlockAddress(q)
  <2>1. PICK w \in Address : Tlb(w) = BlockAddress(q) + i * Double
    BY BlockOnPage
  <2>2. i \in Nat
    BY Geometry
  <2> QED
    BY <1>1, <2>1, <2>2, Translated, WordOfBlock
<1> HIDE DEF p, q
<1>3. ASSUME NEW i \in Place
      PROVE  N[BlockAddress(q) + i] =
               IF BlockAddress(q) = BlockAddress(p) THEN data[i] ELSE M[BlockAddress(q) + i]
  <2> DEFINE z == BlockAddress(q) + i
  <2>1. z \in DOMAIN M /\ BlockAddress(z) = BlockAddress(q)
    BY <1>2
  <2>2. z - BlockAddress(q) = i
    BY <1>1, <1>2
  <2>3. i \div Double = i
    BY <1>2
  <2> HIDE DEF z
  <2>4. N[z] = IF BlockAddress(z) = BlockAddress(p)
                THEN data[(z - BlockAddress(z)) \div Double] ELSE M[z]
    BY <2>1 DEF Written
  <2>5. N[z] = IF BlockAddress(q) = BlockAddress(p) THEN data[i] ELSE M[z]
    BY <2>1, <2>2, <2>3, <2>4
  <2> QED
    BY <2>5 DEF z
<1> HIDE DEF N
<1>4. Copy(N, q) = [i \in Place |-> N[BlockAddress(q) + i]]
  BY <1>2 DEF Copy
<1>5. Copy(M, q) = [i \in Place |-> M[BlockAddress(q) + i]]
  BY <1>2 DEF Copy
<1>6. CASE BlockAddress(q) = BlockAddress(p)
  BY <1>3, <1>4, <1>6 DEF N, p, q
<1>7. CASE BlockAddress(q) # BlockAddress(p)
  BY <1>3, <1>4, <1>5, <1>7 DEF N, p, q
<1> QED
  BY <1>6, <1>7 DEF p, q

(* Blocks of code and of data are different.                               *)
LEMMA CodeOrData ==
  ASSUME NEW v \in Data, NEW u \in Code
  PROVE  BlockAddress(Tlb(u)) # BlockAddress(Tlb(v))
<1>1. v \in Address /\ u \in Address /\ 0 \in Place
  BY Geometry DEF Address
<1>2. PICK x \in Address : Tlb(x) = BlockAddress(Tlb(v)) + 0 * Double
                           /\ x \div PageSize = v \div PageSize
  BY <1>1, BlockOnPage
<1>3. PICK y \in Address : Tlb(y) = BlockAddress(Tlb(u)) + 0 * Double
                           /\ y \div PageSize = u \div PageSize
  BY <1>1, BlockOnPage
<1>4. v \div PageSize # 0 /\ u \div PageSize = 0
  BY <1>1, Paged
<1> QED
  BY <1>2, <1>3, <1>4, TlbInjective

-----------------------------------------------------------------------------
(* The invariants                                                          *)
CacheBase ==
  /\ memory \in [Cell(Address) -> Value]
  /\ Well(dcache, DWays) /\ dcache.timer <= MaxLoads
  /\ Well(icache, IWays) /\ icache.timer <= MaxFetches
  /\ coherent \in Coherency /\ kernel \in BOOLEAN

(* On a 64-bit target and while the program runs, both caches are copies   *)
(* of what is behind them, each of its part of memory.                     *)
Mirrored ==
  Double = 1 /\ ~kernel => Mirrors(dcache, Data, memory) /\ Mirrors(icache, Code, memory)

LEMMA Ways ==
  DWays \in Nat \ {0} /\ IWays \in Nat \ {0} /\ MaxLoads \in Nat /\ MaxFetches \in Nat
  BY CacheAssumption DEF CacheAssumption

LEMMA InitCached ==
  ASSUME CacheInit
  PROVE  CacheBase /\ Mirrored
<1>1. ASSUME NEW v \in Address
      PROVE  Offset(Tlb(v)) \in Value
  <2> DEFINE p == Tlb(v)
             r == p % BlockSize
  <2>1. /\ p \in Nat /\ BlockAddress(p) \in Nat /\ p = BlockAddress(p) + r
        /\ BlockSize \in Nat \ {0} /\ Double \in Nat \ {0} /\ Places \in Nat
        /\ BlockSize = Places * Double
    BY Translated, BlockOf, Geometry
  <2>2. r \in Nat /\ r < Places * Double
    BY <2>1, DivMod
  <2>3. Offset(p) = r \div Double
    <3>1. p - BlockAddress(p) = r
      BY <2>1, <2>2
    <3> QED
      BY <3>1 DEF Offset
  <2> HIDE DEF p, r
  <2>4. r \div Double \in Nat /\ r \div Double < Places
    BY <2>1, <2>2, DivMod, Bounded
  <2>5. Offset(p) \in Place
    BY <2>1, <2>3, <2>4, Geometry
  <2> QED
    BY <2>5, Geometry DEF p
<1>2. memory \in [Cell(Address) -> Value]
  <2>1. \A q \in Cell(Address) : Offset(q) \in Value
    BY <1>1 DEF Cell
  <2> QED
    BY <2>1, Geometry DEF CacheInit, Address
<1>3. Code \in SUBSET Address /\ Data \in SUBSET Address
  BY DEF Address
<1>4. /\ Well(dcache, DWays) /\ dcache.timer = 0 /\ Mirrors(dcache, Data, memory)
      /\ Well(icache, IWays) /\ icache.timer = 0 /\ Mirrors(icache, Code, memory)
  BY <1>3, NewWell, Ways DEF CacheInit
<1>5. coherent \in Coherency /\ kernel \in BOOLEAN
  BY DEF CacheInit
<1>6. dcache.timer <= MaxLoads /\ icache.timer <= MaxFetches
  BY <1>4, Ways
<1> QED
  BY <1>2, <1>4, <1>5, <1>6 DEF CacheBase, Mirrored

LEMMA AccessWell ==
  ASSUME NEW ways \in Nat \ {0}, NEW c, Well(c, ways), NEW v \in Address,
         memory \in [Cell(Address) -> Value]
  PROVE  /\ Well(Accessed(c, v, Tlb(v)), ways)
         /\ Accessed(c, v, Tlb(v)).timer = c.timer + 1
<1> DEFINE b == Line(c, v, Tlb(v))
           d == Accessed(c, v, Tlb(v))
<1>1. PICK r : /\ Put(c, d, ways, v, b, r) /\ d.timer = c.timer + 1
               /\ r.tag \in Tags /\ r.data \in [Place -> Value]
               /\ \A o \in Set(c, v) \ {b} : ~(c.block[o].valid /\ c.block[o].tag = r.tag)
  BY AccessPut
<1> HIDE DEF b, d
<1>2. Well(d, ways)
  BY <1>1, PutWell
<1> QED
  BY <1>1, <1>2 DEF d

(* A cache that mirrors memory returns what is there, and goes on to.      *)
LEMMA AccessCopies ==
  ASSUME NEW ways \in Nat \ {0}, NEW c, Well(c, ways), NEW V \in SUBSET Address, NEW v \in V,
         memory \in [Cell(Address) -> Value], Mirrors(c, V, memory)
  PROVE  Accessed(c, v, Tlb(v)).block[Line(c, v, Tlb(v))].data = Copy(memory, Tlb(v))
<1> DEFINE p == Tlb(v)
           b == Line(c, v, p)
           d == Accessed(c, v, p)
<1>1. d.block[b].data = IF Hits(c, v, p) # {} THEN c.block[b].data ELSE Filled(p)
  BY AccessPut
<1>2. Hits(c, v, p) # {} => b \in Hits(c, v, p)
  BY LineFound, Paged DEF Well
<1>3. Hits(c, v, p) # {} => c.block[b].data = Copy(memory, p)
  BY <1>2 DEF Mirrors
<1>4. Filled(p) = Copy(memory, p)
  BY DEF Filled, Words, Copy
<1> QED
  BY <1>1, <1>3, <1>4

LEMMA AccessMirrors ==
  ASSUME Double = 1,
         NEW ways \in Nat \ {0}, NEW c, Well(c, ways), NEW V \in SUBSET Address, NEW v \in V,
         memory \in [Cell(Address) -> Value], Mirrors(c, V, memory)
  PROVE  Mirrors(Accessed(c, v, Tlb(v)), V, memory)
<1> DEFINE p == Tlb(v)
           b == Line(c, v, p)
           d == Accessed(c, v, p)
<1>1. PICK r : Put(c, d, ways, v, b, r) /\ d.block[b] = r /\ r.tag = Tag(p)
  BY AccessPut
<1>2. r.data = Copy(memory, p)
  BY <1>1, AccessCopies
<1>3. ASSUME NEW u \in V, Index(u) = Index(v), Tag(Tlb(u)) = r.tag
      PROVE  r.data = Copy(memory, Tlb(u))
  <2>1. BlockAddress(Tlb(u)) = BlockAddress(p)
    BY <1>1, <1>3, SameBlock
  <2> QED
    BY <1>2, <2>1 DEF Copy
<1>4. \A u \in V : \A o \in Hits(c, u, Tlb(u)) \ {b} : c.block[o].data = Copy(memory, Tlb(u))
  BY DEF Mirrors
<1> HIDE DEF b, d
<1>5. Mirrors(d, V, memory)
  BY <1>1, <1>3, <1>4, PutMirrors
<1> QED
  BY <1>5 DEF d

LEMMA FetchStep ==
  ASSUME CacheBase, Mirrored, Fetch
  PROVE  CacheBase' /\ Mirrored'
<1>1. PICK v \in Code : icache' = Accessed(icache, v, Tlb(v))
  BY DEF Fetch
<1>2. v \in Address /\ Code \in SUBSET Address /\ ~kernel /\ icache.timer < MaxFetches
      /\ UNCHANGED <<memory, dcache, coherent, kernel>>
  BY DEF Fetch, Address
<1>3. Well(icache', IWays) /\ icache'.timer = icache.timer + 1
  BY <1>1, <1>2, AccessWell, Ways DEF CacheBase
<1>4. icache'.timer <= MaxFetches
  BY <1>2, <1>3, Ways DEF CacheBase, Well, Shaped
<1>5. CacheBase'
  BY <1>2, <1>3, <1>4 DEF CacheBase
<1>6. Double = 1 => Mirrors(icache', Code, memory)
  BY <1>1, <1>2, AccessMirrors, Ways DEF CacheBase, Mirrored
<1>7. Mirrored'
  BY <1>2, <1>6 DEF Mirrored
<1> QED
  BY <1>5, <1>7

LEMMA LoadStep ==
  ASSUME CacheBase, Mirrored, Load
  PROVE  CacheBase' /\ Mirrored'
<1>1. PICK v \in Data : dcache' = Accessed(dcache, v, Tlb(v))
  BY DEF Load
<1>2. v \in Address /\ Data \in SUBSET Address /\ ~kernel /\ dcache.timer < MaxLoads
      /\ UNCHANGED <<memory, icache, coherent, kernel>>
  BY DEF Load, Address
<1>3. Well(dcache', DWays) /\ dcache'.timer = dcache.timer + 1
  BY <1>1, <1>2, AccessWell, Ways DEF CacheBase
<1>4. dcache'.timer <= MaxLoads
  BY <1>2, <1>3, Ways DEF CacheBase, Well, Shaped
<1>5. CacheBase'
  BY <1>2, <1>3, <1>4 DEF CacheBase
<1>6. Double = 1 => Mirrors(dcache', Data, memory)
  BY <1>1, <1>2, AccessMirrors, Ways DEF CacheBase, Mirrored
<1>7. Mirrored'
  BY <1>2, <1>6 DEF Mirrored
<1> QED
  BY <1>5, <1>7

(* The memory that a store leaves behind is typed.                         *)
LEMMA WrittenTyped ==
  ASSUME memory \in [Cell(Address) -> Value], NEW v \in Address, NEW data \in [Place -> Value]
  PROVE  Written(memory, Tlb(v), data) \in [Cell(Address) -> Value]
<1>1. ASSUME NEW w \in Address
      PROVE  (Tlb(w) - BlockAddress(Tlb(w))) \div Double \in Place
  <2> DEFINE p == Tlb(w)
             r == p % BlockSize
  <2>1. /\ p \in Nat /\ BlockAddress(p) \in Nat /\ p = BlockAddress(p) + r
        /\ BlockSize \in Nat \ {0} /\ Double \in Nat \ {0} /\ Places \in Nat
        /\ BlockSize = Places * Double
    BY Translated, BlockOf, Geometry
  <2>2. r \in Nat /\ r < Places * Double
    BY <2>1, DivMod
  <2>3. p - BlockAddress(p) = r
    BY <2>1, <2>2
  <2> HIDE DEF p, r
  <2>4. r \div Double \in Nat /\ r \div Double < Places
    BY <2>1, <2>2, DivMod, Bounded
  <2>5. r \div Double \in Place
    BY <2>1, <2>4, Geometry
  <2> QED
    BY <2>3, <2>5 DEF p
<1>2. \A q \in Cell(Address) : (q - BlockAddress(q)) \div Double \in Place
  BY <1>1 DEF Cell
<1> QED
  BY <1>2 DEF Written

LEMMA StoreStep ==
  ASSUME CacheBase, Mirrored, NEW v \in Data, NEW x \in Value, Store(v, x)
  PROVE  CacheBase' /\ Mirrored'
<1> DEFINE p == Tlb(v)
           b == Line(dcache, v, p)
<1>1. /\ v \in Address /\ Data \in SUBSET Address /\ Code \in SUBSET Address
      /\ ~kernel /\ dcache.timer < MaxLoads /\ UNCHANGED <<coherent, kernel>>
      /\ icache' = IF coherent THEN Snooped(icache, v, p) ELSE icache
  BY DEF Store, Address
<1>2. PICK r : /\ Put(dcache, dcache', DWays, v, b, r)
               /\ dcache'.timer = dcache.timer + 1
               /\ r.valid /\ r.tag = Tag(p) /\ r.tag \in Tags /\ r.data \in [Place -> Value]
               /\ \A o \in Set(dcache, v) \ {b} :
                    ~(dcache.block[o].valid /\ dcache.block[o].tag = r.tag)
               /\ memory' = Written(memory, p, r.data)
  BY StorePut, Ways DEF CacheBase
<1> HIDE DEF b
<1>3. memory' \in [Cell(Address) -> Value]
  BY <1>1, <1>2, WrittenTyped DEF CacheBase
<1>4. Well(dcache', DWays)
  BY <1>1, <1>2, PutWell, Ways DEF CacheBase
<1>5. PICK i, s : coherent => /\ Put(icache, icache', IWays, v, i, s) /\ ~s.valid
                              /\ icache'.timer = icache.timer
  BY <1>1, SnoopPut, Ways DEF CacheBase
<1>6. Well(icache', IWays) /\ icache'.timer = icache.timer
  <2>1. CASE coherent
    BY <1>1, <1>5, <2>1, PutWell, Ways DEF CacheBase
  <2>2. CASE ~coherent
    BY <1>1, <2>2 DEF CacheBase
  <2> QED
    BY <2>1, <2>2
<1>7. dcache'.timer <= MaxLoads
  BY <1>1, <1>2, Ways DEF CacheBase, Well, Shaped
<1>8. CacheBase'
  BY <1>1, <1>3, <1>4, <1>6, <1>7 DEF CacheBase
<1>9. ASSUME Double = 1
      PROVE  Mirrors(dcache', Data, memory') /\ Mirrors(icache', Code, memory')
  <2>1. \A u \in Address : Copy(memory', Tlb(u)) =
          IF BlockAddress(Tlb(u)) = BlockAddress(p) THEN r.data ELSE Copy(memory, Tlb(u))
    BY <1>1, <1>2, <1>9, WrittenWords DEF CacheBase
  <2>2. Mirrors(dcache, Data, memory) /\ Mirrors(icache, Code, memory)
    BY <1>1, <1>9 DEF Mirrored
  <2>3. ASSUME NEW u \in Data, Index(u) = Index(v), Tag(Tlb(u)) = r.tag
        PROVE  r.data = Copy(memory', Tlb(u))
    BY <1>1, <1>2, <1>9, <2>1, <2>3, SameBlock
  <2>4. ASSUME NEW u \in Data, NEW o \in Hits(dcache, u, Tlb(u)) \ {b}
        PROVE  dcache.block[o].data = Copy(memory', Tlb(u))
    <3>1. BlockAddress(Tlb(u)) # BlockAddress(p)
      <4> SUFFICES ASSUME BlockAddress(Tlb(u)) = BlockAddress(p) PROVE FALSE
        OBVIOUS
      <4>1. Index(u) = Index(v) /\ Tag(Tlb(u)) = Tag(p)
        BY <1>1, <1>9, SameBlock
      <4>2. o \in Set(dcache, v) /\ dcache.block[o].valid /\ dcache.block[o].tag = Tag(p)
        BY <4>1, SameSet DEF Hits
      <4> QED
        BY <1>2, <4>2
    <3> QED
      BY <1>1, <2>1, <2>2, <3>1 DEF Mirrors
  <2>5. Mirrors(dcache', Data, memory')
    BY <1>1, <1>2, <2>3, <2>4, PutMirrors, Ways DEF CacheBase
  <2>6. ASSUME NEW u \in Code, NEW o \in Hits(icache, u, Tlb(u))
        PROVE  icache.block[o].data = Copy(memory', Tlb(u))
    BY <1>1, <2>1, <2>2, CodeOrData DEF Mirrors
  <2>7. Mirrors(icache', Code, memory')
    <3>1. CASE coherent
      BY <1>1, <1>5, <2>6, <3>1, PutMirrors, Ways DEF CacheBase
    <3>2. CASE ~coherent
      BY <1>1, <2>6, <3>2 DEF Mirrors
    <3> QED
      BY <3>1, <3>2
  <2> QED
    BY <2>5, <2>7
<1>10. Mirrored'
  BY <1>9 DEF Mirrored
<1> QED
  BY <1>8, <1>10

LEMMA KernelSteps ==
  ASSUME CacheBase, Mirrored, Trap \/ KernelStore \/ Resume
  PROVE  CacheBase' /\ Mirrored'
<1>1. CASE Trap
  BY <1>1 DEF Trap, CacheBase, Mirrored
<1>2. CASE KernelStore
  <2>1. memory' \in [Cell(Address) -> Value]
    BY <1>2 DEF KernelStore, CacheBase
  <2> QED
    BY <1>2, <2>1 DEF KernelStore, CacheBase, Mirrored
<1>3. CASE Resume
  <2>1. Code \in SUBSET Address /\ Data \in SUBSET Address
    BY DEF Address
  <2>2. /\ Well(dcache', DWays) /\ dcache'.timer = 0 /\ Mirrors(dcache', Data, memory)
        /\ Well(icache', IWays) /\ icache'.timer = 0 /\ Mirrors(icache', Code, memory)
    BY <1>3, <2>1, EmptyWell, Ways DEF Resume, CacheBase, Well
  <2>3. dcache'.timer <= MaxLoads /\ icache'.timer <= MaxFetches
    BY <2>2, Ways
  <2>4. memory' = memory /\ coherent' = coherent /\ kernel' = FALSE
    BY <1>3 DEF Resume
  <2> QED
    BY <2>2, <2>3, <2>4 DEF CacheBase, Mirrored
<1> QED
  BY <1>1, <1>2, <1>3

LEMMA CacheInvariant == CacheSpec => [](CacheBase /\ Mirrored)
<1>1. CacheBase /\ Mirrored /\ [CacheNext]_cacheVars => CacheBase' /\ Mirrored'
  <2> SUFFICES ASSUME CacheBase, Mirrored, [CacheNext]_cacheVars
               PROVE  CacheBase' /\ Mirrored'
    OBVIOUS
  <2>1. CASE UNCHANGED cacheVars
    BY <2>1 DEF cacheVars, CacheBase, Mirrored
  <2> QED
    BY <2>1, FetchStep, LoadStep, StoreStep, KernelSteps DEF CacheNext
<1> QED
  BY <1>1, InitCached, PTL DEF CacheSpec

(* Whatever the geometry, memory and caches hold values, a block is of a   *)
(* word that exists and its timestamp is not ahead of the timer.           *)
THEOREM CacheTypeCorrect == CacheSpec => []CacheTypeOK
<1>1. CacheBase => CacheTypeOK
  <2> SUFFICES ASSUME CacheBase PROVE CacheTypeOK
    OBVIOUS
  <2>1. DOMAIN memory = Cell(Address) /\ memory \in [Cell(Code \cup Data) -> Value]
    BY DEF CacheBase, Address
  <2>2. dcache.timer \in 0..MaxLoads /\ icache.timer \in 0..MaxFetches
    BY Ways DEF CacheBase, Well, Shaped
  <2>3. \A c \in {dcache, icache} : Sound(c)
    BY DEF CacheBase, Well
  <2>4. \A c \in {dcache, icache} :
          \A b \in DOMAIN c.block : BlockOK(c.block[b]) /\ c.block[b].stamp <= c.timer
    BY <2>1, <2>3 DEF Sound, BlockOK, Tags
  <2> QED
    BY <2>1, <2>2, <2>4 DEF CacheBase, CacheTypeOK
<1> QED
  BY <1>1, CacheInvariant, PTL

(* No address is cached twice, however many ways a cache has.              *)
THEOREM NeverCachedTwice == CacheSpec => []CachedOnce
<1>1. CacheBase => CachedOnce
  BY DEF CacheBase, Well, Once, CachedOnce, Address
<1> QED
  BY <1>1, CacheInvariant, PTL

(* On a 64-bit target the caches cannot be told from memory: every load    *)
(* and fetch of the program returns what memory holds, for every geometry. *)
(* (On a 32-bit target this is wrong: the index is virtual, in half words.)*)
THEOREM CachesTransparent ==
  ASSUME Double = 1
  PROVE  CacheSpec => []ReadsMemory
<1>1. CacheBase /\ Mirrored => ReadsMemory
  <2> SUFFICES ASSUME CacheBase, Mirrored, ~kernel PROVE ReadsMemory
    BY DEF ReadsMemory
  <2>1. Mirrors(dcache, Data, memory) /\ Mirrors(icache, Code, memory)
    BY DEF Mirrored
  <2>2. ASSUME NEW ways \in Nat \ {0}, NEW c, Well(c, ways), NEW V \in SUBSET Address,
               Mirrors(c, V, memory), NEW v \in V
        PROVE  Loaded(c, v) = memory[Tlb(v)]
    <3>1. Loaded(c, v) = Copy(memory, Tlb(v))[Offset(v)]
      BY <2>2, AccessCopies DEF Loaded, CacheBase
    <3>2. /\ Offset(v) \in Place /\ Offset(v) * Double = Offset(v)
          /\ Tlb(v) = BlockAddress(Tlb(v)) + Offset(v)
      BY <2>2, IndexPhysical, Geometry
    <3> QED
      BY <3>1, <3>2 DEF Copy
  <2>3. Code \in SUBSET Address /\ Data \in SUBSET Address
    BY DEF Address
  <2>4. \A v \in Data : Loaded(dcache, v) = memory[Tlb(v)]
    BY <2>1, <2>2, <2>3, Ways DEF CacheBase
  <2>5. \A v \in Code : Loaded(icache, v) = memory[Tlb(v)]
    BY <2>1, <2>2, <2>3, Ways DEF CacheBase
  <2> QED
    BY <2>4, <2>5 DEF ReadsMemory
<1> QED
  BY <1>1, CacheInvariant, PTL

(* A store on a 64-bit target changes the word it is for and no other,     *)
(* though the cache writes the whole block back.                           *)
THEOREM StoreChangesOneWord ==
  ASSUME Double = 1
  PROVE  CacheSpec => StoresOneWord
<1>1. ASSUME CacheBase, Mirrored, NEW v \in Data, NEW x \in Value, Store(v, x)
      PROVE  memory' = [memory EXCEPT ![Tlb(v)] = x]
  <2> DEFINE p == Tlb(v)
             b == Line(dcache, v, p)
  <2>1. v \in Address /\ Data \in SUBSET Address /\ ~kernel
    BY <1>1 DEF Address, Store
  <2>2. Accessed(dcache, v, p).block[b].data = Copy(memory, p)
    BY <1>1, <2>1, AccessCopies, Ways DEF CacheBase, Mirrored
  <2>3. memory' = Written(memory, p, [Copy(memory, p) EXCEPT ![Offset(v)] = x])
    BY <1>1, <2>2, StorePut, Ways DEF CacheBase
  <2>4. /\ p \in Nat /\ p \in DOMAIN memory /\ memory \in [Cell(Address) -> Value]
        /\ Offset(v) \in Place /\ p = BlockAddress(p) + Offset(v) /\ BlockAddress(p) \in Nat
    BY <1>1, <2>1, Translated, IndexPhysical, BlockOf DEF CacheBase
  <2> HIDE DEF p, b
  <2>5. ASSUME NEW q \in DOMAIN memory
        PROVE  memory'[q] = IF q = p THEN x ELSE memory[q]
    <3> DEFINE o == q % BlockSize
    <3>1. /\ q \in Nat /\ BlockAddress(q) \in Nat /\ q = BlockAddress(q) + o
          /\ o \in Nat /\ o < BlockSize /\ Place = 0..(BlockSize - 1)
      <4>1. q \in Nat
        BY <2>4, Translated DEF Cell
      <4>2. BlockSize \in Nat \ {0} /\ Place = 0..(BlockSize - 1)
        BY Geometry DEF Place
      <4> QED
        BY <4>1, <4>2, BlockOf, DivMod
    <3> HIDE DEF o
    <3>2. (q - BlockAddress(q)) \div Double = o /\ o * Double = o /\ o \in Place
      <4>1. q - BlockAddress(q) = o
        BY <3>1
      <4>2. o \div Double = o /\ o * Double = o
        BY <3>1
      <4>3. o \in Place
        BY <3>1, Geometry
      <4> QED
        BY <4>1, <4>2, <4>3
    <3>3. memory'[q] = IF BlockAddress(q) = BlockAddress(p)
                       THEN [Copy(memory, p) EXCEPT ![Offset(v)] = x][o] ELSE memory[q]
      BY <2>3, <3>2 DEF Written
    <3>4. Copy(memory, p)[o] = memory[BlockAddress(p) + o]
      BY <3>2 DEF Copy
    <3> QED
      BY <2>4, <3>1, <3>2, <3>3, <3>4 DEF Copy
  <2>6. memory' = [q \in DOMAIN memory |-> memory'[q]]
    BY <2>3 DEF Written
  <2>7. memory' = [memory EXCEPT ![p] = x]
    BY <2>4, <2>5, <2>6
  <2> QED
    BY <2>7 DEF p
<1> DEFINE Only == \A v \in Data, d \in Value :
                     Store(v, d) => memory' = [memory EXCEPT ![Tlb(v)] = d]
<1>2. CacheBase /\ Mirrored /\ [CacheNext]_cacheVars => [Only]_cacheVars
  BY <1>1
<1> HIDE DEF Only
<1>3. CacheSpec => [][Only]_cacheVars
  BY <1>2, CacheInvariant, PTL DEF CacheSpec
<1> QED
  BY <1>3 DEF StoresOneWord, Only
=============================================================================
