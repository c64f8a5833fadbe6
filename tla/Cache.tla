-------------------------------- MODULE Cache --------------------------------
(***************************************************************************)
(* The L1 caches of capster (selfie.c 9983-10358): an instruction cache    *)
(* and a write-through data cache, indexed by virtual and tagged by        *)
(* physical address, with least-recently-used replacement.  The program    *)
(* reads and writes memory through them, the kernel behind their back;     *)
(* every switch to a context flushes them (restore_context).               *)
(*                                                                         *)
(* The unit of an address is a word of the target; a word of memory takes  *)
(* Double units, 2 when a 64-bit selfie runs a 32-bit binary.  What an     *)
(* invalid block still holds is never read, and not kept.                  *)
(***************************************************************************)
EXTENDS Integers, FiniteSetsExt

CONSTANTS
  Double,       \* sizeof(uint64_t) / WORDSIZE
  BlockSize,    \* cache-block size
  SetSize,      \* cache size / associativity
  PageSize,     \* PAGESIZE
  DWays, IWays, \* associativity of the data and of the instruction cache
  Frames,       \* page -> frame it is mapped to; page 0 is code
  Value,        \* what a word can hold
  Coherency,    \* values of L1_CACHE_COHERENCY to look at
  MaxLoads,     \* bound: accesses to the data cache between two switches
  MaxFetches,   \* bound: accesses to the instruction cache likewise
  MaxDirty      \* bound: words of data other than 0 at a time

Page == DOMAIN Frames

(* The assertions at 1507-1521, and frames that are aligned and disjoint.  *)
(* The words of a block of code are told apart by their place in it.       *)
ASSUME CacheAssumption ==
  /\ Double \in {1, 2}
  /\ \A n \in {BlockSize, SetSize, PageSize, DWays, IWays} : n \in Nat \ {0}
  /\ BlockSize % Double = 0 /\ SetSize % BlockSize = 0 /\ PageSize % SetSize = 0
  /\ 0 \in Page /\ Page \subseteq Nat
  /\ 0..(BlockSize \div Double - 1) \subseteq Value
  /\ \A n \in Page : Frames[n] \in Nat /\ Frames[n] % (Double * PageSize) = 0
  /\ \A m, n \in Page : m # n => Frames[m] # Frames[n]
  /\ Coherency \subseteq BOOLEAN
  /\ MaxLoads \in Nat /\ MaxFetches \in Nat

VARIABLES
  memory,    \* address of a word in physical memory -> value
  dcache,    \* L1_DCACHE: its ways, blocks and timer
  icache,    \* L1_ICACHE
  coherent,  \* L1_CACHE_COHERENCY
  kernel     \* the kernel runs, not the program

cacheVars == <<memory, dcache, icache, coherent, kernel>>

(* Virtual addresses of code and data.                                     *)
Code == 0..(PageSize - 1)
Data == {n * PageSize + o : n \in Page \ {0}, o \in 0..(PageSize - 1)}

(* tlb                                                                     *)
Tlb(v) == (v % PageSize) * Double + Frames[v \div PageSize]

Cell(V) == {Tlb(v) : v \in V}

-----------------------------------------------------------------------------
(* Cache addressing                                                        *)
Tag(a) == a \div SetSize
Index(a) == (a % SetSize) \div BlockSize
BlockAddress(a) == (a \div BlockSize) * BlockSize
Offset(v) == (v - BlockAddress(v)) \div Double

(* Words of the block at address p, their places in it.                    *)
Place == 0..(BlockSize \div Double - 1)
Words(p) == [i \in Place |-> memory[BlockAddress(p) + i * Double]]

Invalid(stamp) == [valid |-> FALSE, tag |-> 0, data |-> <<>>, stamp |-> stamp]

(* Mutant of Empty: the caches keep their contents when they are flushed.  *)
Kept(c) == c
(* flush_cache, and a cache that was just allocated                        *)
Empty(c) == [c EXCEPT !.block = [b \in DOMAIN c.block |-> Invalid(0)], !.timer = 0]

New(ways) ==
  [ways |-> ways, timer |-> 0,
   block |-> [b \in 0..(ways * (SetSize \div BlockSize) - 1) |-> Invalid(0)]]

Set(c, v) == {Index(v) * c.ways + i : i \in 0..(c.ways - 1)}

(* Mutant of Hits: the lookup looks at the first way only.                 *)
HitsFirst(c, v, p) ==
  {b \in {Index(v) * c.ways} : c.block[b].valid /\ c.block[b].tag = Tag(p)}
(* cache_lookup: the block that holds address p, or the one to replace,    *)
(* the first of those with the lowest timestamp.                           *)
Hits(c, v, p) == {b \in Set(c, v) : c.block[b].valid /\ c.block[b].tag = Tag(p)}
Oldest(c, v) ==
  Min({b \in Set(c, v) : \A o \in Set(c, v) : c.block[b].stamp <= c.block[o].stamp})
Line(c, v, p) == IF Hits(c, v, p) # {} THEN Min(Hits(c, v, p)) ELSE Oldest(c, v)

(* Mutant of Filled: a block is made valid without its other words.        *)
Blank(p) == [i \in Place |-> IF i = 0 THEN memory[BlockAddress(p)] ELSE 0]
(* fill_cache_block                                                        *)
Filled(p) == Words(p)

(* Mutant of Accessed: a block that is filled keeps its old tag of 0.      *)
AccessedUntagged(c, v, p) ==
  LET b == Line(c, v, p) IN
  [c EXCEPT !.timer = @ + 1,
            !.block[b] = [valid |-> TRUE, tag |-> @.tag, stamp |-> c.timer,
                          data |-> IF Hits(c, v, p) # {} THEN @.data ELSE Filled(p)]]

(* retrieve_cache_block for an access: on a miss the block is filled, in   *)
(* any case it is the one used last.                                       *)
Accessed(c, v, p) ==
  LET b == Line(c, v, p) IN
  [c EXCEPT !.timer = @ + 1,
            !.block[b] = [valid |-> TRUE, tag |-> Tag(p), stamp |-> c.timer,
                          data |-> IF Hits(c, v, p) # {} THEN @.data ELSE Filled(p)]]

(* What load_from_cache returns.                                           *)
Loaded(c, v) == Accessed(c, v, Tlb(v)).block[Line(c, v, Tlb(v))].data[Offset(v)]

(* The instruction cache after a store: the block that holds the address   *)
(* is invalidated, and on a miss the one that would have been replaced.    *)
Snooped(c, v, p) ==
  [c EXCEPT !.block[Line(c, v, p)] = Invalid(IF Hits(c, v, p) # {} THEN 0 ELSE @.stamp)]

-----------------------------------------------------------------------------
CacheInit ==
  /\ memory = [p \in Cell(Code \cup Data) |-> IF p \in Cell(Code) THEN Offset(p) ELSE 0]
  /\ dcache = New(DWays) /\ icache = New(IWays)
  /\ coherent \in Coherency
  /\ kernel = FALSE

(* fetch: load_cached_instruction_word                                     *)
Fetch ==
  /\ ~kernel /\ icache.timer < MaxFetches
  /\ \E v \in Code : icache' = Accessed(icache, v, Tlb(v))
  /\ UNCHANGED <<memory, dcache, coherent, kernel>>

(* do_load: load_cached_virtual_memory                                     *)
Load ==
  /\ ~kernel /\ dcache.timer < MaxLoads
  /\ \E v \in Data : dcache' = Accessed(dcache, v, Tlb(v))
  /\ UNCHANGED <<memory, icache, coherent, kernel>>

FewDirty(M) == Cardinality({p \in Cell(Data) : M[p] # 0}) <= MaxDirty

(* flush_cache_block: the whole block is written to memory.                *)
Written(M, p, data) ==
  [q \in DOMAIN M |->
     IF BlockAddress(q) = BlockAddress(p) THEN data[(q - BlockAddress(q)) \div Double] ELSE M[q]]

(* do_store: store_cached_virtual_memory                                   *)
Store(v, d) ==
  /\ ~kernel /\ dcache.timer < MaxLoads
  /\ LET p    == Tlb(v)
         c    == Accessed(dcache, v, p)
         b    == Line(dcache, v, p)
         data == [c.block[b].data EXCEPT ![Offset(v)] = d]
     IN /\ dcache' = [c EXCEPT !.block[b].data = data]
        /\ memory' = Written(memory, p, data)
        /\ icache' = IF coherent THEN Snooped(icache, v, p) ELSE icache
  /\ FewDirty(memory')
  /\ UNCHANGED <<coherent, kernel>>

(* An exception, a system call or a timer interrupt.                       *)
Trap ==
  /\ ~kernel /\ kernel' = TRUE
  /\ UNCHANGED <<memory, dcache, icache, coherent>>

(* The kernel writes to the data of the program: store_virtual_memory for  *)
(* read, sem_init, lock_init, fork and the garbage collector.              *)
KernelStore ==
  /\ kernel
  /\ \E p \in Cell(Data), d \in Value : memory' = [memory EXCEPT ![p] = d]
  /\ FewDirty(memory')
  /\ UNCHANGED <<dcache, icache, coherent, kernel>>

(* do_switch                                                               *)
Resume ==
  /\ kernel /\ kernel' = FALSE
  /\ dcache' = Empty(dcache) /\ icache' = Empty(icache)
  /\ UNCHANGED <<memory, coherent>>

CacheNext ==
  \/ Fetch \/ Load \/ (\E v \in Data, d \in Value : Store(v, d))
  \/ Trap \/ KernelStore \/ Resume

CacheSpec == CacheInit /\ [][CacheNext]_cacheVars

-----------------------------------------------------------------------------
BlockOK(b) ==
  b.valid => /\ b.data \in [Place -> Value]
             /\ \E p \in DOMAIN memory : b.tag = Tag(p)

CacheTypeOK ==
  /\ memory \in [Cell(Code \cup Data) -> Value]
  /\ dcache.timer \in 0..MaxLoads /\ icache.timer \in 0..MaxFetches
  /\ \A c \in {dcache, icache} :
       \A b \in DOMAIN c.block : BlockOK(c.block[b]) /\ c.block[b].stamp <= c.timer
  /\ coherent \in Coherency /\ kernel \in BOOLEAN

(* The caches cannot be told from memory: what the program loads or        *)
(* fetches next, from whatever address, is what memory holds there, though *)
(* the kernel stores behind the caches (11687: "semantics of load (double) *)
(* word").                                                                 *)
ReadsMemory ==
  ~kernel =>
    /\ \A v \in Data : Loaded(dcache, v) = memory[Tlb(v)]
    /\ \A v \in Code : Loaded(icache, v) = memory[Tlb(v)]

(* No address is cached twice, so there is no second copy a store misses.  *)
CachedOnce ==
  \A c \in {dcache, icache} : \A v \in Code \cup Data : \A b, o \in Set(c, v) :
    c.block[b].valid /\ c.block[o].valid /\ c.block[b].tag = c.block[o].tag => b = o

(* A store changes its word and no other, though it writes a whole block.  *)
StoresOneWord ==
  [][\A v \in Data, d \in Value :
       Store(v, d) => memory' = [memory EXCEPT ![Tlb(v)] = d]]_cacheVars
=============================================================================
