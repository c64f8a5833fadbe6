----------------------------- MODULE Collector ------------------------------
(***************************************************************************)
(* The garbage collector of the kernel (selfie.c 10640-11215): malloc of a *)
(* context with gc enabled.  Objects are on the used list or the free list;*)
(* every GC_PERIOD mallocs those that are not reachable move to the free   *)
(* list, from where malloc takes the first of exactly the size asked for.  *)
(*                                                                         *)
(* Addresses count words; 0 stands for every value that is no address of   *)
(* the heap.  The program computes no address out of thin air, and keeps   *)
(* every pointer it will use again on the stack or in its data (11154).    *)
(***************************************************************************)
EXTENDS Blocks, SequencesExt

CONSTANTS
  Root,      \* words of the call stack and the data segment
  MaxHeap,   \* words from the start of the heap to where the stack ever is
  Sizes,     \* sizes the program asks for
  Period     \* GC_PERIOD

ASSUME CollectorAssumption ==
  /\ MaxHeap \in Nat /\ Period \in Nat \ {0}
  /\ Sizes \subseteq Nat \ {0}

VARIABLES
  root,      \* Root -> value
  memory,    \* word of the heap -> value
  brk,       \* words of the heap below the program break
  bump,      \* _bump: what the program takes for brk
  used,      \* used list: objects [at, size], the head first
  free,      \* free list
  marked,    \* objects whose mark bit is set
  period     \* gcs_in_period

collectorVars == <<root, memory, brk, bump, used, free, marked, period>>

CollectorInit ==
  /\ root = [r \in Root |-> 0]
  /\ memory = [w \in 1..MaxHeap |-> 0]
  /\ brk = 0 /\ bump = 0
  /\ used = <<>> /\ free = <<>>
  /\ marked = {} /\ period = 0

-----------------------------------------------------------------------------
(* mark: every object a root points into, and from the words of an object  *)
(* that was not marked before, every object they point into.               *)
(* Mutant of Values: only the first word of an object is looked at.        *)
FirstValues(O) == {memory[o.at] : o \in O}
Values(O) == {memory[w] : w \in WordsOf(O)}

Roots == {root[r] : r \in Root}
Pointed(V) == Targets({v \in V : 1 <= v /\ v <= brk}, ToSet(used))

Marked ==
  LET mark[n \in 0..Len(used)] ==
        IF n = 0 THEN marked \cup Pointed(Roots)
        ELSE LET M == mark[n-1] IN M \cup Pointed(Values(M \ marked))
  IN mark[Len(used)]

(* sweep: marked objects stay on the used list, the others go one by one   *)
(* to the head of the free list.  Mutants: freed objects that stay on the  *)
(* used list; mark bits that stay set.                                     *)
KeptAll(M) == used
Kept(M) ==
  LET kept[i \in 0..Len(used)] ==
        IF i = 0 THEN <<>>
        ELSE IF used[i] \in M THEN Append(kept[i-1], used[i]) ELSE kept[i-1]
  IN kept[Len(used)]
Freed(M) ==
  LET freed[i \in 0..Len(used)] ==
        IF i = 0 THEN free
        ELSE IF used[i] \in M THEN freed[i-1] ELSE <<used[i]>> \o freed[i-1]
  IN freed[Len(used)]
LeftMarked(M) == M
Unmarked(M) == {}

(* gc_collect, when it is due.                                             *)
Due == period >= Period
(* Mutant of Collect: the counter is not reset.                            *)
CollectOnce ==
  [used |-> IF period = Period THEN Kept(Marked) ELSE used,
   free |-> IF period = Period THEN Freed(Marked) ELSE free,
   marked |-> IF period = Period THEN Unmarked(Marked) ELSE marked, period |-> period + 1]
Collect ==
  IF Due THEN [used |-> Kept(Marked), free |-> Freed(Marked),
               marked |-> Unmarked(Marked), period |-> 0]
  ELSE [used |-> used, free |-> free, marked |-> marked, period |-> period + 1]

(* Mutant of Zeroed: reused memory is handed out as it was left.           *)
Dirty(o) == memory
(* zero_object                                                             *)
Zeroed(o) == [w \in DOMAIN memory |-> IF w \in Words(o) THEN 0 ELSE memory[w]]

(* reuse_memory: the first free object of exactly this size.               *)
Fits(F, i, n) == F[i].size = n /\ \A j \in 1..(i-1) : F[j].size # n
Reuse(lists, r, n) ==
  \E i \in DOMAIN lists.free :
    /\ Fits(lists.free, i, n)
    /\ used' = <<lists.free[i]>> \o lists.used
    /\ free' = RemoveAt(lists.free, i)
    /\ memory' = Zeroed(lists.free[i])
    /\ root' = [root EXCEPT ![r] = lists.free[i].at]
    /\ UNCHANGED brk

NoneFits(lists, n) == \A i \in DOMAIN lists.free : lists.free[i].size # n

(* allocate_new_memory: the program break moves up, to below the stack.    *)
Extend(lists, r, n) ==
  /\ NoneFits(lists, n)
  /\ brk + n <= MaxHeap
  /\ brk' = brk + n
  /\ used' = <<[at |-> brk + 1, size |-> n]>> \o lists.used
  /\ free' = lists.free
  /\ root' = [root EXCEPT ![r] = brk + 1]
  /\ UNCHANGED memory

(* malloc returns 0: the new break would not lie below the stack pointer,  *)
(* which may be anywhere above the old one (is_address_between_stack_and_  *)
(* heap).                                                                  *)
Exhausted(lists, r, n) ==
  /\ NoneFits(lists, n)
  /\ used' = lists.used /\ free' = lists.free
  /\ root' = [root EXCEPT ![r] = 0]
  /\ UNCHANGED <<brk, memory>>

(* What the kernel leaves in _bump.  Mutant: what the program asked for,   *)
(* as malloc would without the collector.                                  *)
Uncorrected(n) == bump + n
Corrected(n) == brk'

(* The program calls malloc and puts what it returns in root r.  The call  *)
(* passes on the break it wants, bump + n, and the size is what that is    *)
(* above the real break.                                                   *)
Malloc(r, n) ==
  /\ bump + n > brk
  /\ LET lists == Collect
         size  == bump + n - brk
     IN /\ \/ Reuse(lists, r, size)
           \/ Extend(lists, r, size)
           \/ Exhausted(lists, r, size)
        /\ marked' = lists.marked /\ period' = lists.period
  /\ bump' = Corrected(n)

(* The program stores the address of a word of an object it can reach.     *)
Reachable == Reached(Roots, memory, ToSet(used))
Assign ==
  /\ \E v \in {0} \cup WordsOf(Reachable) :
       \/ \E r \in Root : root' = [root EXCEPT ![r] = v] /\ UNCHANGED memory
       \/ \E w \in WordsOf(Reachable) : memory' = [memory EXCEPT ![w] = v] /\ UNCHANGED root
  /\ UNCHANGED <<brk, bump, used, free, marked, period>>

CollectorNext == Assign \/ \E r \in Root, n \in Sizes : Malloc(r, n)

CollectorSpec == CollectorInit /\ [][CollectorNext]_collectorVars

-----------------------------------------------------------------------------
CollectorTypeOK ==
  /\ root \in [Root -> 0..MaxHeap]
  /\ memory \in [1..MaxHeap -> 0..MaxHeap]
  /\ brk \in 0..MaxHeap /\ bump \in 0..MaxHeap
  /\ \A o \in ToSet(used \o free) : o.size \in Sizes /\ Words(o) \subseteq 1..brk
  /\ marked = {} /\ period \in 0..Period

(* Every word below the program break belongs to one object, which is on   *)
(* one of the lists, once: no memory is handed out twice, none is lost.    *)
HeapTiled ==
  /\ WordsOf(ToSet(used \o free)) = 1..brk
  /\ \A i, j \in DOMAIN (used \o free) :
       i # j => Words((used \o free)[i]) \cap Words((used \o free)[j]) = {}

(* No pointer the program can follow leads to memory that was collected.   *)
NoDangling ==
  \A v \in Roots \cup {memory[w] : w \in WordsOf(Reachable)} : v # 0 => v \in WordsOf(ToSet(used))

(* The kernel never sees the size the program asks for, only a break       *)
(* computed from the program's own _bump, which knows nothing of reused    *)
(* memory: yet the object malloc returns is of the size asked for.         *)
GetsWhatItAsked ==
  [][\A r \in Root, n \in Sizes :
       Malloc(r, n) /\ root'[r] # 0 =>
         \E o \in ToSet(used') : o.at = root'[r] /\ o.size = n]_collectorVars

(* A collection frees what cannot be reached, and only that: cycles of     *)
(* garbage too, and whatever was marked in the collection before.          *)
CollectsGarbage ==
  [][\A o \in ToSet(used) :
       /\ o \notin Reachable /\ Due /\ period' = 0 => o \in ToSet(free') \/ o = Head(used')
       /\ o \in Reachable => o \in ToSet(used')]_collectorVars

(* malloc with garbage collection implements malloc.                       *)
Promise == INSTANCE Heap
  WITH blocks <- Reachable, store <- [w \in WordsOf(Reachable) |-> memory[w]]
ImplementsHeap == Promise!HeapSpec
=============================================================================
