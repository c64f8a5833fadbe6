-------------------------------- MODULE Heap --------------------------------
(***************************************************************************)
(* What malloc promises a C* program when the garbage collector is on: a   *)
(* block of zeroes that overlaps nothing the program can still reach, and  *)
(* nothing the program can reach ever changes but by its own stores.       *)
(* Garbage is not part of the state: a block is forgotten as soon as no    *)
(* chain of pointers leads to it.                                          *)
(***************************************************************************)
EXTENDS Blocks

CONSTANTS
  Root,      \* words of the call stack and the data segment
  MaxHeap,   \* addresses of the words of the heap are 1..MaxHeap
  Sizes      \* sizes, in words, the program asks for

VARIABLES
  root,      \* Root -> value: 0 or the address of a word of the heap
  blocks,    \* blocks the program can reach
  store      \* word of such a block -> value

heapVars == <<root, blocks, store>>

Block == [at : 1..MaxHeap, size : Sizes]
Update(f, x, v) == [f EXCEPT ![x] = v]
WithZeroes(M, b) ==
  [w \in DOMAIN M \cup Words(b) |-> IF w \in Words(b) THEN 0 ELSE M[w]]

(* The program has roots R and, in the blocks B, the values M: what it     *)
(* still reaches is remembered.                                            *)
Keep(R, M, B) ==
  /\ root' = R
  /\ LET known == Reached({R[r] : r \in Root}, M, B) IN
     /\ blocks' = known
     /\ store' = [w \in WordsOf(known) |-> M[w]]

HeapInit ==
  /\ root = [r \in Root |-> 0]
  /\ blocks = {} /\ store = [w \in {} |-> 0]

(* The program stores an address it can compute in a word it can reach.    *)
Assign(M, B) ==
  \E v \in {0} \cup WordsOf(B) :
    \/ \E r \in Root : Keep(Update(root, r, v), M, B)
    \/ \E w \in DOMAIN M : Keep(root, Update(M, w, v), B)

(* malloc returns a new block of zeroes, or 0.                             *)
Malloc(M, B) ==
  \E r \in Root :
    \/ \E b \in Block :
         /\ Words(b) \subseteq 1..MaxHeap
         /\ Words(b) \cap WordsOf(B) = {}
         /\ Keep(Update(root, r, b.at), WithZeroes(M, b), B \cup {b})
    \/ Keep(Update(root, r, 0), M, B)

HeapNext == Assign(store, blocks) \/ Malloc(store, blocks)
HeapSpec == HeapInit /\ [][HeapNext]_heapVars
=============================================================================
