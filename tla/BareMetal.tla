------------------------------ MODULE BareMetal ------------------------------
(***************************************************************************)
(* The multitasking kernel for RISC-V hardware (src/selfie/machine): the   *)
(* three-level page tables it builds while it boots, its pool of frames    *)
(* and the demand paging of its one process. It is a program of its own,   *)
(* for the programs selfie compiles, and shares no state with selfie.c.    *)
(*                                                                         *)
(* Pages and frames are numbers; an address counts words, W to a page. A   *)
(* table has Entries entries. The lower half of the virtual pages is for   *)
(* the user, the trampoline is the last page.                              *)
(***************************************************************************)
EXTENDS Integers, Sequences

CONSTANTS
    Entries,        \* NUM_PT_ENTRIES_PER_PAGE_TABLE
    Pool,           \* PAGE_POOL_NUM_PAGES
    StackPages,     \* NUM_STACK_PAGES
    ImagePages,     \* frames from _payload_start to _payload_end
    StackEnds,      \* values of initial_stack_start(), as frames: builds of the kernel
    ElfFirst,       \* first and last page the one segment of the init program takes
    ElfLast,
    ElfEnd,         \* address behind its last word
    W,              \* words of a page
    Touched,        \* pages the program may access
    Breaks,         \* addresses it passes to brk
    StackPointers   \* values of its register sp

Top      == Entries * Entries * Entries - 1         \* TRAMPOLINE_VADDR, also STACK_VADDR
UserTop  == (Top + 1) \div 2                        \* USERSPACE_STACK_START
Page(a)  == a \div W
ElfPages == ElfFirst..ElfLast

ASSUME BareMetalAssumption ==
    /\ Entries \in Nat \ {0, 1}
    /\ Pool \in Nat \ {0} /\ StackPages \in Nat \ {0} /\ ImagePages \in Nat \ {0} /\ W \in Nat \ {0}
    /\ UserTop <= Top - StackPages
    /\ \A e \in StackEnds : /\ e \in Nat /\ ImagePages + StackPages < e
                            /\ e + 2 * Pool < Top - StackPages
    /\ ElfFirst \in Nat /\ ElfLast \in Nat
    /\ 0 < ElfFirst /\ ElfFirst <= ElfLast /\ ElfLast < UserTop - 1
    /\ Touched \subseteq 0..Top
    /\ \A a \in Breaks \cup StackPointers \cup {ElfEnd} : a \in 0..(UserTop * W - 1)

VARIABLES
    kernel,   \* kernel_pt, with the frames taken for its tables
    user,     \* page table of the process, with the allocator
    lo, mid,  \* legal_memory_boundaries: lowest and highest page of code, data and heap; of the stack
    brk,      \* program_break
    sp,       \* stack pointer, saved at a trap
    status    \* "runs", or what the kernel panicked on

bareVars == <<kernel, user, lo, mid, brk, sp, status>>

-----------------------------------------------------------------------------
(* Tables. A memory m is a page table and the allocator: m.next is         *)
(* ppn_bump, m.used is used_pages; mids, leaves and pages map an index of  *)
(* that level to a frame; m.ok is FALSE when the pool was empty. The free  *)
(* list is filled only when the process dies, and then the kernel panics.  *)

\* Mutant of Take: used_pages is not counted.
TakeUncounted(m) == [m EXCEPT !.next = @ + 1]
\* kpalloc, from the pool
Take(m) == [m EXCEPT !.next = @ + 1, !.used = @ + 1]

\* create_pt_entry
Enter(table, index, frame) ==
    [i \in DOMAIN table \cup {index} |-> IF i = index THEN frame ELSE table[i]]

\* kmap_page_by_ppn: the memory with a table of this level at index i
WithTable(m, level, i) ==
    IF i \in DOMAIN m[level] THEN m
    ELSE IF m.used >= Pool THEN [m EXCEPT !.ok = FALSE]
    ELSE [Take(m) EXCEPT ![level] = Enter(@, i, m.next)]

\* kmap_page_by_ppn
MapPageByPpn(m, page, frame) ==
    LET withMid  == WithTable(m, "mids", page \div (Entries * Entries))
        withLeaf == WithTable(withMid, "leaves", page \div Entries)
    IN  IF ~ withMid.ok THEN withMid
        ELSE IF ~ withLeaf.ok THEN withLeaf
        ELSE [withLeaf EXCEPT !.pages = Enter(@, page, frame)]

\* kmap_page: the frame of the page is taken before the tables it needs
MapPage(m, page) ==
    IF m.used >= Pool THEN [m EXCEPT !.ok = FALSE]
    ELSE MapPageByPpn(Take(m), page, m.next)

\* a loop that maps the pages of a list of <<page, frame>>
MapAll(m, list) ==
    LET mapped[i \in 0..Len(list)] ==
            IF i = 0 THEN m ELSE MapPageByPpn(mapped[i - 1], list[i][1], list[i][2])
    IN  mapped[Len(list)]

\* kidentity_map_range: from inclusive, to exclusive
IdentityMapRange(m, from, to) ==
    MapAll(m, [i \in 1..(to - from) |-> <<from + i - 1, from + i - 1>>])

\* kmap_kernel_upper_half: trampoline (a page of the image) and kernel stack, downwards
MapUpperHalf(m, stackEnd) ==
    MapAll(MapPageByPpn(m, Top, stackEnd - StackPages - ImagePages),
           [i \in 1..StackPages |-> <<Top - i, stackEnd - i>>])

\* load_elf: the pages of the segment
MapSegment(m) ==
    LET mapped[i \in 0..(ElfLast - ElfFirst + 1)] ==
            IF i = 0 THEN m ELSE MapPage(mapped[i - 1], ElfFirst + i - 1)
    IN  mapped[ElfLast - ElfFirst + 1]

-----------------------------------------------------------------------------
(* Booting. A loop is the function of its rounds; each is over long before *)
(* the last of the rounds allowed here.                                    *)

\* setup_kernel_pt maps the frames of its tables, which may take more tables
MapTables(m, stackEnd) ==
    LET round[i \in 0..Pool] ==
            IF i = 0 THEN [from |-> stackEnd, m |-> m]
            ELSE LET last == round[i - 1]
                 IN  [from |-> last.m.next, m |-> IdentityMapRange(last.m, last.from, last.m.next)]
    IN  round[Pool].m

\* Mutant of PoolRangeEnd: one page less.
PoolRangeShort(old, toAllocate) == old + toAllocate
\* kinit_page_pool: one past the last page a round maps, as the end of the range is excluded, and one more
PoolRangeEnd(old, toAllocate) == old + toAllocate + 1

\* kinit_page_pool: allocated counts the pool's frames that are mapped and free; used_pages starts anew at the end
InitPagePool(m) ==
    LET round[i \in 0..Pool] ==
            IF i = 0 THEN [allocated |-> 0, m |-> m]
            ELSE LET last == round[i - 1]
                     old  == last.m.next
                     left == Pool - last.allocated
                     new  == IdentityMapRange(last.m, old, PoolRangeEnd(old, left))
                 IN  IF left <= 0 THEN last
                     ELSE [allocated |-> last.allocated + left - (new.next - old), m |-> new]
    IN  [round[Pool].m EXCEPT !.used = 0]

Empty == [i \in {} |-> 0]

NoTables(frame) ==
    [mids |-> Empty, leaves |-> Empty, pages |-> Empty, next |-> frame, used |-> 0, ok |-> TRUE]

\* setup_kernel_pt: the kernel's page table when the pool starts, and the finished one
TablesMapped(stackEnd) ==
    LET image == IdentityMapRange(NoTables(stackEnd), stackEnd - StackPages - ImagePages, stackEnd)
    IN  MapTables(MapUpperHalf(image, stackEnd), stackEnd)

KernelTable(stackEnd) == InitPagePool(TablesMapped(stackEnd))

\* kinit_context and load_elf: root table, first page of the stack, which all of the arguments fit
\* (the fixed, short list of bootstrap.c:16), upper half, segment of the program
InitProcess(k, stackEnd) ==
    LET root  == Take([NoTables(k.next) EXCEPT !.used = k.used])
        stack == MapPage(root, UserTop - 1)
    IN  MapSegment(MapUpperHalf(stack, stackEnd))

\* What kinit_page_pool asks for in a comment (PAGE_POOL_NUM_PAGES is large enough for all nodes of
\* the page table), and the same for the process: its tables, segment and first stack page. Else
\* there is nothing to run, as the kernel does not survive its boot.
ASSUME PoolAssumption ==
    \A e \in StackEnds :
        LET k == KernelTable(e)
            p == InitProcess(k, e)
        IN  /\ k.ok /\ p.ok
            /\ p.used <= Pool - (k.next - TablesMapped(e).next - 1)

BareInit ==
    \E stackEnd \in StackEnds :
        /\ kernel = KernelTable(stackEnd)
        /\ user = InitProcess(kernel, stackEnd)
        /\ lo = [lowest |-> ElfFirst, highest |-> ElfLast]
        /\ mid = [lowest |-> UserTop - 1, highest |-> UserTop - 1]
        /\ brk = ElfEnd
        /\ sp = UserTop * W - 1
        /\ status = "runs"

-----------------------------------------------------------------------------
(* What the program does, and the trap handler.                             *)

Within(region, page) == region.lowest <= page /\ page <= region.highest

\* is_legal_heap_growth
IsLegalHeapGrowth(a) == a < brk /\ lo.highest <= Page(a)

\* Mutant of HasStackGrown: the word at the stack pointer is forgotten.
HasStackGrownAbove(a) == sp < a /\ Page(a) <= mid.lowest
\* has_stack_grown
HasStackGrown(a) == sp <= a /\ Page(a) <= mid.lowest

\* kmap_page for a fault, in the address space of the kernel: a new frame is
\* zeroed (kzalloc), which the kernel cannot do if the frame is not mapped there.
\* The process is the last one: signal_oom, which kills it, ends in kfree_context's
\* panic (context.c:115) and does not return to where the regions are set (trap.c:481)
Serve(page, newLo, newMid) ==
    LET m   == MapPage(user, page)
        new == user.next..(m.next - 1)
    IN  /\ user' = m
        /\ \/ /\ new \ DOMAIN kernel.pages # {}
              /\ status' = "kernel trap"
              /\ UNCHANGED <<lo, mid>>
           \/ /\ new \subseteq DOMAIN kernel.pages
              /\ ~ m.ok
              /\ status' = "out of memory"
              /\ UNCHANGED <<lo, mid>>
           \/ /\ new \subseteq DOMAIN kernel.pages
              /\ m.ok
              /\ lo' = newLo
              /\ mid' = newMid
              /\ UNCHANGED status
        /\ UNCHANGED <<kernel, brk, sp>>

Die(reason) == status' = reason /\ UNCHANGED <<kernel, user, lo, mid, brk, sp>>

\* the user may not access pages of the upper half, mapped or not
Faults(a) == Page(a) >= UserTop \/ Page(a) \notin DOMAIN user.pages

\* determine_memory_access_type
InRegion(a) == Within(lo, Page(a)) \/ Within(mid, Page(a))

\* handle_load_or_store_amo_page_fault
Access(a) ==
    /\ status = "runs"
    /\ Faults(a)
    /\ \/ InRegion(a) /\ Serve(Page(a), lo, mid)
       \/ /\ ~ InRegion(a)
          /\ IsLegalHeapGrowth(a)
          /\ Serve(Page(a), [lo EXCEPT !.highest = Page(a)], mid)
       \/ /\ ~ InRegion(a) /\ ~ IsLegalHeapGrowth(a)
          /\ HasStackGrown(a)
          /\ Serve(Page(a), lo, [mid EXCEPT !.lowest = Page(a)])
       \/ /\ ~ InRegion(a) /\ ~ IsLegalHeapGrowth(a) /\ ~ HasStackGrown(a)
          /\ Die("segfault")

\* implement_syscall_brk; a break it refuses changes nothing
Brk(b) ==
    /\ status = "runs"
    /\ brk <= b /\ b < sp
    /\ brk' = b
    /\ UNCHANGED <<kernel, user, lo, mid, sp, status>>

\* the program changes sp
MoveStack(s) ==
    /\ status = "runs"
    /\ sp' = s
    /\ UNCHANGED <<kernel, user, lo, mid, brk, status>>

\* exit, an unknown call, an unhandled trap or a jump into an unmapped page:
\* the only process is killed and the kernel panics
Killed == status = "runs" /\ Die("killed")

\* the machine is off
Stopped == status # "runs" /\ UNCHANGED bareVars

BareNext ==
    \/ \E page \in Touched, i \in 0..(W - 1) : Access(page * W + i)
    \/ \E b \in Breaks : Brk(b)
    \/ \E s \in StackPointers : MoveStack(s)
    \/ Killed
    \/ Stopped

BareSpec == BareInit /\ [][BareNext]_bareVars

-----------------------------------------------------------------------------
(* Properties.                                                              *)

Tables(m) == {m.mids[i] : i \in DOMAIN m.mids} \cup {m.leaves[i] : i \in DOMAIN m.leaves}

UserPages == {page \in DOMAIN user.pages : page < UserTop}

Addresses == {page * W + i : page \in Touched, i \in 0..(W - 1)}

\* what the program may use: its segment and heap, and its stack
Legal(a) == \/ lo.lowest * W <= a /\ a < brk
            \/ sp <= a /\ a < UserTop * W

\* tables the kernel adds for the pool, per build
TablesForPool == [e \in StackEnds |-> KernelTable(e).next - TablesMapped(e).next]

\* Every variable has its type: booting did not run out of frames, the trampoline and the kernel's
\* stack are in both page tables, and the regions of the process start at mapped pages.
BareTypeOK ==
    /\ kernel.ok /\ Tables(kernel) \subseteq Nat
    /\ \A i \in 0..StackPages : user.pages[Top - i] = kernel.pages[Top - i]
    /\ user.used \in 0..Pool /\ user.next = kernel.next + user.used
    /\ UserPages \subseteq Touched \cup ElfPages \cup {UserTop - 1}
    /\ lo.lowest \in UserPages /\ mid.highest \in UserPages
    /\ lo.highest \in UserPages /\ mid.lowest \in UserPages
    /\ brk \in Breaks \cup {ElfEnd} /\ sp \in StackPointers \cup {UserTop * W - 1}
    /\ status \in {"runs", "segfault", "out of memory", "kernel trap", "killed"}

\* The kernel can reach, through its own page table, every table and every page it works on: the
\* rounds that map the tables which mapping tables took, and the frame added to the pool for each
\* table its mapping takes, cover all frames but the last ones of the pool. Only when it takes one
\* of those, at most as many as the pool's tables less one, does it trap itself.
HoleBounded ==
    LET stackEnd == user.pages[Top - 1] + 1
        unmapped == (Tables(kernel) \cup Tables(user) \cup {user.pages[page] : page \in UserPages})
                    \ DOMAIN kernel.pages
    IN  /\ status # "kernel trap" => unmapped = {}
        /\ status = "kernel trap" => user.used > Pool - (TablesForPool[stackEnd] - 1)

\* A program that stays between the start of its segment and its break, or at or above its stack
\* pointer, is never killed for a segmentation fault, however its break and its stack moved and in
\* whatever order it first used the pages.
LegalUseSurvives ==
    [][\A a \in Addresses : Legal(a) /\ Access(a) => status' # "segfault"]_bareVars

=============================================================================
