----------------------------- MODULE Hypervisor -----------------------------
(***************************************************************************)
(* hypster (selfie.c 14309-14337) running as a program on a machine: it    *)
(* hosts guests, and the machine below runs them for it.  The hypervisor   *)
(* keeps a virtual context per guest in its own memory; the machine keeps  *)
(* a cached context of each, found by the address of the virtual one, and  *)
(* copies state between the two on every switch (save_context and          *)
(* restore_context).  Guest pages are mapped twice: by the hypervisor to   *)
(* its own pages, and by the machine, in the cached context, to frames.    *)
(*                                                                         *)
(* Only what a switch copies incrementally is kept twice, the page table.  *)
(* The registers, the program break and the exception are copied whole     *)
(* both ways, so one copy stands for both.                                 *)
(*                                                                         *)
(* The machine runs minmob, the loop of minster and mobster, which goes    *)
(* back to the context that trapped, or mipster with the round robin       *)
(* scheduler, which runs the next context on its list.                     *)
(***************************************************************************)
EXTENDS Naturals, FiniteSets, SequencesExt

CONSTANTS
  Loops,       \* the loops of the machine to look at
  MaxGuest,    \* bound: virtual contexts the hypervisor ever allocates
  MaxPage,     \* highest page of a guest
  MaxFrame,    \* frames of the machine
  MaxHost      \* pages the hypervisor can palloc for its guests

ASSUME HypervisorAssumption ==
  /\ Loops \subseteq {"minmob", "mipster"}
  /\ MaxGuest \in Nat \ {0}
  /\ MaxPage \in Nat \ {0}
  /\ MaxFrame \in Nat
  /\ MaxHost \in Nat
  /\ 2 <= MaxHost /\ 2 <= MaxFrame

Host  == 0                  \* the context of the hypervisor
Guest == 1..MaxGuest        \* addresses of virtual contexts
Page  == 0..MaxPage

VARIABLES
  \* the machine
  loop,      \* the loop it runs, chosen on the command line
  cur,       \* current_context
  cached,    \* used_contexts, the head first; Host is on it
  cpt,       \* guest -> page table of its cached context (0: not mapped)
  frames,    \* frames handed out by palloc
  hpt,       \* the hypervisor's page table: its n-th page for guests -> frame
  \* the hypervisor
  used,      \* used_contexts
  free,      \* free_contexts
  vpt,       \* guest -> page table of its virtual context (0: not mapped)
  lo, hi,    \* guest -> interval [low, high) of pages mapped and not cached yet
  brk,       \* guest -> pages below the program break
  exc,       \* guest -> pending exception and fault
  blocked,   \* guest -> blocked
  hpc,       \* where the hypervisor is
  from,      \* from_context: the guest it handles
  fault,     \* page it is about to map
  rest,      \* pages that fork has still to copy to the child
  to,        \* to_context
  status,    \* "running", "returned", "exited" (out of memory), "multiple"
  recycled   \* history: virtual contexts allocated again after a delete

machineVars == <<loop, cur, cached, cpt, frames, hpt>>
tableVars   == <<vpt, lo, hi, brk>>
listVars    == <<used, free, recycled>>
hostVars    == <<hpc, from, fault, rest, to>>
hyperVars   == <<machineVars, tableVars, listVars, hostVars, exc, blocked, status>>

NoException == [kind |-> "none", page |-> 0]
Empty == [p \in Page |-> 0]

(* hypster starts with one guest: up_load_binary has mapped its first page *)
(* and the last one, which holds its arguments.                            *)
HyperInit ==
  /\ loop \in Loops
  /\ cur = Host /\ cached = <<Host>>
  /\ cpt = [g \in Guest |-> Empty]
  /\ frames = 2 /\ hpt = <<1, 2>>
  /\ used = <<1>> /\ free = <<>> /\ recycled = {}
  /\ vpt = [g \in Guest |-> IF g = 1 THEN [Empty EXCEPT ![0] = 1, ![MaxPage] = 2] ELSE Empty]
  /\ lo = [g \in Guest |-> IF g = 1 THEN <<0, 1>> ELSE <<0, 0>>]
  /\ hi = [g \in Guest |-> IF g = 1 THEN <<MaxPage, MaxPage + 1>> ELSE <<MaxPage, MaxPage>>]
  /\ brk = [g \in Guest |-> 1]
  /\ exc = [g \in Guest |-> NoException]
  /\ blocked = [g \in Guest |-> 0]
  /\ hpc = "switch" /\ from = 1 /\ fault = 0 /\ rest = {} /\ to = 1
  /\ status = "running"

-----------------------------------------------------------------------------
(* Page tables                                                             *)
Within(p, range) == range[1] <= p /\ p < range[2]
ToCopy(g, p) == Within(p, lo[g]) \/ Within(p, hi[g])

(* Frame of a page of the hypervisor; page 0 of it is never mapped.        *)
FrameOf(n) == IF n = 0 THEN 0 ELSE hpt[n]

(* Mutant of Restored: the hypervisor's page is taken for the frame.       *)
RestoredDirect(g) ==
  [p \in Page |-> IF cpt[g][p] = 0 /\ ToCopy(g, p) THEN vpt[g][p] ELSE cpt[g][p]]
(* restore_region for both intervals: map_page leaves a mapped page alone. *)
Restored(g) ==
  [p \in Page |-> IF cpt[g][p] = 0 /\ ToCopy(g, p) THEN FrameOf(vpt[g][p]) ELSE cpt[g][p]]

(* Mutant of Stretch: highest_page forgets that the interval is half open. *)
StretchShort(range, p) ==
  <<IF p < range[1] THEN p ELSE range[1], IF p >= range[2] THEN p ELSE range[2]>>

(* lowest_page and highest_page                                            *)
Stretch(range, p) ==
  <<IF p < range[1] THEN p ELSE range[1], IF p >= range[2] THEN p + 1 ELSE range[2]>>

(* map_page by the hypervisor                                              *)
MapPage(g, p, n) ==
  IF vpt[g][p] # 0 THEN UNCHANGED <<vpt, lo, hi>>
  ELSE /\ vpt' = [vpt EXCEPT ![g][p] = n]
       /\ \/ p < brk[g] /\ lo' = [lo EXCEPT ![g] = Stretch(@, p)] /\ UNCHANGED hi
          \/ p >= brk[g] /\ hi' = [hi EXCEPT ![g] = Stretch(@, p)] /\ UNCHANGED lo

-----------------------------------------------------------------------------
(* Switching.  do_switch of the machine: the cached context is created the *)
(* first time (cache_context) and brought up to date (restore_context).    *)
SwitchTo(c) ==
  /\ cur' = c
  /\ \/ c = Host /\ UNCHANGED <<cached, cpt, lo, hi>>
     \/ /\ c # Host
        /\ cached' = IF c \in ToSet(cached) THEN cached ELSE <<c>> \o cached
        /\ cpt' = [cpt EXCEPT ![c] = Restored(c)]
        /\ lo' = [lo EXCEPT ![c] = <<@[2], @[2]>>]
        /\ hi' = [hi EXCEPT ![c] = <<@[1], @[1]>>]

(* The hypervisor switches to a guest (implement_switch).                  *)
Switch ==
  /\ cur = Host /\ hpc = "switch"
  /\ SwitchTo(to)
  /\ hpc' = "handle" /\ from' = to
  /\ UNCHANGED <<loop, frames, hpt, vpt, brk, listVars, fault, rest, to, exc, blocked, status>>

(* A guest raises exception e (throw_exception): next to another pending   *)
(* one it ends the machine.  Otherwise the guest is saved and the machine  *)
(* switches to its parent, the hypervisor.                                 *)
Throw(g, e) ==
  IF exc[g].kind \notin {"none", e.kind}
  THEN status' = "multiple" /\ UNCHANGED <<exc, cur>>
  ELSE exc' = [exc EXCEPT ![g] = e] /\ cur' = Host /\ UNCHANGED status

(* Exceptions a running guest can raise.  A context that has called exit   *)
(* is still at that call; a timer interrupt waits while another exception  *)
(* is pending; "invalid" is an invalid address or another exception that   *)
(* no handler catches.                                                     *)
Raised(g) ==
  IF blocked[g] = 2 THEN {[kind |-> "call", page |-> 0]}
  ELSE {[kind |-> k, page |-> 0] : k \in {"call", "division", "invalid"}}
       \cup {[kind |-> "fault", page |-> p] : p \in {q \in Page : cpt[g][q] = 0}}
       \cup (IF exc[g].kind = "none" THEN {[kind |-> "timer", page |-> 0]} ELSE {})

Trap ==
  /\ cur # Host
  /\ \E e \in Raised(cur) : Throw(cur, e)
  /\ UNCHANGED <<loop, cached, cpt, frames, hpt, tableVars, listVars, hostVars, blocked>>

-----------------------------------------------------------------------------
(* The machine has handled an exception of the hypervisor itself: minmob   *)
(* goes back to it, mipster takes the next context on its list, the head,  *)
(* for Host was the first context and is the last of the list.             *)
Resume ==
  \/ loop = "minmob" /\ SwitchTo(Host)
  \/ loop = "mipster" /\ SwitchTo(Head(cached))

(* A timer interrupt, a call or a page fault of the hypervisor: the last   *)
(* takes a frame for something other than its guests' pages.               *)
Interrupt ==
  /\ cur = Host
  /\ frames' \in {frames, frames + 1} /\ frames' <= MaxFrame
  /\ Resume
  /\ UNCHANGED <<loop, hpt, vpt, brk, listVars, hostVars, exc, blocked, status>>

-----------------------------------------------------------------------------
(* The hypervisor handles the exception of from_context.                   *)
At(where) == cur = Host /\ hpc = where
Cleared == exc' = [exc EXCEPT ![from] = NoException]

(* Where a context is linked on the list.                                  *)
Slot(g) == CHOOSE j \in DOMAIN used : used[j] = g

(* Mutant of Following: the head of the list is always next.               *)
FollowingHead(g) == Head(used)
(* The next on the list, or its head again.                                *)
Following(g) == IF Slot(g) = Len(used) THEN Head(used) ELSE used[Slot(g) + 1]
Proceed == hpc' = "switch" /\ to' = Following(from) /\ UNCHANGED <<from, fault, rest>>

(* Mutant of Remaining: delete_context does not unlink the context.        *)
RemainingAll == used
Remaining == RemoveAt(used, Slot(from))

(* handle_exception returned EXIT: the context is deleted, and hypster     *)
(* returns when it was the last.                                           *)
Delete ==
  /\ used' = Remaining
  /\ free' = <<from>> \o free
  /\ \/ Len(used) = 1 /\ status' = "returned" /\ UNCHANGED <<hpc, to>>
     \/ Len(used) > 1 /\ hpc' = "switch" /\ to' = Head(used') /\ UNCHANGED status
  /\ UNCHANGED <<recycled, from, fault, rest>>

(* Mutant of TimerDone: the exception of a timer interrupt stays pending.  *)
TimerKept == exc[from].kind = "timer" /\ Proceed /\ UNCHANGED exc
TimerDone == exc[from].kind = "timer" /\ Proceed /\ Cleared

Handle ==
  /\ At("handle")
  /\ \/ TimerDone /\ UNCHANGED <<listVars, hpt, status>>
     \/ exc[from].kind = "call" /\ Cleared
        /\ hpc' = "call" /\ UNCHANGED <<listVars, hpt, from, fault, rest, to, status>>
     \/ exc[from].kind = "division" /\ Cleared /\ Delete /\ UNCHANGED hpt
     \/ exc[from].kind = "invalid" /\ UNCHANGED exc /\ Delete /\ UNCHANGED hpt
     \/ exc[from].kind = "fault" /\ Cleared
        /\ \/ /\ Len(hpt) < MaxHost       \* pavailable
              /\ hpt' = Append(hpt, 0) /\ fault' = exc[from].page /\ hpc' = "touch"
              /\ UNCHANGED <<listVars, from, rest, to, status>>
           \/ Len(hpt) = MaxHost /\ Delete /\ UNCHANGED hpt
  /\ UNCHANGED <<loop, cur, cached, cpt, frames, tableVars, blocked>>

(* palloc touches the new page, for a guest that faulted or for a child:   *)
(* on mipster the hypervisor faults, and the machine maps the page or ends *)
(* when no frame is left.  minster has given all its frames to the         *)
(* hypervisor's pages before and maps no more.                             *)
Touch ==
  /\ At("touch") \/ At("copytouch")
  /\ Last(hpt) = 0
  /\ \/ /\ frames < MaxFrame
        /\ frames' = frames + 1
        /\ hpt' = [hpt EXCEPT ![Len(hpt)] = frames']
        /\ Resume /\ UNCHANGED status
     \/ /\ frames = MaxFrame /\ status' = "exited"
        /\ UNCHANGED <<cur, cached, cpt, lo, hi, frames, hpt>>
  /\ UNCHANGED <<loop, vpt, brk, listVars, hostVars, exc, blocked>>

(* Mutant of Touched: palloc returns the page without touching it.         *)
Unchecked == TRUE
Touched == Last(hpt) # 0

Map ==
  /\ At("touch") /\ Touched
  /\ MapPage(from, fault, Len(hpt))
  /\ Proceed
  /\ UNCHANGED <<machineVars, brk, listVars, exc, blocked, status>>

-----------------------------------------------------------------------------
(* System calls of a guest, handled by the hypervisor.                     *)
Calling == At("call") /\ blocked[from] # 2
Others == UNCHANGED <<machineVars, exc>>

(* exit is handled like the others: it returns DONOTEXIT.                  *)
ExitCall ==
  /\ At("call")
  /\ blocked' = [blocked EXCEPT ![from] = 2]
  /\ Proceed /\ Others /\ UNCHANGED <<tableVars, listVars, status>>

(* sem_wait or lock_acquire: the context has to wait, or not.              *)
WaitCall ==
  /\ Calling
  /\ blocked' = [blocked EXCEPT ![from] = 1]
  /\ Proceed /\ Others /\ UNCHANGED <<tableVars, listVars, status>>

(* sem_post and lock_release wake a waiter.                                *)
PostCall ==
  /\ Calling
  /\ \E g \in ToSet(used) : blocked[g] = 1 /\ blocked' = [blocked EXCEPT ![g] = 0]
  /\ Proceed /\ Others /\ UNCHANGED <<tableVars, listVars, status>>

(* Any other call that returns, brk among them.                            *)
PlainCall ==
  /\ Calling
  /\ brk' \in {brk, [brk EXCEPT ![from] = @ + 1]} /\ brk'[from] <= MaxPage
  /\ Proceed /\ Others /\ UNCHANGED <<vpt, lo, hi, listVars, blocked, status>>

(* An unknown call                                                         *)
UnknownCall ==
  /\ Calling
  /\ Delete /\ Others /\ UNCHANGED <<tableVars, blocked>>

(* fork (implement_fork): a new context, at the head of the list, gets the *)
(* break, the intervals and the exception of its parent, and then what is  *)
(* mapped of its code, data and heap, and of its stack from the stack      *)
(* pointer on.                                                             *)
Child == IF free # <<>> THEN Head(free) ELSE Len(used) + Len(free) + 1
Mapped == {p \in Page : vpt[from][p] # 0}

ForkCall ==
  /\ Calling /\ Child <= MaxGuest
  /\ vpt' = [vpt EXCEPT ![Child] = Empty]
  /\ lo' = [lo EXCEPT ![Child] = lo[from]] /\ hi' = [hi EXCEPT ![Child] = hi[from]]
  /\ brk' = [brk EXCEPT ![Child] = brk[from]]
  /\ exc' = [exc EXCEPT ![Child] = exc[from]]
  /\ used' = <<Child>> \o used
  /\ free' = IF free # <<>> THEN Tail(free) ELSE free
  /\ recycled' = IF free # <<>> THEN recycled \cup {Child} ELSE recycled
  /\ hpc' = "copy"
  /\ \E sp \in brk[from]..MaxPage : rest' = {p \in Mapped : p < brk[from] \/ p >= sp}
  /\ UNCHANGED <<machineVars, from, fault, to, blocked, status>>

(* A page of the child is palloc'ed, in the order of the pages, or the     *)
(* hypervisor ends because it has none left.                               *)
Copying(p) == At("copy") /\ p \in rest /\ \A q \in rest : p <= q

CopyPalloc(p) ==
  /\ Copying(p)
  /\ \/ /\ Len(hpt) < MaxHost
        /\ hpt' = Append(hpt, 0) /\ fault' = p /\ hpc' = "copytouch"
        /\ UNCHANGED <<from, rest, to, status>>
     \/ /\ Len(hpt) = MaxHost /\ status' = "exited"
        /\ UNCHANGED <<hpt, hostVars>>
  /\ UNCHANGED <<loop, cur, cached, cpt, frames, tableVars, listVars, exc, blocked>>

(* Mutant of Copy: the child shares the page of its parent.                *)
Sharing == vpt[from][fault]
Copy == Len(hpt)

(* map_and_store: the page is mapped, and the words of the parent's copied.*)
CopyPage ==
  /\ At("copytouch") /\ Touched
  /\ MapPage(Head(used), fault, Copy)
  /\ rest' = rest \ {fault} /\ hpc' = "copy"
  /\ UNCHANGED <<machineVars, brk, listVars, from, fault, to, exc, blocked, status>>

(* The child has its pages: fork returns in both.                          *)
Forked ==
  /\ At("copy") /\ rest = {}
  /\ Proceed /\ Others /\ UNCHANGED <<tableVars, listVars, blocked, status>>

-----------------------------------------------------------------------------
HostStep ==
  \/ Switch \/ Handle \/ Touch \/ Map
  \/ ExitCall \/ WaitCall \/ PostCall \/ PlainCall \/ UnknownCall
  \/ ForkCall \/ (\E p \in Page : CopyPalloc(p)) \/ CopyPage \/ Forked
Progress == status = "running" /\ (HostStep \/ Trap)

(* The hypervisor or the machine has ended.                                *)
Ended == status # "running" /\ UNCHANGED hyperVars

HyperNext == Progress \/ (status = "running" /\ Interrupt) \/ Ended

HyperSpec == HyperInit /\ [][HyperNext]_hyperVars

(* The machine goes on while it runs, and an interrupt does not stop the   *)
(* hypervisor from executing instructions.  A guest traps when its time    *)
(* slice is over, at the latest, if no exception was pending when it was   *)
(* resumed; mipster does not ensure that, so nothing is claimed of it.     *)
FairHyperSpec == HyperSpec /\ WF_hyperVars(Progress)

-----------------------------------------------------------------------------
HyperTypeOK ==
  /\ loop \in Loops
  /\ cur \in {Host} \cup Guest /\ cur \in ToSet(cached)
  /\ frames \in 0..MaxFrame /\ Len(hpt) <= MaxHost
  /\ \A g \in Guest : \A p \in Page : cpt[g][p] \in 0..frames /\ vpt[g][p] \in 0..Len(hpt)
  /\ IsInjective(used \o free)
  /\ ToSet(used \o free) = 1..(Len(used) + Len(free))
  /\ status = "running" => to \in ToSet(used)

(* A page the hypervisor has mapped is in the cached page table or in an   *)
(* interval the next switch will copy: no mapping is forgotten (13507,     *)
(* 13525, 13575-13587).                                                    *)
NoMappingForgotten ==
  \A g \in ToSet(used) \ recycled : \A p \in Page :
    vpt[g][p] # 0 => cpt[g][p] # 0 \/ ToCopy(g, p)

(* A guest that runs finds every page its hypervisor has mapped: it never  *)
(* faults on one again, which the hypervisor would do nothing about.       *)
RunsWithAllPages ==
  cur \in ToSet(used) \ recycled => \A p \in Page : vpt[cur][p] # 0 => cpt[cur][p] # 0

(* The cached page table is the composition of the two page tables it      *)
(* shortcuts: the assertion at 13507.                                      *)
CachedTableAgrees ==
  \A g \in ToSet(used) : \A p \in Page : cpt[g][p] # 0 => cpt[g][p] = FrameOf(vpt[g][p])
AgreesUntilReuse ==
  \A g \in ToSet(used) \ recycled : \A p \in Page :
    cpt[g][p] # 0 => cpt[g][p] = FrameOf(vpt[g][p])

(* No frame is mapped for two guests, nor twice for one.                   *)
FramesPrivate ==
  \A g, h \in Guest : \A p, q \in Page :
    cpt[g][p] # 0 /\ cpt[g][p] = cpt[h][q] => <<g, p>> = <<h, q>>

(* Every exception of a guest is handled by its hypervisor before the      *)
(* guest runs again.  On minster and mobster this is so; mipster resumes   *)
(* guests on its own (14190: "switch to parent which is in charge of       *)
(* handling exceptions").                                                  *)
HandledBeforeRun == cur # Host => exc[cur].kind = "none"
HandledOnMinmob == loop = "minmob" => HandledBeforeRun /\ status # "multiple"

(* The round robin of hypster starves no guest, whatever the others do.    *)
EveryGuestRuns ==
  \A g \in Guest :
    (loop = "minmob" /\ g \in ToSet(used)) ~> (cur = g \/ g \notin ToSet(used) \/ status # "running")
=============================================================================
