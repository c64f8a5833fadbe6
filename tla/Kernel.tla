------------------------------- MODULE Kernel -------------------------------
(***************************************************************************)
(* mipster (selfie.c 14175-14307): the loop that runs one machine context  *)
(* until it raises an exception, handles the exception and picks the next  *)
(* context with the scheduler chosen by -scheduler (14900).  The calls are *)
(* those of Sync; every other exception leaves their state alone.          *)
(*                                                                         *)
(* Slot 35 of a context is both held_locks_head and vruntime.  It is       *)
(* modelled as a list and an offset: the slot holds the address of the     *)
(* list (0 when empty) plus vruntime time slices.  Only when the offset is *)
(* 0 does lockdep find a list there; otherwise it follows a bad pointer.   *)
(*                                                                         *)
(* Boot > 1 is the -x option; it never allocates the semaphore and lock    *)
(* tables, so those instances have no Addr.                                *)
(***************************************************************************)
EXTENDS Sync

CONSTANTS
  Schedulers,   \* the schedulers to look at
  MaxRuntime    \* bound: time slices counted by CFS

ASSUME KernelAssumption ==
  /\ Schedulers \subseteq {"rr", "random", "cfs"}
  /\ MaxRuntime \in Nat
  /\ Boot > 1 => Addr = {}

VARIABLES
  scheduler,  \* scheduler_type
  cur,        \* to_context
  status,     \* "running", "returned" and "failed" (mipster returned),
              \* "spinning" (caught in its search loop), "wild" (bad pointer)
  vruntime    \* context -> time slices added to slot 35

kernelVars == <<syncVars, scheduler, cur, status, vruntime>>

KernelInit ==
  /\ SyncInit
  /\ scheduler \in Schedulers
  /\ cur = Head(used)
  /\ status = "running"
  /\ vruntime = [c \in Ctx |-> 0]

-----------------------------------------------------------------------------
(* Schedulers.  u is used_contexts, B the blocked field.                   *)
(* Mutant of Runnable: sleepers run.                                       *)
RunnableAsleep(u, B) == {c \in ToSet(u) : B[c] # Exited}

(* Mutant of AllExited: a sleeper is taken for a finished process.         *)
NoneReady(u, B) == \A c \in ToSet(u) : B[c] # Ready

Runnable(u, B) == {c \in ToSet(u) : B[c] = Ready}
AllExited(u, B) == \A c \in ToSet(u) : B[c] = Exited

Index(u, c) == CHOOSE i \in DOMAIN u : u[i] = c
After(u, c) == u[(Index(u, c) % Len(u)) + 1]

(* Mutant of Hops: the search starts at the head of the list every time.   *)
HopsFromHead(u, c, d) == Index(u, d) - 1

(* How many contexts the round robin passes over before it reaches d.      *)
Hops(u, c, d) == (Index(u, d) - Index(u, c) - 1) % Len(u)

Stay(st) == status' = st /\ UNCHANGED <<cur, vruntime>>

(* Once around without finding a ready context, mipster only looks from    *)
(* the context it started at to the END of the list for one that has not   *)
(* exited; if it sees one it starts the same search again, forever.        *)
RoundRobin(u, B) ==
  \/ \E d \in Runnable(u, B) :
       /\ \A e \in Runnable(u, B) : Hops(u, cur, d) <= Hops(u, cur, e)
       /\ cur' = d
       /\ UNCHANGED <<status, vruntime>>
  \/ /\ Runnable(u, B) = {}
     /\ LET rest == {u[i] : i \in Index(u, After(u, cur)) .. Len(u)} IN
        \/ (\A c \in rest : B[c] = Exited) /\ Stay("returned")
        \/ (\E c \in rest : B[c] # Exited) /\ Stay("spinning")

(* Mutant of NoneRunnable: the head of the list of free contexts runs.     *)
NoneRunnableFree(u, B) ==
  /\ Runnable(u, B) = {}
  /\ \/ AllExited(u, B) /\ Stay("returned")
     \/ ~AllExited(u, B) /\ cur' \in Ctx \ ToSet(u) /\ UNCHANGED status

(* simple_rand picks any of the runnable contexts.  With none, "deadlock,  *)
(* but continue": the head of the list runs although it cannot.            *)
NoneRunnable(u, B) ==
  /\ Runnable(u, B) = {}
  /\ \/ AllExited(u, B) /\ Stay("returned")
     \/ ~AllExited(u, B) /\ cur' = Head(u) /\ UNCHANGED status

Random(u, B) ==
  \/ cur' \in Runnable(u, B) /\ UNCHANGED <<status, vruntime>>
  \/ NoneRunnable(u, B) /\ UNCHANGED vruntime

(* Mutant of Copied: a forked context starts without the time of its parent.*)
CopiedZero == vruntime

(* fork copies slot 35.                                                    *)
Copied == IF nextCtx' = nextCtx THEN vruntime
          ELSE [vruntime EXCEPT ![nextCtx] = vruntime[cur]]

(* c is met before d or has the smaller slot: list addresses are larger    *)
(* than any count of time slices, in no known order among themselves.      *)
Sooner(u, H, V, c, d) ==
  /\ H[c] = <<>>
  /\ \/ H[d] # <<>>
     \/ V[c] < V[d]
     \/ V[c] = V[d] /\ Index(u, c) < Index(u, d)

(* The time slice is charged after the choice and not when mipster returns.*)
Fair(u, B, H, V) ==
  \/ /\ \E d \in Runnable(u, B) :
          /\ \A e \in Runnable(u, B) \ {d} : ~Sooner(u, H, V, e, d)
          /\ cur' = d
     /\ vruntime' = [V EXCEPT ![cur] = @ + 1]
     /\ UNCHANGED status
  \/ /\ Runnable(u, B) = {}
     /\ \/ AllExited(u, B) /\ Stay("returned")
        \/ /\ ~AllExited(u, B)
           /\ cur' = Head(u)
           /\ vruntime' = [V EXCEPT ![cur] = @ + 1]
           /\ UNCHANGED status

Schedule ==
  \/ scheduler = "rr" /\ RoundRobin(used', blocked')
  \/ scheduler = "random" /\ Random(used', blocked')
  \/ scheduler = "cfs" /\ Fair(used', blocked', held', Copied)

-----------------------------------------------------------------------------
(* A timer interrupt, a page fault, or a call that is none of those above. *)
Pause(c) == pc[c] = "user" /\ UNCHANGED syncVars

Dispatch ==
  /\ status = "running"
  /\ vruntime[cur] < MaxRuntime
  /\ \/ Pause(cur)
     \/ PlainCall(cur)
     \/ vruntime[cur] = 0 /\ LockCall(cur)
  /\ Schedule
  /\ UNCHANGED scheduler

(* An unknown call, a division by zero, an uncaught exception or no more   *)
(* memory: mipster returns the exit code of this context.                  *)
Fault ==
  /\ status = "running"
  /\ pc[cur] = "user"
  /\ status' = "failed"
  /\ UNCHANGED <<syncVars, scheduler, cur, vruntime>>

(* lockdep takes a number of time slices for the address of a list.        *)
Stray ==
  /\ status = "running"
  /\ vruntime[cur] > 0
  /\ \E a \in Addr : AtCall(cur, a)
  /\ status' = "wild"
  /\ UNCHANGED <<syncVars, scheduler, cur, vruntime>>

(* mipster has returned or hangs, or the bound on vruntime is reached.     *)
Stopped ==
  /\ status # "running" \/ vruntime[cur] = MaxRuntime
  /\ UNCHANGED kernelVars

KernelNext == Dispatch \/ Fault \/ Stray \/ Stopped

KernelSpec == KernelInit /\ [][KernelNext]_kernelVars

(* mipster is a loop: while it has not returned it goes on.                *)
FairKernelSpec == KernelSpec /\ WF_kernelVars(Dispatch \/ Fault \/ Stray)

-----------------------------------------------------------------------------
KernelTypeOK ==
  /\ SyncTypeOK
  /\ scheduler \in Schedulers
  /\ cur \in Live
  /\ status \in {"running", "returned", "failed", "spinning", "wild"}
  /\ vruntime \in [Ctx -> 0..MaxRuntime]

(* mipster returns success only when every process has run to its exit.    *)
ReturnsWhenAllExited ==
  status = "returned" => \A c \in Live : blocked[c] = Exited

(* The random and the fair scheduler keep that; the round robin does not.  *)
EarlyReturnOnlyRoundRobin == scheduler # "rr" => ReturnsWhenAllExited

(* The round robin implements Sync: in every step it runs one call of a    *)
(* context that is ready, or leaves contexts, locks and semaphores alone.  *)
(* The others fall back on the head of the list when nobody is ready.      *)
RoundRobinIsSync == SyncInit /\ [][scheduler = "rr" => SyncNext]_syncVars

(* No starvation by round robin: a context that is ready is eventually run.*)
ReadyRuns ==
  \A c \in Ctx :
    (scheduler = "rr" /\ c \in Live /\ blocked[c] = Ready) ~> (cur = c \/ status # "running")

(* Once no context is ready although some have not exited, none ever will  *)
(* be: what mipster then runs in vain cannot wake anybody.                 *)
Stuck ==
  /\ \A c \in Live : blocked[c] # Ready
  /\ \E c \in Live : blocked[c] = Asleep
StuckForGood == [][Stuck => Stuck']_kernelVars

(* CFS: no two runnable contexts drift further apart than two time slices. *)
BoundedUnfairness ==
  scheduler = "cfs" => \A c, d \in {e \in Live : blocked[e] = Ready} :
    (held[c] = <<>> /\ held[d] = <<>>) => vruntime[c] <= vruntime[d] + 2

(* The lock checker always finds the list it left in the context.          *)
HeldListIntact == status # "wild"

=============================================================================
