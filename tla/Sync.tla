-------------------------------- MODULE Sync --------------------------------
(***************************************************************************)
(* The system calls of selfie.c that create, stop and synchronise machine  *)
(* contexts: fork, exit, sem_init, sem_wait, sem_post, lock_init,          *)
(* lock_acquire and lock_release, each with the lockdep calls it makes.    *)
(*                                                                         *)
(* A step is one call handled to its end: the emulator handles exceptions  *)
(* one at a time.  Which context runs next is left open here (any context  *)
(* that is ready); Kernel adds the schedulers.                             *)
(*                                                                         *)
(* The programs are any programs that initialise a lock before using it,   *)
(* release a lock only after their own lock_acquire on it returned and,    *)
(* unless Reentrant, do not acquire a lock again before releasing it.      *)
(* lock_acquire returns nothing, so a program cannot tell a refused        *)
(* acquisition from a granted one: entered is what the program sees.       *)
(***************************************************************************)
EXTENDS Lockdep

CONSTANTS
  LockAddr, SemAddr,  \* addresses programs use as locks and as semaphores
  Boot,               \* contexts created before the machine starts
  MaxSem,             \* bound: semaphores ever created (512 in the code, unchecked)
  MaxWaiters,         \* cells of a waiters array (64 in the code)
  InitValues,         \* initial semaphore values programs ask for
  MaxValue,           \* bound: largest semaphore value explored
  Reentrant           \* whether programs acquire a lock they are already in

ASSUME SyncAssumption ==
  /\ LockAddr \cup SemAddr = Addr
  /\ LockAddr \cap SemAddr = {}
  /\ "user" \notin Addr
  /\ "exit" \notin Addr
  /\ Boot \in 1..MaxCtx
  /\ MaxSem \in Nat
  /\ MaxWaiters \in Nat
  /\ MaxCtx <= MaxWaiters     \* so a waiters array is never full
  /\ InitValues \subseteq Nat
  /\ MaxValue \in Nat
  /\ Reentrant \in BOOLEAN

Sem   == 0 .. (MaxSem - 1)
Unset == -1                   \* a word of program memory no *_init has written
NoOne == -1                   \* lock owner when there is none

Ready == 0
Asleep == 1
Exited == 2

VARIABLES
  used,       \* used_contexts, head first
  nextCtx,    \* id_ctxt_counter
  blocked,    \* context -> 0 ready, 1 blocked, 2 exited
  pc,         \* "user", or the call the context re-executes: "exit" or the
              \* address its sem_wait or lock_acquire blocked on
  mem,        \* context -> address -> the semaphore id stored there
  nextSem,    \* next_sem_id
  value,      \* semaphore -> value
  waiters,    \* semaphore -> queue of context ids
  owner,      \* the lock built on a semaphore -> owner
  entered,    \* history: context -> locks its program was let into
  granted,    \* history: context -> lock semaphores it took and not released
  denied      \* history: lockdep refused some acquisition

contextVars == <<used, nextCtx, blocked, pc>>
objectVars  == <<mem, nextSem, value, waiters, owner>>
historyVars == <<entered, granted, denied>>
syncVars    == <<contextVars, objectVars, historyVars, lockdepVars>>

Live == ToSet(used)

SyncInit ==
  /\ LockdepInit
  /\ used = [i \in 1..Boot |-> Boot - i]
  /\ nextCtx = Boot
  /\ blocked = [c \in Ctx |-> Ready]
  /\ pc = [c \in Ctx |-> "user"]
  /\ mem = [c \in Ctx |-> [a \in Addr |-> Unset]]
  /\ nextSem = 0
  /\ value = [s \in Sem |-> 0]
  /\ waiters = [s \in Sem |-> <<>>]
  /\ owner = [s \in Sem |-> NoOne]
  /\ entered = [c \in Ctx |-> {}]
  /\ granted = [c \in Ctx |-> {}]
  /\ denied = FALSE

-----------------------------------------------------------------------------
(* create_context: the next id, the head of the list, and memory copied    *)
(* from the parent; both contexts continue after the call.                 *)
Fork(c) ==
  /\ pc[c] = "user"
  /\ nextCtx < MaxCtx
  /\ used' = <<nextCtx>> \o used
  /\ nextCtx' = nextCtx + 1
  /\ mem' = [mem EXCEPT ![nextCtx] = mem[c]]
  /\ LockdepFork(c, nextCtx)
  /\ UNCHANGED <<blocked, pc, nextSem, value, waiters, owner, historyVars>>

(* Mutant of Exit: the call returns, so a stopped context could go on.     *)
ExitReturns(c) ==
  /\ pc[c] = "user"
  /\ blocked' = [blocked EXCEPT ![c] = Exited]
  /\ UNCHANGED <<used, nextCtx, pc, objectVars, historyVars, lockdepVars>>

(* exit leaves the program counter at the call and releases nothing.       *)
Exit(c) ==
  /\ pc[c] \in {"user", "exit"}
  /\ blocked' = [blocked EXCEPT ![c] = Exited]
  /\ pc' = [pc EXCEPT ![c] = "exit"]
  /\ UNCHANGED <<used, nextCtx, objectVars, historyVars, lockdepVars>>

(* create_semaphore, and the id stored in the caller's memory.             *)
Create(c, a, v) ==
  /\ pc[c] = "user"
  /\ nextSem < MaxSem
  /\ nextSem' = nextSem + 1
  /\ mem' = [mem EXCEPT ![c][a] = nextSem]
  /\ value' = [value EXCEPT ![nextSem] = v]
  /\ waiters' = [waiters EXCEPT ![nextSem] = <<>>]
  /\ UNCHANGED <<contextVars, historyVars, lockdepVars>>

SemInit(c, a) == \E v \in InitValues : Create(c, a, v) /\ UNCHANGED owner

LockInit(c, a) ==
  /\ a \notin entered[c]
  /\ Create(c, a, 1)
  /\ owner' = [owner EXCEPT ![nextSem] = NoOne]

-----------------------------------------------------------------------------
(* A context that was blocked resumes at the very call that blocked it.    *)
AtCall(c, a) == pc[c] \in {"user", a} /\ mem[c][a] # Unset

Return(c) == pc' = [pc EXCEPT ![c] = "user"]

(* Block: set_blocked, and the id appended while the array has room.       *)
Sleep(c, a, s) ==
  /\ blocked' = [blocked EXCEPT ![c] = Asleep]
  /\ pc' = [pc EXCEPT ![c] = a]
  /\ waiters' = IF Len(waiters[s]) < MaxWaiters
                  THEN [waiters EXCEPT ![s] = Append(@, c)]
                  ELSE waiters

(* Mutants of Wake: the waiter woken stays in the queue; nobody is woken.  *)
WakeKeeps(s) ==
  /\ blocked' = IF waiters[s] # <<>> THEN [blocked EXCEPT ![Head(waiters[s])] = Ready]
                                     ELSE blocked
  /\ UNCHANGED waiters

WakeNobody(s) == s \in Sem /\ UNCHANGED <<waiters, blocked>>

(* The first waiter leaves the queue and is made ready if it still exists. *)
Wake(s) ==
  \/ /\ waiters[s] # <<>>
     /\ waiters' = [waiters EXCEPT ![s] = Tail(@)]
     /\ blocked' = IF Head(waiters[s]) \in Live
                     THEN [blocked EXCEPT ![Head(waiters[s])] = Ready]
                     ELSE blocked
  \/ waiters[s] = <<>> /\ UNCHANGED <<waiters, blocked>>

(* The call returns although nothing was acquired.                         *)
Refuse(c, a) ==
  /\ LockdepDeny(c, a)
  /\ denied' = TRUE
  /\ Return(c)
  /\ UNCHANGED <<used, nextCtx, blocked, objectVars, granted>>

SemWait(c, a) ==
  /\ AtCall(c, a)
  /\ \/ Refuse(c, a) /\ UNCHANGED entered
     \/ LET s == mem[c][a] IN
        /\ LockdepAcquire(c, a)
        /\ \/ /\ value[s] > 0
              /\ value' = [value EXCEPT ![s] = @ - 1]
              /\ Return(c)
              /\ UNCHANGED <<blocked, waiters>>
           \/ value[s] = 0 /\ Sleep(c, a, s) /\ UNCHANGED value
        /\ UNCHANGED <<used, nextCtx, mem, nextSem, owner, historyVars>>

SemPost(c, a) ==
  /\ pc[c] = "user" /\ mem[c][a] # Unset
  /\ LET s == mem[c][a] IN
     /\ value[s] < MaxValue
     /\ value' = [value EXCEPT ![s] = @ + 1]
     /\ Wake(s)
  /\ LockdepRelease(c, a)
  /\ UNCHANGED <<used, nextCtx, pc, mem, nextSem, owner, historyVars>>

(* Mutant of Take: the owner is recorded but the semaphore is left at 1.   *)
TakeLeavesFree(c, a, s) ==
  /\ value[s] > 0
  /\ owner' = [owner EXCEPT ![s] = c]
  /\ entered' = [entered EXCEPT ![c] = @ \cup {a}]
  /\ granted' = [granted EXCEPT ![c] = @ \cup {s}]
  /\ Return(c)
  /\ UNCHANGED <<value, blocked, waiters>>

Take(c, a, s) ==
  /\ value[s] > 0
  /\ value' = [value EXCEPT ![s] = 0]
  /\ owner' = [owner EXCEPT ![s] = c]
  /\ entered' = [entered EXCEPT ![c] = @ \cup {a}]
  /\ granted' = [granted EXCEPT ![c] = @ \cup {s}]
  /\ Return(c)
  /\ UNCHANGED <<blocked, waiters>>

LockAcquire(c, a) ==
  /\ AtCall(c, a)
  /\ pc[c] = "user" => (Reentrant \/ a \notin entered[c])
  /\ \/ Refuse(c, a) /\ entered' = [entered EXCEPT ![c] = @ \cup {a}]
     \/ LET s == mem[c][a] IN
        /\ LockdepAcquire(c, a)
        /\ \/ Take(c, a, s)
           \/ /\ value[s] = 0
              /\ Sleep(c, a, s)
              /\ UNCHANGED <<value, owner, entered, granted>>
        /\ UNCHANGED <<used, nextCtx, mem, nextSem, denied>>

(* The owner field is never consulted; it is handed to the context woken.  *)
LockRelease(c, a) ==
  /\ pc[c] = "user" /\ a \in entered[c]
  /\ LET s == mem[c][a] IN
     /\ value' = [value EXCEPT ![s] = 1]
     /\ Wake(s)
     /\ owner' = IF waiters[s] = <<>>
                   THEN [owner EXCEPT ![s] = NoOne]
                   ELSE IF Head(waiters[s]) \in Live
                          THEN [owner EXCEPT ![s] = Head(waiters[s])]
                          ELSE owner
     /\ granted' = [granted EXCEPT ![c] = @ \ {s}]
  /\ entered' = [entered EXCEPT ![c] = @ \ {a}]
  /\ LockdepRelease(c, a)
  /\ UNCHANGED <<used, nextCtx, pc, mem, nextSem, denied>>

(* The calls that go through lockdep.                                      *)
LockCall(c) ==
  \/ \E a \in SemAddr : SemWait(c, a) \/ SemPost(c, a)
  \/ \E a \in LockAddr : LockAcquire(c, a) \/ LockRelease(c, a)

PlainCall(c) ==
  \/ Fork(c)
  \/ Exit(c)
  \/ \E a \in SemAddr : SemInit(c, a)
  \/ \E a \in LockAddr : LockInit(c, a)

SyncNext ==
  \E c \in Ctx : c \in Live /\ blocked[c] = Ready /\ (PlainCall(c) \/ LockCall(c))

SyncSpec == SyncInit /\ [][SyncNext]_syncVars

-----------------------------------------------------------------------------
SyncTypeOK ==
  /\ LockdepTypeOK
  /\ used \in Seq(Ctx)
  /\ nextCtx \in 0..MaxCtx
  /\ blocked \in [Ctx -> {Ready, Asleep, Exited}]
  /\ pc \in [Ctx -> Addr \cup {"user", "exit"}]
  /\ mem \in [Ctx -> [Addr -> Sem \cup {Unset}]]
  /\ nextSem \in 0..MaxSem
  /\ value \in [Sem -> Nat]
  /\ waiters \in [Sem -> Seq(Ctx)]
  /\ owner \in [Sem -> Ctx \cup {NoOne}]
  /\ entered \in [Ctx -> SUBSET LockAddr]
  /\ granted \in [Ctx -> SUBSET Sem]
  /\ denied \in BOOLEAN

(* The semaphore a context is stopped at: asleep on it, or woken and about *)
(* to retry.                                                               *)
StoppedAt(c, s) == pc[c] \in Addr /\ mem[c][pc[c]] = s
AsleepOn(s)     == {c \in Ctx : blocked[c] = Asleep /\ StoppedAt(c, s)}
WokenFor(s)     == {c \in Ctx : blocked[c] = Ready /\ StoppedAt(c, s)}

(* Every sleeping context waits in exactly one queue, the queue of the     *)
(* semaphore its retried call names, and nobody else is queued: no wakeup  *)
(* can go to a context that is not asleep and no sleeper is forgotten.     *)
QueuesMatchSleepers ==
  /\ \A s \in Sem : /\ ToSet(waiters[s]) = AsleepOn(s)
                    /\ \A i, j \in DOMAIN waiters[s] :
                         waiters[s][i] = waiters[s][j] => i = j
  /\ \A c \in Ctx : blocked[c] = Asleep => \E s \in Sem : StoppedAt(c, s)

(* No lost wakeup: while contexts sleep on a semaphore, each unit of its   *)
(* value is matched by a woken context on its way to take it, even when    *)
(* somebody else takes the unit first.  lockdep could turn a woken context *)
(* away before it looks; it never does, even when its tables overflow.     *)
NoLostWakeup ==
  \A s \in Sem : waiters[s] # <<>> => value[s] <= Cardinality(WokenFor(s))

(* Mutual exclusion, as long as lockdep has not let anybody in without the *)
(* lock: two contexts never hold the same lock, the lock is then taken and *)
(* its owner field names the holder.                                       *)
MutualExclusion ==
  ~denied => \A c \in Ctx : \A s \in granted[c] :
    /\ value[s] = 0
    /\ owner[s] = c
    /\ \A d \in Ctx \ {c} : s \notin granted[d]

(* c sleeps on a lock d holds.                                             *)
WaitsFor(c, d) == \E s \in granted[d] : c \in AsleepOn(s)

(* What lockdep is for: no set of contexts each asleep on a lock that a    *)
(* member of the set holds, as long as it forgot nothing and refused       *)
(* nothing.                                                                *)
NoCircularWait ==
  (~denied /\ ~dropped) =>
    ~\E T \in SUBSET Ctx : T # {} /\ \A c \in T : \E d \in T : WaitsFor(c, d)

(* An exited context stays exited.                                         *)
ExitIsFinal ==
  [][\A c \in Ctx : blocked[c] = Exited => blocked'[c] = Exited]_syncVars

=============================================================================
