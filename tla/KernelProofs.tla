---------------------------- MODULE KernelProofs ----------------------------
(***************************************************************************)
(* Theorems about the threads of selfie, for any number of contexts, locks *)
(* and semaphores and any size of lockdep's tables.  First those about     *)
(* every run of the system calls (SyncSpec), then, from them, those about  *)
(* mipster and its schedulers (KernelSpec).                                *)
(***************************************************************************)
EXTENDS Kernel, LockdepProofs

-----------------------------------------------------------------------------
(* Type correctness.                                                       *)

LEMMA InitType == SyncInit => SyncTypeOK
<1> SUFFICES ASSUME SyncInit PROVE SyncTypeOK
  OBVIOUS
<1>1. LockdepTypeOK
  <2>1. <<>> \in Seq(Cell) /\ 0 \in 0..(Word - 1)
    BY LockdepAssumption DEF LockdepAssumption
  <2> QED
    BY <2>1 DEF SyncInit, LockdepInit, LockdepTypeOK
<1>2. used \in Seq(Ctx)
  <2>1. \A i \in 1..Boot : Boot - i \in Ctx
    BY SyncAssumption, LockdepAssumption DEF SyncAssumption, LockdepAssumption, Ctx
  <2>2. Boot \in Nat
    BY SyncAssumption, LockdepAssumption DEF SyncAssumption, LockdepAssumption
  <2>3. used \in [1..Boot -> Ctx]
    BY <2>1 DEF SyncInit
  <2> QED
    BY <2>2, <2>3
<1>3. nextCtx \in 0..MaxCtx /\ nextSem \in 0..MaxSem
  BY SyncAssumption, LockdepAssumption
  DEF SyncAssumption, LockdepAssumption, SyncInit
<1>4. <<>> \in Seq(Ctx)
  OBVIOUS
<1> QED
  BY <1>1, <1>2, <1>3, <1>4 DEF SyncInit, SyncTypeOK, Unset, NoOne, Ready, Asleep, Exited

(* The semaphore id a call finds in memory, and the context it may wake.   *)
LEMMA CallType ==
  ASSUME SyncTypeOK, NEW c \in Ctx, NEW a \in Addr, mem[c][a] # Unset
  PROVE  mem[c][a] \in Sem
  BY DEF SyncTypeOK

LEMMA WakeType ==
  ASSUME SyncTypeOK, NEW s \in Sem, Wake(s)
  PROVE  /\ waiters' \in [Sem -> Seq(Ctx)]
         /\ blocked' \in [Ctx -> {Ready, Asleep, Exited}]
<1>1. waiters[s] \in Seq(Ctx)
  BY DEF SyncTypeOK
<1>2. CASE waiters[s] # <<>>
  <2>1. Tail(waiters[s]) \in Seq(Ctx)
    BY <1>1, <1>2
  <2> QED
    BY <1>2, <2>1 DEF Wake, SyncTypeOK
<1>3. CASE waiters[s] = <<>>
  BY <1>3 DEF Wake, SyncTypeOK
<1> QED
  BY <1>2, <1>3

LEMMA SleepType ==
  ASSUME SyncTypeOK, NEW c \in Ctx, NEW a \in Addr, NEW s \in Sem, Sleep(c, a, s)
  PROVE  /\ waiters' \in [Sem -> Seq(Ctx)]
         /\ blocked' \in [Ctx -> {Ready, Asleep, Exited}]
         /\ pc' \in [Ctx -> Addr \cup {"user", "exit"}]
<1>1. waiters[s] \in Seq(Ctx)
  BY DEF SyncTypeOK
<1>2. Append(waiters[s], c) \in Seq(Ctx)
  BY <1>1
<1> QED
  BY <1>2 DEF Sleep, SyncTypeOK

LEMMA ForkStepType ==
  ASSUME SyncTypeOK, NEW c \in Ctx, Fork(c)
  PROVE  SyncTypeOK'
<1>1. nextCtx \in Ctx /\ nextCtx + 1 \in 0..MaxCtx
  BY LockdepAssumption DEF SyncTypeOK, Fork, Ctx, LockdepAssumption
<1>2. <<nextCtx>> \o used \in Seq(Ctx)
  BY <1>1, PushType DEF SyncTypeOK
<1>3. LockdepTypeOK'
  BY ForkType DEF SyncTypeOK, Fork
<1>4. mem' \in [Ctx -> [Addr -> Sem \cup {Unset}]]
  BY DEF SyncTypeOK, Fork
<1> QED
  BY <1>1, <1>2, <1>3, <1>4 DEF SyncTypeOK, Fork, historyVars

LEMMA ExitStepType ==
  ASSUME SyncTypeOK, NEW c \in Ctx, Exit(c)
  PROVE  SyncTypeOK'
  BY DEF SyncTypeOK, LockdepTypeOK, Exit, objectVars, historyVars, lockdepVars

LEMMA CreateType ==
  ASSUME SyncTypeOK, NEW c \in Ctx, NEW a \in Addr, NEW v \in Nat, Create(c, a, v),
         owner' \in [Sem -> Ctx \cup {NoOne}]
  PROVE  SyncTypeOK'
<1>1. nextSem \in Sem /\ nextSem + 1 \in 0..MaxSem
  BY SyncAssumption DEF SyncTypeOK, Create, Sem, SyncAssumption
<1>2. LockdepTypeOK'
  BY DEF SyncTypeOK, LockdepTypeOK, Create, lockdepVars
<1>3. mem' \in [Ctx -> [Addr -> Sem \cup {Unset}]]
  BY <1>1 DEF SyncTypeOK, Create
<1>4. value' \in [Sem -> Nat] /\ waiters' \in [Sem -> Seq(Ctx)]
  <2>1. <<>> \in Seq(Ctx)
    OBVIOUS
  <2> QED
    BY <2>1 DEF SyncTypeOK, Create
<1> QED
  BY <1>1, <1>2, <1>3, <1>4 DEF SyncTypeOK, Create, contextVars, historyVars

LEMMA RefuseType ==
  ASSUME SyncTypeOK, NEW c \in Ctx, NEW a \in Addr, Refuse(c, a),
         entered' \in [Ctx -> SUBSET LockAddr]
  PROVE  SyncTypeOK'
<1>1. LockdepTypeOK'
  BY DenyType DEF SyncTypeOK, Refuse
<1> QED
  BY <1>1 DEF SyncTypeOK, Refuse, Return, objectVars

LEMMA SemWaitType ==
  ASSUME SyncTypeOK, NEW c \in Ctx, NEW a \in SemAddr, SemWait(c, a)
  PROVE  SyncTypeOK'
<1>0. a \in Addr
  BY SyncAssumption DEF SyncAssumption
<1>1. CASE Refuse(c, a) /\ UNCHANGED entered
  BY <1>0, <1>1, RefuseType DEF SyncTypeOK
<1>2. CASE ~(Refuse(c, a) /\ UNCHANGED entered)
  <2> DEFINE s == mem[c][a]
  <2>1. s \in Sem
    BY <1>0, CallType DEF SemWait, AtCall
  <2>2. LockdepTypeOK'
    BY <1>0, <1>2, AcquireType DEF SyncTypeOK, SemWait
  <2>3. /\ value' \in [Sem -> Nat]
        /\ waiters' \in [Sem -> Seq(Ctx)]
        /\ blocked' \in [Ctx -> {Ready, Asleep, Exited}]
        /\ pc' \in [Ctx -> Addr \cup {"user", "exit"}]
    <3>1. CASE /\ value[s] > 0
               /\ value' = [value EXCEPT ![s] = @ - 1]
               /\ Return(c)
               /\ UNCHANGED <<blocked, waiters>>
      BY <2>1, <3>1 DEF SyncTypeOK, Return
    <3>2. CASE Sleep(c, a, s) /\ UNCHANGED value
      BY <1>0, <2>1, <3>2, SleepType DEF SyncTypeOK
    <3> QED
      BY <1>2, <3>1, <3>2 DEF SemWait
  <2> QED
    BY <1>2, <2>2, <2>3 DEF SyncTypeOK, SemWait, historyVars
<1> QED
  BY <1>1, <1>2

LEMMA SemPostType ==
  ASSUME SyncTypeOK, NEW c \in Ctx, NEW a \in SemAddr, SemPost(c, a)
  PROVE  SyncTypeOK'
<1>0. a \in Addr
  BY SyncAssumption DEF SyncAssumption
<1> DEFINE s == mem[c][a]
<1>1. s \in Sem
  BY <1>0, CallType DEF SemPost
<1>2. LockdepTypeOK'
  BY <1>0, ReleaseType DEF SyncTypeOK, SemPost
<1>3. value' \in [Sem -> Nat]
  BY <1>1 DEF SyncTypeOK, SemPost
<1>4. /\ waiters' \in [Sem -> Seq(Ctx)]
      /\ blocked' \in [Ctx -> {Ready, Asleep, Exited}]
  BY <1>1, WakeType DEF SemPost
<1> QED
  BY <1>2, <1>3, <1>4 DEF SyncTypeOK, SemPost, historyVars

LEMMA LockAcquireType ==
  ASSUME SyncTypeOK, NEW c \in Ctx, NEW a \in LockAddr, LockAcquire(c, a)
  PROVE  SyncTypeOK'
<1>0. a \in Addr
  BY SyncAssumption DEF SyncAssumption
<1>1. CASE Refuse(c, a) /\ entered' = [entered EXCEPT ![c] = @ \cup {a}]
  BY <1>0, <1>1, RefuseType DEF SyncTypeOK
<1>2. CASE ~(Refuse(c, a) /\ entered' = [entered EXCEPT ![c] = @ \cup {a}])
  <2> DEFINE s == mem[c][a]
  <2>1. s \in Sem
    BY <1>0, CallType DEF LockAcquire, AtCall
  <2>2. LockdepTypeOK'
    BY <1>0, <1>2, AcquireType DEF SyncTypeOK, LockAcquire
  <2>3. CASE Take(c, a, s)
    BY <1>2, <2>1, <2>2, <2>3 DEF SyncTypeOK, LockAcquire, Take, Return
  <2>4. CASE Sleep(c, a, s) /\ UNCHANGED <<value, owner, entered, granted>>
    <3>1. /\ waiters' \in [Sem -> Seq(Ctx)]
          /\ blocked' \in [Ctx -> {Ready, Asleep, Exited}]
          /\ pc' \in [Ctx -> Addr \cup {"user", "exit"}]
      BY <1>0, <2>1, <2>4, SleepType
    <3> QED
      BY <1>2, <2>2, <2>4, <3>1 DEF SyncTypeOK, LockAcquire
  <2> QED
    BY <1>2, <2>3, <2>4 DEF LockAcquire
<1> QED
  BY <1>1, <1>2

LEMMA LockReleaseType ==
  ASSUME SyncTypeOK, NEW c \in Ctx, NEW a \in LockAddr, LockRelease(c, a), mem[c][a] # Unset
  PROVE  SyncTypeOK'
<1>0. a \in Addr
  BY SyncAssumption DEF SyncAssumption
<1> DEFINE s == mem[c][a]
<1>1. s \in Sem
  BY <1>0, CallType
<1>2. LockdepTypeOK'
  BY <1>0, ReleaseType DEF SyncTypeOK, LockRelease
<1>3. value' \in [Sem -> Nat] /\ granted' \in [Ctx -> SUBSET Sem]
      /\ entered' \in [Ctx -> SUBSET LockAddr]
  BY <1>1 DEF SyncTypeOK, LockRelease
<1>4. /\ waiters' \in [Sem -> Seq(Ctx)]
      /\ blocked' \in [Ctx -> {Ready, Asleep, Exited}]
  BY <1>1, WakeType DEF LockRelease
<1>5. owner' \in [Sem -> Ctx \cup {NoOne}]
  <2>1. waiters[s] # <<>> => Head(waiters[s]) \in Ctx
    BY <1>1 DEF SyncTypeOK
  <2> QED
    BY <1>1, <2>1 DEF SyncTypeOK, LockRelease
<1> QED
  BY <1>2, <1>3, <1>4, <1>5 DEF SyncTypeOK, LockRelease

-----------------------------------------------------------------------------
(* The base invariant.  Types alone are not inductive: lock_release looks  *)
(* up the lock of an entered address, so an entered address must have been *)
(* initialised, which fork preserves only because the child it fills in is *)
(* fresh, which in turn needs the ids in used_contexts to be those given.  *)

LiveIds == Live = 0 .. (nextCtx - 1)

Fresh ==
  \A c \in Ctx : c >= nextCtx =>
    blocked[c] = Ready /\ pc[c] = "user" /\ entered[c] = {} /\ granted[c] = {}

Initialised ==
  \A c \in Ctx : /\ \A a \in entered[c] : mem[c][a] # Unset
                 /\ pc[c] \in Addr => mem[c][pc[c]] # Unset

SyncBase == SyncTypeOK /\ LiveIds /\ Fresh /\ Initialised

(* A call other than fork only touches its own context, except that it may *)
(* make another one ready.                                                 *)
OthersKept(c) ==
  /\ UNCHANGED <<used, nextCtx>>
  /\ \A d \in Ctx \ {c} :
       /\ pc'[d] = pc[d] /\ mem'[d] = mem[d]
       /\ entered'[d] = entered[d] /\ granted'[d] = granted[d]
       /\ blocked'[d] \in {blocked[d], Ready}

(* The calls, by the kind of address they are given.                       *)
ObjectCall(c) ==
  \/ \E a \in SemAddr : SemInit(c, a) \/ SemWait(c, a) \/ SemPost(c, a)
  \/ \E a \in LockAddr : LockInit(c, a) \/ LockAcquire(c, a) \/ LockRelease(c, a)

LEMMA CallKinds ==
  ASSUME NEW c \in Ctx, PlainCall(c) \/ LockCall(c)
  PROVE  Fork(c) \/ Exit(c) \/ ObjectCall(c)
  BY DEF PlainCall, LockCall, ObjectCall

LEMMA WakeFrame ==
  ASSUME SyncTypeOK, NEW s, Wake(s), NEW d \in Ctx
  PROVE  blocked'[d] \in {blocked[d], Ready}
  BY DEF Wake, SyncTypeOK

LEMMA CallFrame ==
  ASSUME SyncTypeOK, NEW c \in Ctx, Exit(c) \/ ObjectCall(c)
  PROVE  OthersKept(c)
<1>1. CASE Exit(c)
  BY <1>1 DEF Exit, OthersKept, SyncTypeOK, objectVars, historyVars
<1>2. ASSUME NEW a \in SemAddr, SemInit(c, a)
      PROVE  OthersKept(c)
  BY <1>2 DEF SemInit, Create, OthersKept, SyncTypeOK, contextVars, historyVars
<1>3. ASSUME NEW a \in LockAddr, LockInit(c, a)
      PROVE  OthersKept(c)
  BY <1>3 DEF LockInit, Create, OthersKept, SyncTypeOK, contextVars, historyVars
<1>4. ASSUME NEW a \in SemAddr, SemWait(c, a)
      PROVE  OthersKept(c)
  BY <1>4 DEF SemWait, Refuse, Return, Sleep, OthersKept, SyncTypeOK, objectVars, historyVars
<1>5. ASSUME NEW a \in SemAddr, SemPost(c, a)
      PROVE  OthersKept(c)
  BY <1>5, WakeFrame DEF SemPost, OthersKept, SyncTypeOK, historyVars
<1>6. ASSUME NEW a \in LockAddr, LockAcquire(c, a)
      PROVE  OthersKept(c)
  BY <1>6 DEF LockAcquire, Refuse, Take, Return, Sleep, OthersKept, SyncTypeOK, objectVars
<1>7. ASSUME NEW a \in LockAddr, LockRelease(c, a)
      PROVE  OthersKept(c)
  BY <1>7, WakeFrame DEF LockRelease, OthersKept, SyncTypeOK
<1> QED
  BY <1>1, <1>2, <1>3, <1>4, <1>5, <1>6, <1>7 DEF ObjectCall

LEMMA CallType2 ==
  ASSUME SyncBase, NEW c \in Ctx, Fork(c) \/ Exit(c) \/ ObjectCall(c)
  PROVE  SyncTypeOK'
<1> USE DEF SyncBase
<1>1. CASE Fork(c)
  BY <1>1, ForkStepType
<1>2. CASE Exit(c)
  BY <1>2, ExitStepType
<1>3. ASSUME NEW a \in SemAddr, SemInit(c, a)
      PROVE  SyncTypeOK'
  BY <1>3, CreateType, SyncAssumption DEF SemInit, SyncAssumption, SyncTypeOK
<1>4. ASSUME NEW a \in LockAddr, LockInit(c, a)
      PROVE  SyncTypeOK'
  BY <1>4, CreateType, SyncAssumption DEF LockInit, SyncAssumption, SyncTypeOK
<1>5. ASSUME NEW a \in SemAddr, SemWait(c, a)
      PROVE  SyncTypeOK'
  BY <1>5, SemWaitType
<1>6. ASSUME NEW a \in SemAddr, SemPost(c, a)
      PROVE  SyncTypeOK'
  BY <1>6, SemPostType
<1>7. ASSUME NEW a \in LockAddr, LockAcquire(c, a)
      PROVE  SyncTypeOK'
  BY <1>7, LockAcquireType
<1>8. ASSUME NEW a \in LockAddr, LockRelease(c, a)
      PROVE  SyncTypeOK'
  BY <1>8, LockReleaseType DEF Initialised, LockRelease
<1> QED
  BY <1>1, <1>2, <1>3, <1>4, <1>5, <1>6, <1>7, <1>8 DEF ObjectCall

LEMMA ConcatRange ==
  ASSUME NEW S, NEW list \in Seq(S), NEW e \in S
  PROVE  ToSet(<<e>> \o list) = {e} \cup ToSet(list)
<1> DEFINE l == <<e>> \o list
<1>1. /\ Len(l) = Len(list) + 1
      /\ l[1] = e
      /\ \A i \in 1..Len(list) : l[i + 1] = list[i]
      /\ DOMAIN l = 1..(Len(list) + 1)
      /\ DOMAIN list = 1..Len(list)
  OBVIOUS
<1>2. ToSet(l) \subseteq {e} \cup ToSet(list)
  <2>1. ASSUME NEW i \in 1..(Len(list) + 1) PROVE l[i] \in {e} \cup ToSet(list)
    <3>1. i = 1 \/ (i - 1 \in 1..Len(list) /\ l[i] = list[i - 1])
      BY <1>1
    <3> QED
      BY <1>1, <3>1 DEF ToSet
  <2> QED
    BY <1>1, <2>1 DEF ToSet
<1>3. {e} \cup ToSet(list) \subseteq ToSet(l)
  <2>1. 1 \in DOMAIN l /\ \A i \in DOMAIN list : i + 1 \in DOMAIN l
    BY <1>1
  <2> QED
    BY <1>1, <2>1 DEF ToSet
<1> QED
  BY <1>2, <1>3

(* The other parts of the base invariant.                                  *)
LEMMA ForkBase ==
  ASSUME SyncBase, NEW c \in Ctx, c \in Live, Fork(c)
  PROVE  LiveIds' /\ Fresh' /\ Initialised'
<1>1. nextCtx \in Ctx /\ nextCtx \in Nat
  BY LockdepAssumption DEF SyncBase, SyncTypeOK, Fork, Ctx, LockdepAssumption
<1>2. LiveIds'
  <2>1. Live' = {nextCtx} \cup Live
    BY <1>1, ConcatRange DEF Fork, SyncBase, SyncTypeOK, Live
  <2> QED
    BY <1>1, <2>1 DEF SyncBase, LiveIds, Fork
<1>3. Fresh'
  BY <1>1 DEF SyncBase, Fresh, Fork, Ctx, historyVars
<1>4. Initialised'
  <2>1. entered[nextCtx] = {} /\ pc[nextCtx] = "user" /\ "user" \notin Addr
    BY <1>1, SyncAssumption DEF SyncBase, Fresh, SyncAssumption
  <2> QED
    BY <1>1, <2>1 DEF SyncBase, SyncTypeOK, Initialised, Fork, historyVars
<1> QED
  BY <1>2, <1>3, <1>4

LEMMA OtherBase ==
  ASSUME SyncBase, NEW c \in Ctx, c \in Live, Exit(c) \/ ObjectCall(c)
  PROVE  LiveIds' /\ Fresh' /\ Initialised'
<1>1. OthersKept(c)
  BY CallFrame DEF SyncBase
<1>2. LiveIds'
  BY <1>1 DEF OthersKept, SyncBase, LiveIds, Live
<1>3. Fresh'
  <2>1. ~(c >= nextCtx)
    BY DEF SyncBase, LiveIds, SyncTypeOK
  <2> QED
    BY <1>1, <2>1 DEF OthersKept, SyncBase, Fresh
<1>4. Initialised'
  <2> SUFFICES /\ \A a \in entered'[c] : mem'[c][a] # Unset
               /\ pc'[c] \in Addr => mem'[c][pc'[c]] # Unset
    BY <1>1 DEF OthersKept, SyncBase, Initialised
  <2> USE SyncAssumption DEF SyncAssumption, SyncBase, SyncTypeOK, Initialised
  <2>1. CASE Exit(c)
    BY <2>1 DEF Exit, objectVars, historyVars
  <2>2. ASSUME NEW a \in Addr, NEW v, Create(c, a, v)
        PROVE  /\ \A b \in entered'[c] : mem'[c][b] # Unset
               /\ pc'[c] \in Addr => mem'[c][pc'[c]] # Unset
    <3>1. nextSem # Unset
      BY DEF Unset
    <3> QED
      BY <2>2, <3>1 DEF Create, contextVars, historyVars
  <2>3. ASSUME NEW a \in SemAddr, SemInit(c, a)
        PROVE  /\ \A b \in entered'[c] : mem'[c][b] # Unset
               /\ pc'[c] \in Addr => mem'[c][pc'[c]] # Unset
    BY <2>2, <2>3 DEF SemInit
  <2>4. ASSUME NEW a \in LockAddr, LockInit(c, a)
        PROVE  /\ \A b \in entered'[c] : mem'[c][b] # Unset
               /\ pc'[c] \in Addr => mem'[c][pc'[c]] # Unset
    BY <2>2, <2>4 DEF LockInit
  <2>5. ASSUME NEW a \in SemAddr, SemWait(c, a)
        PROVE  /\ \A b \in entered'[c] : mem'[c][b] # Unset
               /\ pc'[c] \in Addr => mem'[c][pc'[c]] # Unset
    BY <2>5 DEF SemWait, AtCall, Refuse, Return, Sleep, objectVars, historyVars
  <2>6. ASSUME NEW a \in SemAddr, SemPost(c, a)
        PROVE  /\ \A b \in entered'[c] : mem'[c][b] # Unset
               /\ pc'[c] \in Addr => mem'[c][pc'[c]] # Unset
    BY <2>6 DEF SemPost, historyVars
  <2>7. ASSUME NEW a \in LockAddr, LockAcquire(c, a)
        PROVE  /\ \A b \in entered'[c] : mem'[c][b] # Unset
               /\ pc'[c] \in Addr => mem'[c][pc'[c]] # Unset
    BY <2>7 DEF LockAcquire, AtCall, Refuse, Take, Return, Sleep, objectVars
  <2>8. ASSUME NEW a \in LockAddr, LockRelease(c, a)
        PROVE  /\ \A b \in entered'[c] : mem'[c][b] # Unset
               /\ pc'[c] \in Addr => mem'[c][pc'[c]] # Unset
    BY <2>8 DEF LockRelease
  <2> QED
    BY <2>1, <2>3, <2>4, <2>5, <2>6, <2>7, <2>8 DEF ObjectCall
<1> QED
  BY <1>2, <1>3, <1>4

LEMMA InitBase == SyncInit => SyncBase
<1> SUFFICES ASSUME SyncInit PROVE SyncBase
  OBVIOUS
<1>1. SyncTypeOK
  BY InitType
<1>2. LiveIds
  <2>1. Boot \in Nat
    BY SyncAssumption, LockdepAssumption DEF SyncAssumption, LockdepAssumption
  <2>2. \A n \in 0..(Boot - 1) : Boot - n \in 1..Boot /\ Boot - (Boot - n) = n
    BY <2>1
  <2>3. \A i \in 1..Boot : Boot - i \in 0..(Boot - 1)
    BY <2>1
  <2> QED
    BY <2>2, <2>3 DEF SyncInit, LiveIds, Live, ToSet
<1>3. Fresh /\ Initialised
  BY SyncAssumption DEF SyncInit, Fresh, Initialised, SyncAssumption
<1> QED
  BY <1>1, <1>2, <1>3 DEF SyncBase

LEMMA BaseInvariant == SyncSpec => []SyncBase
<1>1. SyncInit => SyncBase
  BY InitBase
<1>2. SyncBase /\ [SyncNext]_syncVars => SyncBase'
  <2> SUFFICES ASSUME SyncBase, [SyncNext]_syncVars PROVE SyncBase'
    OBVIOUS
  <2>1. CASE SyncNext
    BY <2>1, CallKinds, CallType2, ForkBase, OtherBase DEF SyncNext, SyncBase
  <2>2. CASE UNCHANGED syncVars
    BY <2>2 DEF SyncBase, SyncTypeOK, LockdepTypeOK, LiveIds, Live, Fresh, Initialised,
                syncVars, contextVars, objectVars, historyVars, lockdepVars
  <2> QED
    BY <2>1, <2>2
<1> QED
  BY <1>1, <1>2, PTL DEF SyncSpec

(* No call ever leaves the types: the id a call reads from the memory of   *)
(* its context is one create_semaphore or create_lock gave out, the counts *)
(* stay words, and a queue only names contexts.                            *)
THEOREM SyncTypeCorrect == SyncSpec => []SyncTypeOK
<1>1. SyncBase => SyncTypeOK
  BY DEF SyncBase
<1> QED
  BY <1>1, BaseInvariant, PTL

-----------------------------------------------------------------------------
(* Acyclicity of the dependency graph.                                     *)

LEMMA CallAcyclic ==
  ASSUME SyncTypeOK, GraphAcyclic, NEW c \in Ctx, Fork(c) \/ Exit(c) \/ ObjectCall(c)
  PROVE  GraphAcyclic'
<1>0. LockdepTypeOK /\ SemAddr \subseteq Addr /\ LockAddr \subseteq Addr
  BY SyncAssumption DEF SyncTypeOK, SyncAssumption
<1>1. CASE UNCHANGED graph
  BY <1>1 DEF GraphAcyclic
<1>2. CASE \E a \in Addr : WalkHeld(c, a)
  BY <1>0, <1>2, WalkAcyclic
<1>3. Fork(c) => UNCHANGED graph
  BY DEF Fork, LockdepFork
<1>4. Exit(c) => UNCHANGED graph
  BY DEF Exit, lockdepVars
<1>5. ASSUME NEW a \in SemAddr, SemInit(c, a) \/ SemPost(c, a)
      PROVE  UNCHANGED graph
  BY <1>5 DEF SemInit, Create, SemPost, LockdepRelease, lockdepVars
<1>6. ASSUME NEW a \in LockAddr, LockInit(c, a) \/ LockRelease(c, a)
      PROVE  UNCHANGED graph
  BY <1>6 DEF LockInit, Create, LockRelease, LockdepRelease, lockdepVars
<1>7. ASSUME NEW a \in SemAddr, SemWait(c, a)
      PROVE  WalkHeld(c, a)
  BY <1>7 DEF SemWait, Refuse, LockdepAcquire, LockdepDeny
<1>8. ASSUME NEW a \in LockAddr, LockAcquire(c, a)
      PROVE  WalkHeld(c, a)
  BY <1>8 DEF LockAcquire, Refuse, LockdepAcquire, LockdepDeny
<1> QED
  BY <1>0, <1>1, <1>2, <1>3, <1>4, <1>5, <1>6, <1>7, <1>8 DEF ObjectCall

(* The dependency graph lockdep keeps is acyclic in every reachable state, *)
(* whatever the sizes of the tables, and however forked contexts share and *)
(* rewrite each other's held lists.                                        *)
THEOREM GraphStaysAcyclic == SyncSpec => []GraphAcyclic
<1>1. SyncInit => GraphAcyclic
  BY DEF SyncInit, LockdepInit, GraphAcyclic
<1>2. SyncBase /\ GraphAcyclic /\ [SyncNext]_syncVars => GraphAcyclic'
  <2> SUFFICES ASSUME SyncBase, GraphAcyclic, [SyncNext]_syncVars PROVE GraphAcyclic'
    OBVIOUS
  <2>1. CASE SyncNext
    BY <2>1, CallKinds, CallAcyclic DEF SyncNext, SyncBase
  <2>2. CASE UNCHANGED syncVars
    BY <2>2 DEF GraphAcyclic, syncVars, lockdepVars
  <2> QED
    BY <2>1, <2>2
<1> QED
  BY <1>1, <1>2, BaseInvariant, PTL DEF SyncSpec

-----------------------------------------------------------------------------
(* Semaphore ids: those in memory have been given out, and one id is only  *)
(* ever stored at one address (in as many forked copies as there are).     *)

Known == \A c \in Ctx : \A a \in Addr : mem[c][a] < nextSem

OneAddress ==
  \A c, d \in Ctx : \A a, b \in Addr :
    mem[c][a] # Unset /\ mem[c][a] = mem[d][b] => a = b

Ids == Known /\ OneAddress

LEMMA CreateIds ==
  ASSUME SyncBase, Ids, NEW c \in Ctx, NEW a \in Addr, NEW v, Create(c, a, v)
  PROVE  Ids'
<1> USE DEF SyncBase, SyncTypeOK, Ids, Create
<1>1. /\ nextSem \in Nat /\ nextSem' = nextSem + 1
      /\ \A d \in Ctx : \A b \in Addr : mem[d][b] \in Int /\ mem[d][b] < nextSem
  BY SyncAssumption DEF Known, Sem, Unset, SyncAssumption
<1>2. \A d \in Ctx : \A b \in Addr :
        mem'[d][b] = IF d = c /\ b = a THEN nextSem ELSE mem[d][b]
  OBVIOUS
<1>3. Known'
  BY <1>1, <1>2 DEF Known
<1>4. OneAddress'
  BY <1>1, <1>2 DEF OneAddress
<1> QED
  BY <1>3, <1>4

LEMMA CallIds ==
  ASSUME SyncBase, Ids, NEW c \in Ctx, Fork(c) \/ Exit(c) \/ ObjectCall(c)
  PROVE  Ids'
<1>0. SemAddr \subseteq Addr /\ LockAddr \subseteq Addr
  BY SyncAssumption DEF SyncAssumption
<1>1. CASE Fork(c)
  <2>1. \A d \in Ctx : mem'[d] = IF d = nextCtx THEN mem[c] ELSE mem[d]
    BY <1>1 DEF Fork, SyncBase, SyncTypeOK
  <2>2. nextSem' = nextSem
    BY <1>1 DEF Fork
  <2> QED
    BY <2>1, <2>2 DEF Ids, Known, OneAddress
<1>2. CASE UNCHANGED <<mem, nextSem>>
  BY <1>2 DEF Ids, Known, OneAddress
<1>3. Exit(c) => UNCHANGED <<mem, nextSem>>
  BY DEF Exit, objectVars
<1>4. ASSUME NEW a \in SemAddr, SemInit(c, a)
      PROVE  Ids'
  BY <1>0, <1>4, CreateIds DEF SemInit
<1>5. ASSUME NEW a \in LockAddr, LockInit(c, a)
      PROVE  Ids'
  BY <1>0, <1>5, CreateIds DEF LockInit
<1>6. ASSUME NEW a \in SemAddr, SemWait(c, a) \/ SemPost(c, a)
      PROVE  UNCHANGED <<mem, nextSem>>
  BY <1>6 DEF SemWait, SemPost, Refuse, objectVars
<1>7. ASSUME NEW a \in LockAddr, LockAcquire(c, a) \/ LockRelease(c, a)
      PROVE  UNCHANGED <<mem, nextSem>>
  BY <1>7 DEF LockAcquire, LockRelease, Refuse, objectVars
<1> QED
  BY <1>1, <1>2, <1>3, <1>4, <1>5, <1>6, <1>7 DEF ObjectCall

LEMMA InitIds == SyncInit => Ids
BY DEF SyncInit, Ids, Known, OneAddress, Unset

LEMMA IdsInvariant == SyncSpec => []Ids
<1>1. SyncInit => Ids
  BY InitIds
<1>2. SyncBase /\ Ids /\ [SyncNext]_syncVars => Ids'
  <2> SUFFICES ASSUME SyncBase, Ids, [SyncNext]_syncVars PROVE Ids'
    OBVIOUS
  <2>1. CASE SyncNext
    BY <2>1, CallKinds, CallIds DEF SyncNext
  <2>2. CASE UNCHANGED syncVars
    BY <2>2 DEF Ids, Known, OneAddress, syncVars, objectVars
  <2> QED
    BY <2>1, <2>2
<1> QED
  BY <1>1, <1>2, BaseInvariant, PTL DEF SyncSpec

-----------------------------------------------------------------------------
(* Waiting queues.                                                         *)

Distinct(list) == \A i, j \in DOMAIN list : list[i] = list[j] => i = j

LEMMA TailRange ==
  ASSUME NEW S, NEW list \in Seq(S), list # <<>>, Distinct(list)
  PROVE  /\ Distinct(Tail(list))
         /\ ToSet(Tail(list)) = ToSet(list) \ {Head(list)}
<1>1. /\ DOMAIN list = 1..Len(list) /\ Len(list) \in Nat /\ Len(list) >= 1
      /\ DOMAIN Tail(list) = 1..(Len(list) - 1)
      /\ \A i \in 1..(Len(list) - 1) : Tail(list)[i] = list[i + 1]
      /\ Head(list) = list[1]
  OBVIOUS
<1>2. Distinct(Tail(list))
  BY <1>1 DEF Distinct
<1>3. ToSet(Tail(list)) \subseteq ToSet(list) \ {Head(list)}
  BY <1>1 DEF Distinct, ToSet
<1>4. ASSUME NEW i \in DOMAIN list, list[i] # list[1]
      PROVE  list[i] \in ToSet(Tail(list))
  <2>1. i - 1 \in 1..(Len(list) - 1) /\ Tail(list)[i - 1] = list[i]
    BY <1>1, <1>4
  <2> QED
    BY <1>1, <2>1 DEF ToSet
<1> QED
  BY <1>1, <1>2, <1>3, <1>4 DEF ToSet

LEMMA AppendRange ==
  ASSUME NEW S, NEW list \in Seq(S), NEW e \in S, Distinct(list), e \notin ToSet(list)
  PROVE  /\ Distinct(Append(list, e))
         /\ ToSet(Append(list, e)) = ToSet(list) \cup {e}
<1> DEFINE l == Append(list, e)
<1>1. /\ DOMAIN list = 1..Len(list) /\ Len(list) \in Nat
      /\ DOMAIN l = 1..(Len(list) + 1)
      /\ \A i \in 1..Len(list) : l[i] = list[i]
      /\ l[Len(list) + 1] = e
  OBVIOUS
<1>2. \A i \in 1..Len(list) : list[i] # e
  BY <1>1 DEF ToSet
<1>3. \A i \in DOMAIN l : i \in 1..Len(list) \/ i = Len(list) + 1
  BY <1>1
<1>4. Distinct(l)
  BY <1>1, <1>2, <1>3 DEF Distinct
<1>5. ToSet(l) \subseteq ToSet(list) \cup {e}
  BY <1>1, <1>3 DEF ToSet
<1>6. ToSet(list) \cup {e} \subseteq ToSet(l)
  BY <1>1 DEF ToSet
<1> QED
  BY <1>4, <1>5, <1>6

(* A queue without repetitions that misses a context has room for it.      *)
LEMMA QueueHasRoom ==
  ASSUME NEW list \in Seq(Ctx), Distinct(list), NEW c \in Ctx, c \notin ToSet(list)
  PROVE  Len(list) < MaxWaiters
<1>1. MaxCtx \in Nat /\ MaxCtx <= MaxWaiters /\ MaxWaiters \in Nat
  BY SyncAssumption, LockdepAssumption DEF SyncAssumption, LockdepAssumption
<1>2. IsFiniteSet(Ctx) /\ Cardinality(Ctx) = MaxCtx
  BY <1>1, FS_Interval DEF Ctx
<1>3. IsFiniteSet(Ctx \ {c}) /\ Cardinality(Ctx \ {c}) = MaxCtx - 1
  BY <1>2, FS_RemoveElement
<1>4. Len(list) \in Nat /\ DOMAIN list = 1..Len(list) /\ list \in [1..Len(list) -> Ctx]
  OBVIOUS
<1>5. IsFiniteSet(1..Len(list)) /\ Cardinality(1..Len(list)) = Len(list)
  BY <1>4, FS_Interval
<1>6. list \in Injection(1..Len(list), Ctx \ {c})
  <2>1. list \in [1..Len(list) -> Ctx \ {c}]
    BY <1>4 DEF ToSet
  <2> QED
    BY <1>4, <2>1 DEF Injection, IsInjective, Distinct
<1>7. Cardinality(1..Len(list)) <= Cardinality(Ctx \ {c})
  BY <1>3, <1>6, FS_Injection
<1> QED
  BY <1>1, <1>3, <1>4, <1>5, <1>7

(* QueuesMatchSleepers, with the queue of every semaphore free of repeats. *)
LEMMA QueueFacts ==
  ASSUME QueuesMatchSleepers, NEW s \in Sem
  PROVE  Distinct(waiters[s]) /\ ToSet(waiters[s]) = AsleepOn(s)
  BY DEF QueuesMatchSleepers, Distinct

(* It survives every step that leaves the queues alone and puts nobody to  *)
(* sleep, wakes nobody and moves no sleeper.                               *)
LEMMA QueuesFrame ==
  ASSUME QueuesMatchSleepers, UNCHANGED waiters,
         \A d \in Ctx : /\ blocked'[d] = Asleep <=> blocked[d] = Asleep
                        /\ blocked[d] = Asleep => pc'[d] = pc[d] /\ mem'[d] = mem[d]
  PROVE  QueuesMatchSleepers'
<1>1. \A s \in Sem : AsleepOn(s)' = AsleepOn(s)
  BY DEF AsleepOn, StoppedAt
<1> QED
  BY <1>1 DEF QueuesMatchSleepers, StoppedAt

LEMMA CreateQueues ==
  ASSUME SyncBase, Ids, QueuesMatchSleepers, NEW c \in Ctx, blocked[c] = Ready,
         NEW a \in Addr, NEW v, Create(c, a, v)
  PROVE  QueuesMatchSleepers'
<1>0. /\ waiters \in [Sem -> Seq(Ctx)] /\ nextSem \in Sem
      /\ mem \in [Ctx -> [Addr -> Sem \cup {Unset}]]
  BY SyncAssumption DEF SyncBase, SyncTypeOK, Create, Sem, SyncAssumption
<1>1. AsleepOn(nextSem) = {}
  BY <1>0, SyncAssumption DEF AsleepOn, StoppedAt, Ids, Known, Sem, SyncAssumption
<1>2. waiters[nextSem] = <<>>
  <2>1. ToSet(waiters[nextSem]) = {} /\ waiters[nextSem] \in Seq(Ctx)
    BY <1>0, <1>1, QueueFacts
  <2>2. waiters[nextSem] # <<>> => 1 \in DOMAIN waiters[nextSem]
    BY <2>1
  <2> QED
    BY <2>1, <2>2 DEF ToSet
<1>3. waiters' = waiters
  BY <1>0, <1>2 DEF Create
<1>4. \A d \in Ctx : d # c => mem'[d] = mem[d]
  BY <1>0 DEF Create
<1>5. \A d \in Ctx : /\ blocked'[d] = Asleep <=> blocked[d] = Asleep
                     /\ blocked[d] = Asleep => pc'[d] = pc[d] /\ mem'[d] = mem[d]
  BY <1>4 DEF Create, contextVars, Ready, Asleep
<1> QED
  BY <1>3, <1>5, QueuesFrame

LEMMA SleepQueues ==
  ASSUME SyncBase, QueuesMatchSleepers, NEW c \in Ctx, blocked[c] = Ready,
         NEW a \in Addr, mem[c][a] \in Sem, Sleep(c, a, mem[c][a]), UNCHANGED mem
  PROVE  QueuesMatchSleepers'
<1> DEFINE s == mem[c][a]
<1>0. /\ waiters \in [Sem -> Seq(Ctx)] /\ waiters[s] \in Seq(Ctx)
      /\ blocked \in [Ctx -> {Ready, Asleep, Exited}]
      /\ pc \in [Ctx -> Addr \cup {"user", "exit"}]
  BY DEF SyncBase, SyncTypeOK
<1>1. c \notin ToSet(waiters[s])
  BY QueueFacts DEF AsleepOn, Ready, Asleep
<1>2. Len(waiters[s]) < MaxWaiters
  BY <1>0, <1>1, QueueFacts, QueueHasRoom
<1>3. waiters' = [waiters EXCEPT ![s] = Append(@, c)]
  BY <1>2 DEF Sleep
<1>4. /\ \A d \in Ctx : blocked'[d] = IF d = c THEN Asleep ELSE blocked[d]
      /\ \A d \in Ctx : pc'[d] = IF d = c THEN a ELSE pc[d]
  BY <1>0 DEF Sleep
<1>5. AsleepOn(s)' = AsleepOn(s) \cup {c}
  BY <1>4 DEF AsleepOn, StoppedAt, Ready, Asleep
<1>6. \A t \in Sem \ {s} : AsleepOn(t)' = AsleepOn(t)
  BY <1>4 DEF AsleepOn, StoppedAt, Ready, Asleep
<1>7. Distinct(waiters[s]') /\ ToSet(waiters[s]') = AsleepOn(s)'
  <2>1. waiters[s]' = Append(waiters[s], c)
    BY <1>0, <1>3
  <2> QED
    BY <1>0, <1>1, <1>5, <2>1, QueueFacts, AppendRange
<1>8. \A t \in Sem \ {s} : waiters'[t] = waiters[t]
  BY <1>0, <1>3
<1>9. \A d \in Ctx : blocked'[d] = Asleep => \E t \in Sem : StoppedAt(d, t)'
  <2>1. StoppedAt(c, s)'
    BY <1>4 DEF StoppedAt
  <2>2. ASSUME NEW d \in Ctx \ {c}, blocked'[d] = Asleep
        PROVE  \E t \in Sem : StoppedAt(d, t)'
    BY <1>4, <2>2 DEF StoppedAt, QueuesMatchSleepers
  <2> QED
    BY <2>1, <2>2
<1>10. ASSUME NEW t \in Sem
       PROVE  ToSet(waiters[t]') = AsleepOn(t)' /\ Distinct(waiters[t]')
  BY <1>6, <1>7, <1>8, QueueFacts
<1> QED
  BY <1>9, <1>10 DEF QueuesMatchSleepers, Distinct

LEMMA WakeQueues ==
  ASSUME SyncBase, QueuesMatchSleepers, NEW s \in Sem, Wake(s), UNCHANGED <<pc, mem>>
  PROVE  QueuesMatchSleepers'
<1> DEFINE h == Head(waiters[s])
<1>0. /\ waiters \in [Sem -> Seq(Ctx)] /\ waiters[s] \in Seq(Ctx)
      /\ blocked \in [Ctx -> {Ready, Asleep, Exited}]
  BY DEF SyncBase, SyncTypeOK
<1>1. CASE waiters[s] = <<>>
  BY <1>1, QueuesFrame DEF Wake
<1>2. CASE waiters[s] # <<>>
  <2>1. h \in Ctx /\ h \in AsleepOn(s)
    <3>1. h \in ToSet(waiters[s])
      BY <1>0, <1>2 DEF ToSet
    <3> QED
      BY <1>0, <1>2, <3>1, QueueFacts
  <2>2. h \in Live
    BY <2>1 DEF SyncBase, SyncTypeOK, Fresh, LiveIds, AsleepOn, Ctx, Ready, Asleep
  <2>3. /\ waiters' = [waiters EXCEPT ![s] = Tail(@)]
        /\ blocked' = [blocked EXCEPT ![h] = Ready]
    BY <1>2, <2>2 DEF Wake
  <2>4. \A d \in Ctx : blocked'[d] = IF d = h THEN Ready ELSE blocked[d]
    BY <1>0, <2>1, <2>3
  <2>5. AsleepOn(s)' = AsleepOn(s) \ {h}
    BY <2>1, <2>4 DEF AsleepOn, StoppedAt, Ready, Asleep
  <2>6. \A t \in Sem \ {s} : AsleepOn(t)' = AsleepOn(t)
    BY <2>1, <2>4 DEF AsleepOn, StoppedAt, Ready, Asleep
  <2>7. Distinct(waiters[s]') /\ ToSet(waiters[s]') = AsleepOn(s)'
    <3>1. waiters[s]' = Tail(waiters[s])
      BY <1>0, <2>3
    <3> QED
      BY <1>0, <1>2, <2>5, <3>1, QueueFacts, TailRange
  <2>8. \A t \in Sem \ {s} : waiters'[t] = waiters[t]
    BY <1>0, <2>3
  <2>9. \A d \in Ctx : blocked'[d] = Asleep => \E t \in Sem : StoppedAt(d, t)'
    BY <2>4 DEF StoppedAt, QueuesMatchSleepers, Ready, Asleep
  <2>10. ASSUME NEW t \in Sem
         PROVE  ToSet(waiters[t]') = AsleepOn(t)' /\ Distinct(waiters[t]')
    BY <2>6, <2>7, <2>8, QueueFacts
  <2> QED
    BY <2>9, <2>10 DEF QueuesMatchSleepers, Distinct
<1> QED
  BY <1>1, <1>2

LEMMA CallQueues ==
  ASSUME SyncBase, Ids, QueuesMatchSleepers, NEW c \in Ctx, blocked[c] = Ready,
         Fork(c) \/ Exit(c) \/ ObjectCall(c)
  PROVE  QueuesMatchSleepers'
<1>0. /\ SemAddr \subseteq Addr /\ LockAddr \subseteq Addr
      /\ blocked \in [Ctx -> {Ready, Asleep, Exited}]
      /\ pc \in [Ctx -> Addr \cup {"user", "exit"}]
  BY SyncAssumption DEF SyncAssumption, SyncBase, SyncTypeOK
<1>1. CASE Fork(c)
  <2>1. blocked[nextCtx] = Ready
    BY <1>1, LockdepAssumption DEF Fork, SyncBase, SyncTypeOK, Fresh, Ctx, LockdepAssumption
  <2>2. \A d \in Ctx : blocked[d] = Asleep => mem'[d] = mem[d]
    BY <1>1, <2>1 DEF Fork, SyncBase, SyncTypeOK, Ready, Asleep
  <2> QED
    BY <1>1, <2>2, QueuesFrame DEF Fork
<1>2. CASE Exit(c)
  <2>1. \A d \in Ctx : /\ blocked'[d] = Asleep <=> blocked[d] = Asleep
                       /\ blocked[d] = Asleep => pc'[d] = pc[d]
    BY <1>0, <1>2 DEF Exit, Ready, Asleep, Exited
  <2> QED
    BY <1>2, <2>1, QueuesFrame DEF Exit, objectVars
<1>3. CASE Return(c) /\ UNCHANGED <<blocked, waiters, mem>>
  <2>1. \A d \in Ctx : blocked[d] = Asleep => pc'[d] = pc[d]
    BY <1>0, <1>3 DEF Return, Ready, Asleep
  <2> QED
    BY <1>3, <2>1, QueuesFrame
<1>4. ASSUME NEW a \in SemAddr, SemInit(c, a)
      PROVE  QueuesMatchSleepers'
  BY <1>0, <1>4, CreateQueues DEF SemInit
<1>5. ASSUME NEW a \in LockAddr, LockInit(c, a)
      PROVE  QueuesMatchSleepers'
  BY <1>0, <1>5, CreateQueues DEF LockInit
<1>6. ASSUME NEW a \in SemAddr, SemWait(c, a)
      PROVE  QueuesMatchSleepers'
  <2>1. mem[c][a] \in Sem
    BY <1>0, <1>6, CallType DEF SyncBase, SemWait, AtCall
  <2>2. \/ Return(c) /\ UNCHANGED <<blocked, waiters, mem>>
        \/ Sleep(c, a, mem[c][a]) /\ UNCHANGED mem
    BY <1>6 DEF SemWait, Refuse, objectVars
  <2> QED
    BY <1>0, <1>3, <2>1, <2>2, SleepQueues
<1>7. ASSUME NEW a \in LockAddr, LockAcquire(c, a)
      PROVE  QueuesMatchSleepers'
  <2>1. mem[c][a] \in Sem
    BY <1>0, <1>7, CallType DEF SyncBase, LockAcquire, AtCall
  <2>2. \/ Return(c) /\ UNCHANGED <<blocked, waiters, mem>>
        \/ Sleep(c, a, mem[c][a]) /\ UNCHANGED mem
    BY <1>7 DEF LockAcquire, Take, Refuse, objectVars
  <2> QED
    BY <1>0, <1>3, <2>1, <2>2, SleepQueues
<1>8. ASSUME NEW a \in SemAddr, SemPost(c, a)
      PROVE  QueuesMatchSleepers'
  BY <1>0, <1>8, CallType, WakeQueues DEF SyncBase, SemPost
<1>9. ASSUME NEW a \in LockAddr, LockRelease(c, a)
      PROVE  QueuesMatchSleepers'
  BY <1>0, <1>9, CallType, WakeQueues DEF SyncBase, Initialised, LockRelease
<1> QED
  BY <1>1, <1>2, <1>4, <1>5, <1>6, <1>7, <1>8, <1>9 DEF ObjectCall

LEMMA InitQueues == SyncInit => QueuesMatchSleepers
BY DEF SyncInit, QueuesMatchSleepers, AsleepOn, ToSet, Ready, Asleep

(* Every sleeper is in exactly the queue its retried call will look at,    *)
(* once, and the queues hold nobody else: for any number of contexts up to *)
(* the 64 cells of a waiters array.                                        *)
THEOREM QueuesCorrect == SyncSpec => []QueuesMatchSleepers
<1>1. SyncInit => QueuesMatchSleepers
  BY InitQueues
<1>2. SyncBase /\ Ids /\ QueuesMatchSleepers /\ [SyncNext]_syncVars => QueuesMatchSleepers'
  <2> SUFFICES ASSUME SyncBase, Ids, QueuesMatchSleepers, [SyncNext]_syncVars
               PROVE  QueuesMatchSleepers'
    OBVIOUS
  <2>1. CASE SyncNext
    BY <2>1, CallKinds, CallQueues DEF SyncNext
  <2>2. CASE UNCHANGED syncVars
    BY <2>2, QueuesFrame DEF syncVars, contextVars, objectVars
  <2> QED
    BY <2>1, <2>2
<1> QED
  BY <1>1, <1>2, BaseInvariant, IdsInvariant, PTL DEF SyncSpec

(* No call revives a context that has exited: it is in no queue, so nobody *)
(* can wake it.                                                            *)
LEMMA CallExits ==
  ASSUME SyncBase, QueuesMatchSleepers, NEW c \in Ctx, blocked[c] = Ready,
         Fork(c) \/ Exit(c) \/ ObjectCall(c), NEW d \in Ctx, blocked[d] = Exited
  PROVE  blocked'[d] = Exited
<1> USE DEF Ready, Asleep, Exited
<1>0. /\ SemAddr \subseteq Addr /\ LockAddr \subseteq Addr
      /\ blocked \in [Ctx -> {Ready, Asleep, Exited}]
  BY SyncAssumption DEF SyncAssumption, SyncBase, SyncTypeOK
<1>1. ASSUME NEW s \in Sem, Wake(s)
      PROVE  blocked'[d] = Exited
  <2>1. waiters[s] \in Seq(Ctx)
    BY DEF SyncBase, SyncTypeOK
  <2>2. waiters[s] # <<>> => Head(waiters[s]) \in ToSet(waiters[s])
    BY <2>1 DEF ToSet
  <2>3. waiters[s] # <<>> => Head(waiters[s]) # d
    BY <2>2 DEF QueuesMatchSleepers, AsleepOn
  <2> QED
    BY <1>0, <1>1, <2>3 DEF Wake
<1>2. CASE Fork(c) \/ Exit(c)
  BY <1>0, <1>2 DEF Fork, Exit
<1>3. ASSUME NEW a \in SemAddr, SemInit(c, a) \/ SemWait(c, a)
      PROVE  blocked'[d] = Exited
  BY <1>0, <1>3 DEF SemInit, Create, SemWait, Refuse, Sleep, contextVars
<1>4. ASSUME NEW a \in LockAddr, LockInit(c, a) \/ LockAcquire(c, a)
      PROVE  blocked'[d] = Exited
  BY <1>0, <1>4 DEF LockInit, Create, LockAcquire, Refuse, Take, Sleep, contextVars
<1>5. ASSUME NEW a \in SemAddr, SemPost(c, a)
      PROVE  blocked'[d] = Exited
  BY <1>0, <1>1, <1>5, CallType DEF SemPost, SyncBase
<1>6. ASSUME NEW a \in LockAddr, LockRelease(c, a)
      PROVE  blocked'[d] = Exited
  BY <1>0, <1>1, <1>6, CallType DEF LockRelease, SyncBase, Initialised
<1> QED
  BY <1>2, <1>3, <1>4, <1>5, <1>6 DEF ObjectCall

(* Whatever contexts do to locks and semaphores, the context that has      *)
(* called exit never becomes ready or asleep again.                        *)
THEOREM ExitedForGood == SyncSpec => ExitIsFinal
<1>1. ASSUME SyncBase, QueuesMatchSleepers, [SyncNext]_syncVars
      PROVE  \A c \in Ctx : blocked[c] = Exited => blocked'[c] = Exited
  <2>1. CASE SyncNext
    BY <1>1, <2>1, CallExits, CallKinds DEF SyncNext
  <2>2. CASE UNCHANGED syncVars
    BY <2>2 DEF syncVars, contextVars
  <2> QED
    BY <1>1, <2>1, <2>2
<1> QED
  BY <1>1, BaseInvariant, QueuesCorrect, PTL DEF SyncSpec, ExitIsFinal

-----------------------------------------------------------------------------
(* Mutual exclusion.  release does not test the owner, so what keeps a     *)
(* context from releasing another's lock is that a program only releases   *)
(* what it entered, and that, until lockdep refuses somebody, what it      *)
(* entered is what it was granted.                                         *)

Owned ==
  ~denied => \A c \in Ctx : \A s \in Sem :
    s \in granted[c] <=> \E a \in entered[c] : mem[c][a] = s

Exclusion == Owned /\ MutualExclusion

LEMMA GrantedIds ==
  ASSUME SyncBase, Ids, Exclusion, ~denied, NEW d \in Ctx, NEW s \in granted[d]
  PROVE  s \in Sem /\ s < nextSem /\ \E b \in entered[d] : b \in LockAddr /\ mem[d][b] = s
<1>1. s \in Sem
  BY DEF SyncBase, SyncTypeOK
<1>2. PICK b \in entered[d] : mem[d][b] = s
  BY <1>1 DEF Exclusion, Owned
<1>3. b \in LockAddr /\ b \in Addr
  BY SyncAssumption DEF SyncBase, SyncTypeOK, SyncAssumption
<1> QED
  BY <1>1, <1>2, <1>3 DEF Ids, Known

(* A context that stores the id of a lock somebody was granted stores it   *)
(* at the very address the other entered it by.                            *)
LEMMA SameAddress ==
  ASSUME SyncBase, Ids, Exclusion, ~denied, NEW c \in Ctx, NEW a \in Addr,
         NEW d \in Ctx, mem[c][a] \in granted[d]
  PROVE  a \in entered[d] /\ a \in LockAddr
<1>1. PICK b \in entered[d] : b \in LockAddr /\ mem[d][b] = mem[c][a] /\ mem[c][a] \in Sem
  BY GrantedIds
<1>2. mem[c][a] # Unset /\ b \in Addr
  BY <1>1, SyncAssumption DEF Sem, Unset, SyncAssumption
<1> QED
  BY <1>1, <1>2 DEF Ids, OneAddress

LEMMA ExclusionFrame ==
  ASSUME SyncBase, Ids, Exclusion, ~denied, UNCHANGED <<entered, granted>>,
         \A d \in Ctx : \A b \in entered[d] : mem'[d][b] = mem[d][b],
         \A d \in Ctx : \A s \in granted[d] : value'[s] = value[s] /\ owner'[s] = owner[s]
  PROVE  Exclusion'
<1>1. Owned'
  BY DEF Exclusion, Owned
<1>2. MutualExclusion'
  BY DEF Exclusion, MutualExclusion
<1> QED
  BY <1>1, <1>2 DEF Exclusion

LEMMA CreateExclusion ==
  ASSUME SyncBase, Ids, Exclusion, ~denied, NEW c \in Ctx, NEW a \in Addr, NEW v,
         Create(c, a, v), a \notin entered[c],
         \A s \in Sem : s # nextSem => owner'[s] = owner[s]
  PROVE  Exclusion'
<1>1. \A d \in Ctx : \A s \in granted[d] : s \in Sem /\ s # nextSem
  <2>1. \A d \in Ctx : \A s \in granted[d] : s \in Sem /\ s < nextSem
    BY GrantedIds
  <2> QED
    BY <2>1, SyncAssumption DEF Sem, SyncAssumption
<1>2. \A d \in Ctx : \A s \in granted[d] : value'[s] = value[s] /\ owner'[s] = owner[s]
  BY <1>1 DEF Create, SyncBase, SyncTypeOK
<1>3. \A d \in Ctx : \A b \in entered[d] : mem'[d][b] = mem[d][b]
  BY SyncAssumption DEF Create, SyncBase, SyncTypeOK, SyncAssumption
<1> QED
  BY <1>2, <1>3, ExclusionFrame DEF Create, historyVars

LEMMA TakeExclusion ==
  ASSUME SyncBase, Ids, Exclusion, ~denied, NEW c \in Ctx, NEW a \in LockAddr,
         mem[c][a] \in Sem, Take(c, a, mem[c][a]), UNCHANGED <<mem, denied>>
  PROVE  Exclusion'
<1> DEFINE s == mem[c][a]
<1> USE DEF SyncBase, SyncTypeOK
<1>1. \A d \in Ctx : s \notin granted[d]
  BY DEF Exclusion, MutualExclusion, Take
<1>2. /\ \A d \in Ctx : granted'[d] = IF d = c THEN granted[d] \cup {s} ELSE granted[d]
      /\ \A d \in Ctx : entered'[d] = IF d = c THEN entered[d] \cup {a} ELSE entered[d]
      /\ \A t \in Sem : value'[t] = IF t = s THEN 0 ELSE value[t]
      /\ \A t \in Sem : owner'[t] = IF t = s THEN c ELSE owner[t]
      /\ mem' = mem /\ s \in Sem
  BY DEF Take
<1>3. Owned'
  <2>1. ASSUME NEW d \in Ctx, NEW t \in Sem
        PROVE  t \in granted'[d] <=> \E b \in entered'[d] : mem'[d][b] = t
    <3>1. t \in granted[d] <=> \E b \in entered[d] : mem[d][b] = t
      BY DEF Exclusion, Owned
    <3>2. CASE d = c
      <4>1. granted'[c] = granted[c] \cup {s} /\ entered'[c] = entered[c] \cup {a}
        BY <1>2
      <4>2. t \in granted[c] <=> \E b \in entered[c] : mem[c][b] = t
        BY <3>1, <3>2
      <4>3. t \in granted'[c] <=> \E b \in entered'[c] : mem[c][b] = t
        BY <4>1, <4>2
      <4> QED
        BY <1>2, <3>2, <4>3
    <3>3. CASE d # c
      <4>1. granted'[d] = granted[d] /\ entered'[d] = entered[d] /\ mem'[d] = mem[d]
        BY <1>2, <3>3
      <4> QED
        BY <3>1, <4>1
    <3> QED
      BY <3>2, <3>3
  <2> QED
    BY <2>1 DEF Owned
<1>4. MutualExclusion'
  <2>1. ASSUME NEW d \in Ctx, NEW t \in granted'[d]
        PROVE  /\ value'[t] = 0 /\ owner'[t] = d
               /\ \A e \in Ctx \ {d} : t \notin granted'[e]
    <3>1. CASE t = s
      BY <1>1, <1>2, <3>1
    <3>2. CASE t # s
      <4>1. ASSUME NEW e \in Ctx
            PROVE  t \in granted'[e] <=> t \in granted[e]
        <5>1. granted'[e] = IF e = c THEN granted[e] \cup {s} ELSE granted[e]
          BY <1>2
        <5> QED
          BY <3>2, <5>1
      <4>2. t \in granted[d] /\ t \in Sem
        BY <2>1, <4>1
      <4>3. value[t] = 0 /\ owner[t] = d /\ \A e \in Ctx \ {d} : t \notin granted[e]
        BY <4>2 DEF Exclusion, MutualExclusion
      <4>4. value'[t] = value[t] /\ owner'[t] = owner[t]
        BY <1>2, <3>2, <4>2
      <4> QED
        BY <4>1, <4>3, <4>4
    <3> QED
      BY <3>1, <3>2
  <2> QED
    BY <2>1 DEF MutualExclusion
<1> QED
  BY <1>3, <1>4 DEF Exclusion

LEMMA ReleaseExclusion ==
  ASSUME SyncBase, Ids, Exclusion, ~denied, NEW c \in Ctx, NEW a \in LockAddr,
         LockRelease(c, a)
  PROVE  Exclusion'
<1> DEFINE s == mem[c][a]
<1> USE DEF SyncBase, SyncTypeOK
<1>0. s \in Sem /\ s # Unset /\ a \in Addr /\ a \in entered[c]
  BY CallType, SyncAssumption DEF LockRelease, Initialised, SyncAssumption
<1>1. s \in granted[c] /\ \A d \in Ctx \ {c} : s \notin granted[d]
  <2>1. s \in granted[c]
    BY <1>0 DEF Exclusion, Owned
  <2> QED
    BY <2>1 DEF Exclusion, MutualExclusion
<1>2. /\ \A d \in Ctx : granted'[d] = IF d = c THEN granted[d] \ {s} ELSE granted[d]
      /\ \A d \in Ctx : entered'[d] = IF d = c THEN entered[d] \ {a} ELSE entered[d]
      /\ \A t \in Sem : t # s => value'[t] = value[t] /\ owner'[t] = owner[t]
      /\ mem' = mem /\ denied' = denied
  BY <1>0 DEF LockRelease
<1>3. Owned'
  <2>1. ASSUME NEW t \in Sem
        PROVE  t \in granted'[c] <=> \E b \in entered'[c] : mem'[c][b] = t
    <3>1. ASSUME NEW b \in entered[c] \ {a}
          PROVE  mem[c][b] # s
      <4>1. b \in Addr
        BY SyncAssumption DEF SyncAssumption
      <4> QED
        BY <1>0, <3>1, <4>1 DEF Ids, OneAddress
    <3>2. t \in granted[c] <=> \E b \in entered[c] : mem[c][b] = t
      BY DEF Exclusion, Owned
    <3> QED
      BY <1>0, <1>2, <3>1, <3>2
  <2>2. ASSUME NEW d \in Ctx \ {c}, NEW t \in Sem
        PROVE  t \in granted'[d] <=> \E b \in entered'[d] : mem'[d][b] = t
    <3>1. granted'[d] = granted[d] /\ entered'[d] = entered[d] /\ mem'[d] = mem[d]
      BY <1>2
    <3>2. t \in granted[d] <=> \E b \in entered[d] : mem[d][b] = t
      BY DEF Exclusion, Owned
    <3> QED
      BY <3>1, <3>2
  <2> QED
    BY <2>1, <2>2 DEF Owned
<1>4. MutualExclusion'
  <2>1. ASSUME NEW d \in Ctx, NEW t \in granted'[d]
        PROVE  /\ value'[t] = 0 /\ owner'[t] = d
               /\ \A e \in Ctx \ {d} : t \notin granted'[e]
    <3>1. t \in granted[d] /\ t # s /\ t \in Sem
      BY <1>1, <1>2, <2>1
    <3>2. \A e \in Ctx : granted'[e] \subseteq granted[e]
      BY <1>2
    <3> QED
      BY <1>2, <3>1, <3>2 DEF Exclusion, MutualExclusion
  <2> QED
    BY <2>1 DEF MutualExclusion
<1> QED
  BY <1>3, <1>4 DEF Exclusion

LEMMA CallExclusion ==
  ASSUME SyncBase, Ids, Exclusion, NEW c \in Ctx,
         Fork(c) \/ Exit(c) \/ ObjectCall(c)
  PROVE  Exclusion'
<1>0. /\ SemAddr \subseteq Addr /\ LockAddr \subseteq Addr /\ SemAddr \cap LockAddr = {}
      /\ entered \in [Ctx -> SUBSET LockAddr] /\ value \in [Sem -> Nat]
  BY SyncAssumption DEF SyncAssumption, SyncBase, SyncTypeOK
<1>1. CASE denied'
  BY <1>1 DEF Exclusion, Owned, MutualExclusion
<1>2. CASE ~denied'
  <2>0. ~denied
    BY <1>2 DEF Fork, Exit, ObjectCall, SemInit, LockInit, Create, SemWait, SemPost,
                LockAcquire, LockRelease, Refuse, historyVars
  <2>1. CASE Fork(c)
    <3>1. \A d \in Ctx : \A b \in entered[d] : mem'[d][b] = mem[d][b]
      <4>1. nextCtx \in Ctx => entered[nextCtx] = {}
        BY LockdepAssumption DEF SyncBase, SyncTypeOK, Fresh, LockdepAssumption
      <4> QED
        BY <2>1, <4>1 DEF Fork, SyncBase, SyncTypeOK
    <3> QED
      BY <2>0, <2>1, <3>1, ExclusionFrame DEF Fork, historyVars
  <2>2. CASE Exit(c)
    BY <2>0, <2>2, ExclusionFrame DEF Exit, objectVars, historyVars
  <2>3. ASSUME NEW a \in SemAddr, SemInit(c, a)
        PROVE  Exclusion'
    <3>1. a \in Addr /\ a \notin entered[c]
      BY <1>0
    <3> QED
      BY <2>0, <2>3, <3>1, CreateExclusion DEF SemInit
  <2>4. ASSUME NEW a \in LockAddr, LockInit(c, a)
        PROVE  Exclusion'
    <3>1. \A s \in Sem : s # nextSem => owner'[s] = owner[s]
      BY <2>4 DEF LockInit, SyncBase, SyncTypeOK
    <3> QED
      BY <1>0, <2>0, <2>4, <3>1, CreateExclusion DEF LockInit
  <2>5. ASSUME NEW a \in SemAddr, SemWait(c, a) \/ SemPost(c, a)
        PROVE  Exclusion'
    <3>1. ~Refuse(c, a)
      BY <1>2 DEF Refuse
    <3>2. UNCHANGED <<entered, granted, mem, owner>>
      BY <2>5, <3>1 DEF SemWait, SemPost, historyVars
    <3>3. \A t \in Sem : t # mem[c][a] => value'[t] = value[t]
      BY <1>0, <2>5, <3>1 DEF SemWait, SemPost
    <3>4. \A d \in Ctx : mem[c][a] \notin granted[d]
      BY <1>0, <2>0, SameAddress
    <3>5. \A d \in Ctx : \A t \in granted[d] : value'[t] = value[t]
      BY <3>3, <3>4 DEF SyncBase, SyncTypeOK
    <3> QED
      BY <2>0, <3>2, <3>5, ExclusionFrame
  <2>6. ASSUME NEW a \in LockAddr, LockAcquire(c, a)
        PROVE  Exclusion'
    <3>1. ~Refuse(c, a)
      BY <1>2 DEF Refuse
    <3>2. mem[c][a] \in Sem
      BY <1>0, <2>6, CallType DEF SyncBase, LockAcquire, AtCall
    <3>3. CASE Take(c, a, mem[c][a])
      BY <2>0, <2>6, <3>1, <3>2, <3>3, TakeExclusion DEF LockAcquire
    <3>4. CASE UNCHANGED <<value, owner, entered, granted>>
      BY <2>0, <2>6, <3>1, <3>4, ExclusionFrame DEF LockAcquire
    <3> QED
      BY <2>6, <3>1, <3>3, <3>4 DEF LockAcquire
  <2>7. ASSUME NEW a \in LockAddr, LockRelease(c, a)
        PROVE  Exclusion'
    BY <2>0, <2>7, ReleaseExclusion
  <2> QED
    BY <2>1, <2>2, <2>3, <2>4, <2>5, <2>6, <2>7 DEF ObjectCall
<1> QED
  BY <1>1, <1>2

(* Until lockdep refuses an acquisition, two contexts never hold the same  *)
(* lock, and the lock of a holder is taken and names the holder, although  *)
(* release wakes a waiter without giving it the lock and anybody may take  *)
(* the lock before the waiter retries.                                     *)
THEOREM LocksExclude == SyncSpec => []MutualExclusion
<1>1. SyncInit => Exclusion
  BY DEF SyncInit, Exclusion, Owned, MutualExclusion
<1>2. SyncBase /\ Ids /\ Exclusion /\ [SyncNext]_syncVars => Exclusion'
  <2> SUFFICES ASSUME SyncBase, Ids, Exclusion, [SyncNext]_syncVars PROVE Exclusion'
    OBVIOUS
  <2>1. CASE SyncNext
    BY <2>1, CallKinds, CallExclusion DEF SyncNext
  <2>2. CASE UNCHANGED syncVars
    BY <2>2 DEF Exclusion, Owned, MutualExclusion, syncVars, objectVars, historyVars
  <2> QED
    BY <2>1, <2>2
<1>3. Exclusion => MutualExclusion
  BY DEF Exclusion
<1> QED
  BY <1>1, <1>2, <1>3, BaseInvariant, IdsInvariant, PTL DEF SyncSpec

-----------------------------------------------------------------------------
(* What lockdep's held lists record.  The cells a context allocated come   *)
(* before those it shares with the context it was forked from, so a        *)
(* release unlinks a cell of the releasing context: every lock a program   *)
(* is in keeps a cell of its own context, whoever rewrites shared cells.   *)
(* A call that is going to be executed again left an edge from every held  *)
(* class, so lockdep cannot refuse it the second time.                     *)

OwnFirst ==
  \A d \in Ctx : \A i, j \in DOMAIN held[d] :
    i < j /\ held[d][j][2] = d => held[d][i][2] = d

Born == \A d \in Ctx : \A cell \in ToSet(held[d]) : cell[2] < nextCtx

Own(d, x) == \E cell \in ToSet(held[d]) : Class(cell) = x /\ cell[2] = d

Entries == ~denied /\ ~dropped => \A d \in Ctx : \A x \in entered[d] : Own(d, x)

RecordedFor(d, a) == \A x \in HeldClasses(d) : x = a \/ <<x, a>> \in graph

Registered == ~dropped => \A d \in Ctx : pc[d] \in Addr => RecordedFor(d, pc[d])

Tracked == OwnFirst /\ Born /\ Entries /\ Registered

Sublist(l, list) ==
  /\ ToSet(l) \subseteq ToSet(list)
  /\ \A i, j \in DOMAIN l : i < j =>
       \E m, n \in DOMAIN list : m < n /\ list[m] = l[i] /\ list[n] = l[j]

LEMMA UnlinkList ==
  ASSUME NEW list \in Seq(Cell), NEW cell
  PROVE  /\ Sublist(Unlink(list, cell), list)
         /\ ToSet(list) \ {cell} \subseteq ToSet(Unlink(list, cell))
<1> DEFINE l == Unlink(list, cell)
<1>1. CASE cell \notin ToSet(list)
  <2>1. l = list
    BY <1>1 DEF Unlink
  <2>2. Sublist(list, list)
    BY DEF Sublist
  <2> QED
    BY <2>1, <2>2
<1>2. CASE cell \in ToSet(list)
  <2>1. PICK k \in DOMAIN list : l = RemoveAt(list, k) /\ list[k] = cell
    BY <1>2 DEF Unlink, ToSet
  <2>2. /\ DOMAIN list = 1..Len(list) /\ Len(list) \in Nat /\ k \in 1..Len(list)
        /\ Len(l) = Len(list) - 1 /\ DOMAIN l = 1..(Len(list) - 1)
        /\ \A i \in 1..(Len(list) - 1) : l[i] = IF i < k THEN list[i] ELSE list[i + 1]
    <3>1. /\ RemoveAt(list, k) \in Seq(Cell) /\ Len(RemoveAt(list, k)) = Len(list) - 1
          /\ \A i \in 1..(Len(list) - 1) :
               RemoveAt(list, k)[i] = IF i < k THEN list[i] ELSE list[i + 1]
      BY Removed
    <3> HIDE DEF l
    <3>2. l \in Seq(Cell) /\ Len(l) = Len(list) - 1
      BY <2>1, <3>1
    <3>3. DOMAIN list = 1..Len(list) /\ Len(list) \in Nat /\ k \in 1..Len(list)
      BY <2>1
    <3>4. DOMAIN l = 1..(Len(list) - 1)
      BY <3>2
    <3>5. \A i \in 1..(Len(list) - 1) : l[i] = IF i < k THEN list[i] ELSE list[i + 1]
      BY <2>1, <3>1
    <3> QED
      BY <3>2, <3>3, <3>4, <3>5
  <2> HIDE DEF l
  <2>3. ASSUME NEW i \in DOMAIN l, NEW j \in DOMAIN l, i < j
        PROVE  \E m, n \in DOMAIN list : m < n /\ list[m] = l[i] /\ list[n] = l[j]
    <3> DEFINE m == IF i < k THEN i ELSE i + 1
               n == IF j < k THEN j ELSE j + 1
    <3>1. m \in DOMAIN list /\ n \in DOMAIN list /\ m < n
      BY <2>2, <2>3
    <3>2. list[m] = l[i] /\ list[n] = l[j]
      BY <2>2, <2>3
    <3> QED
      BY <3>1, <3>2
  <2>4. ToSet(l) \subseteq ToSet(list)
    BY <2>2 DEF ToSet
  <2>5. ASSUME NEW i \in DOMAIN list, list[i] # cell
        PROVE  list[i] \in ToSet(l)
    <3>1. CASE i < k
      <4>1. i \in DOMAIN l /\ l[i] = list[i]
        BY <2>2, <3>1
      <4> QED
        BY <4>1 DEF ToSet
    <3>2. CASE i > k
      <4>1. i - 1 \in DOMAIN l /\ l[i - 1] = list[i]
        BY <2>2, <3>2
      <4> QED
        BY <4>1 DEF ToSet
    <3> QED
      BY <2>1, <2>2, <2>5, <3>1, <3>2
  <2>6. ToSet(list) \ {cell} \subseteq ToSet(l)
    BY <2>5 DEF ToSet
  <2> QED
    BY <2>3, <2>4, <2>6 DEF l, Sublist
<1> QED
  BY <1>1, <1>2

LEMMA CellType ==
  ASSUME LockdepTypeOK, NEW d \in Ctx, NEW cell \in ToSet(held[d])
  PROVE  cell \in Cell /\ cell[2] \in Nat
<1>1. held[d] \in Seq(Cell)
  BY DEF LockdepTypeOK
<1>2. cell \in Cell
  BY <1>1 DEF ToSet
<1> QED
  BY <1>2 DEF Cell, Ctx

LEMMA SublistsTracked ==
  ASSUME OwnFirst, Born, nextCtx' = nextCtx, \A d \in Ctx : Sublist(held'[d], held[d])
  PROVE  OwnFirst' /\ Born'
<1>1. OwnFirst'
  <2>1. ASSUME NEW d \in Ctx, NEW i \in DOMAIN held'[d], NEW j \in DOMAIN held'[d],
               i < j, held'[d][j][2] = d
        PROVE  held'[d][i][2] = d
    <3>1. PICK m, n \in DOMAIN held[d] :
            m < n /\ held[d][m] = held'[d][i] /\ held[d][n] = held'[d][j]
      BY <2>1 DEF Sublist
    <3>2. held[d][n][2] = d
      BY <2>1, <3>1
    <3>3. held[d][m][2] = d
      BY <3>1, <3>2 DEF OwnFirst
    <3> QED
      BY <3>1, <3>3
  <2> QED
    BY <2>1 DEF OwnFirst
<1>2. Born'
  BY DEF Born, Sublist
<1> QED
  BY <1>1, <1>2

LEMMA RegisteredFrame ==
  ASSUME Registered, graph \subseteq graph', NEW d \in Ctx, pc[d] \in Addr, ~dropped,
         ToSet(held'[d]) \subseteq ToSet(held[d]), pc'[d] = pc[d]
  PROVE  RecordedFor(d, pc[d])'
<1>1. ASSUME NEW x \in HeldClasses(d)'
      PROVE  x \in HeldClasses(d)
  BY <1>1 DEF HeldClasses, ToSet
<1> QED
  BY <1>1 DEF Registered, RecordedFor

(* The calls that leave the held lists alone.                              *)
LEMMA FrameTracked ==
  ASSUME Tracked, UNCHANGED <<held, nextCtx>>, graph \subseteq graph',
         dropped => dropped', denied => denied',
         ~denied' => \A d \in Ctx : entered'[d] \subseteq entered[d],
         \A d \in Ctx : pc'[d] = pc[d] \/ pc'[d] \notin Addr
  PROVE  Tracked'
<1>1. OwnFirst' /\ Born' /\ Entries'
  BY DEF Tracked, OwnFirst, Born, Entries, Own
<1>2. Registered'
  <2>1. ASSUME ~dropped', NEW d \in Ctx, pc'[d] \in Addr
        PROVE  RecordedFor(d, pc[d])' /\ pc'[d] = pc[d]
    BY <2>1, RegisteredFrame DEF Tracked
  <2> QED
    BY <2>1 DEF Registered, RecordedFor
<1> QED
  BY <1>1, <1>2 DEF Tracked

LEMMA ForkTracked ==
  ASSUME SyncBase, Tracked, NEW c \in Ctx, Fork(c)
  PROVE  Tracked'
<1>1. /\ nextCtx \in Ctx /\ nextCtx \in Nat /\ nextCtx' = nextCtx + 1
      /\ pc[nextCtx] = "user" /\ entered[nextCtx] = {}
  BY LockdepAssumption DEF SyncBase, SyncTypeOK, Fork, Ctx, Fresh, LockdepAssumption
<1>2. \A d \in Ctx : held'[d] = IF d = nextCtx THEN held[c] ELSE held[d]
  BY DEF SyncBase, SyncTypeOK, LockdepTypeOK, Fork, LockdepFork
<1>3. UNCHANGED <<pc, entered, denied, dropped, graph>>
  BY DEF Fork, LockdepFork, historyVars
<1>4. \A d \in Ctx : \A cell \in ToSet(held[d]) : cell \in Cell /\ cell[2] \in Nat
  BY CellType DEF SyncBase, SyncTypeOK
<1>5. Born'
  BY <1>1, <1>2, <1>4 DEF Tracked, Born
<1>6. OwnFirst'
  <2>1. \A j \in DOMAIN held[c] : held[c][j][2] # nextCtx
    <3>1. \A j \in DOMAIN held[c] : held[c][j] \in ToSet(held[c])
      BY DEF ToSet
    <3>2. \A cell \in ToSet(held[c]) : cell[2] < nextCtx /\ cell[2] \in Nat
      BY <1>4 DEF Tracked, Born
    <3>3. \A cell \in ToSet(held[c]) : cell[2] # nextCtx
      BY <1>1, <3>2
    <3> QED
      BY <3>1, <3>3
  <2> QED
    BY <1>2, <2>1 DEF Tracked, OwnFirst
<1>7. Entries'
  BY <1>1, <1>2, <1>3 DEF Tracked, Entries, Own
<1>8. Registered'
  <2>1. ASSUME ~dropped', NEW d \in Ctx, pc'[d] \in Addr
        PROVE  RecordedFor(d, pc[d])'
    <3>1. d # nextCtx
      BY <1>1, <1>3, <2>1, SyncAssumption DEF SyncAssumption
    <3>2. held'[d] = held[d]
      BY <1>2, <3>1
    <3> QED
      BY <1>3, <2>1, <3>2, RegisteredFrame DEF Tracked
  <2> QED
    BY <2>1 DEF Registered, RecordedFor
<1> QED
  BY <1>5, <1>6, <1>7, <1>8 DEF Tracked

(* An acquisition lockdep lets through, whatever the semaphore then says.  *)
LEMMA AcquireTracked ==
  ASSUME SyncBase, Tracked, NEW c \in Ctx, c \in Live, NEW a \in Addr, LockdepAcquire(c, a),
         nextCtx' = nextCtx, denied' = denied,
         \A d \in Ctx \ {c} : pc'[d] = pc[d] /\ entered'[d] = entered[d],
         pc'[c] \in {a, "user"}, entered'[c] \subseteq entered[c] \cup {a}
  PROVE  Tracked'
<1>0. /\ "user" \notin Addr /\ c < nextCtx /\ LockdepTypeOK
      /\ \A d \in Ctx : held[d] \in Seq(Cell)
  <2>1. c \in 0 .. (nextCtx - 1) /\ nextCtx \in Int
    BY DEF SyncBase, LiveIds, SyncTypeOK
  <2> QED
    BY <2>1, SyncAssumption DEF SyncAssumption, SyncBase, SyncTypeOK, LockdepTypeOK
<1>1. graph \subseteq graph' /\ (dropped => dropped')
  BY DEF LockdepAcquire, WalkHeld
<1>2. CASE UNCHANGED held /\ dropped'
  BY <1>2 DEF Tracked, OwnFirst, Born, Entries, Registered
<1>3. CASE \E k \in 1..MaxCell : held' = [held EXCEPT ![c] = <<<<a, c, k>>>> \o @]
  <2>1. PICK k \in 1..MaxCell : held' = [held EXCEPT ![c] = <<<<a, c, k>>>> \o @]
    BY <1>3
  <2> DEFINE cell == <<a, c, k>>
             l == <<cell>> \o held[c]
  <2>2. cell \in Cell /\ Class(cell) = a /\ cell[2] = c
    BY DEF Cell, Class
  <2>3. \A d \in Ctx : held'[d] = IF d = c THEN l ELSE held[d]
    BY <1>0, <2>1 DEF LockdepTypeOK
  <2> HIDE DEF cell
  <2>4. /\ ToSet(l) = {cell} \cup ToSet(held[c])
        /\ l[1] = cell /\ DOMAIN held[c] = 1..Len(held[c]) /\ Len(held[c]) \in Nat
        /\ DOMAIN l = 1..(Len(held[c]) + 1)
        /\ \A i \in 1..Len(held[c]) : l[i + 1] = held[c][i]
    BY <1>0, <2>2, ConcatRange
  <2> HIDE DEF l
  <2>5. Born'
    <3>1. ASSUME NEW d \in Ctx, NEW x \in ToSet(held'[d])
          PROVE  x[2] < nextCtx
      BY <1>0, <2>2, <2>3, <2>4, <3>1 DEF Tracked, Born
    <3> QED
      BY <3>1 DEF Born
  <2>6. OwnFirst'
    <3>1. ASSUME NEW i \in DOMAIN l, NEW j \in DOMAIN l, i < j, l[j][2] = c
          PROVE  l[i][2] = c
      <4>1. j - 1 \in DOMAIN held[c] /\ l[j] = held[c][j - 1]
        BY <2>4, <3>1
      <4>2. CASE i = 1
        BY <2>2, <2>4, <4>2
      <4>3. CASE i # 1
        <5>1. i - 1 \in DOMAIN held[c] /\ l[i] = held[c][i - 1] /\ i - 1 < j - 1
          BY <2>4, <3>1, <4>3
        <5> QED
          BY <3>1, <4>1, <5>1 DEF Tracked, OwnFirst
      <4> QED
        BY <4>2, <4>3
    <3> QED
      BY <2>3, <3>1 DEF Tracked, OwnFirst
  <2>7. Entries'
    <3>1. ASSUME ~denied', ~dropped', NEW d \in Ctx, NEW x \in entered'[d]
          PROVE  Own(d, x)'
      <4>1. CASE d # c
        BY <1>1, <2>3, <3>1, <4>1 DEF Tracked, Entries, Own
      <4>2. CASE d = c /\ x = a
        BY <2>2, <2>3, <2>4, <4>2 DEF Own
      <4>3. CASE d = c /\ x # a
        <5>1. Own(c, x)
          BY <1>1, <3>1, <4>3 DEF Tracked, Entries
        <5> QED
          BY <2>3, <2>4, <4>3, <5>1 DEF Own
      <4> QED
        BY <4>1, <4>2, <4>3
    <3> QED
      BY <3>1 DEF Entries, Own
  <2>8. Registered'
    <3>1. ASSUME ~dropped', NEW d \in Ctx, pc'[d] \in Addr
          PROVE  RecordedFor(d, pc[d])'
      <4>1. CASE d # c
        <5>1. held'[d] = held[d] /\ pc'[d] = pc[d]
          BY <2>3, <4>1
        <5> QED
          BY <1>1, <3>1, <5>1, RegisteredFrame DEF Tracked
      <4>2. CASE d = c
        <5>1. pc'[c] = a
          BY <1>0, <3>1, <4>2
        <5>2. ASSUME NEW x \in HeldClasses(c)'
              PROVE  x = a \/ x \in HeldClasses(c)
          <6>1. PICK i \in DOMAIN l : x = Class(l[i])
            BY <2>3, <5>2 DEF HeldClasses
          <6>2. i = 1 \/ (i - 1 \in DOMAIN held[c] /\ l[i] = held[c][i - 1])
            BY <2>4
          <6> QED
            BY <2>2, <2>4, <6>1, <6>2 DEF HeldClasses
        <5>3. \A x \in HeldClasses(c) : x = a \/ <<x, a>> \in graph'
          BY <1>0, <3>1, AllRecorded
        <5> QED
          BY <4>2, <5>1, <5>2, <5>3 DEF RecordedFor
      <4> QED
        BY <4>1, <4>2
    <3> QED
      BY <3>1 DEF Registered, RecordedFor
  <2> QED
    BY <2>5, <2>6, <2>7, <2>8 DEF Tracked
<1>4. (UNCHANGED held /\ dropped') \/ \E k \in 1..MaxCell : held' = [held EXCEPT ![c] = <<<<a, c, k>>>> \o @]
  BY DEF LockdepAcquire, AddHeld
<1> QED
  BY <1>2, <1>3, <1>4

(* A release: the cell it unlinks is the context's own if the context is   *)
(* in the lock, so no other context loses the cell of a lock it is in.     *)
LEMMA ReleaseTracked ==
  ASSUME SyncBase, Tracked, NEW c \in Ctx, NEW a \in Addr, LockdepRelease(c, a),
         UNCHANGED <<nextCtx, pc, denied>>,
         \A d \in Ctx : entered'[d] \subseteq entered[d],
         a \notin entered'[c], a \in entered[c] \/ a \in SemAddr
  PROVE  Tracked'
<1>0. LockdepTypeOK /\ \A d \in Ctx : held[d] \in Seq(Cell)
  BY DEF SyncBase, SyncTypeOK, LockdepTypeOK
<1>1. graph' = graph /\ dropped' = dropped
  BY DEF LockdepRelease
<1>2. CASE UNCHANGED held
  BY <1>1, <1>2, FrameTracked
<1>3. ASSUME NEW i \in DOMAIN held[c], Class(held[c][i]) = a,
             \A j \in 1..(i-1) : Class(held[c][j]) # a, RemoveHeld(c, i)
      PROVE  Tracked'
  <2> DEFINE cell == held[c][i]
  <2>1. \A d \in Ctx : held'[d] \in {held[d], Unlink(held[d], cell)}
    BY <1>3 DEF RemoveHeld
  <2>2. \A d \in Ctx : /\ Sublist(held'[d], held[d])
                       /\ ToSet(held[d]) \ {cell} \subseteq ToSet(held'[d])
    <3>1. \A d \in Ctx : Sublist(held[d], held[d])
      BY DEF Sublist
    <3>2. ASSUME NEW d \in Ctx
          PROVE  /\ Sublist(Unlink(held[d], cell), held[d])
                 /\ ToSet(held[d]) \ {cell} \subseteq ToSet(Unlink(held[d], cell))
      BY <1>0, UnlinkList
    <3> HIDE DEF cell
    <3> QED
      BY <2>1, <3>1, <3>2
  <2> HIDE DEF cell
  <2>3. OwnFirst' /\ Born'
    BY <2>2, SublistsTracked DEF Tracked
  <2>4. Entries'
    <3>1. ASSUME ~denied', ~dropped', NEW d \in Ctx, NEW x \in entered'[d]
          PROVE  Own(d, x)'
      <4>1. PICK o \in ToSet(held[d]) : Class(o) = x /\ o[2] = d
        BY <1>1, <3>1 DEF Tracked, Entries, Own
      <4>2. o # cell
        <5>1. CASE d = c
          BY <1>3, <3>1, <4>1, <5>1 DEF cell
        <5>2. CASE d # c /\ a \in SemAddr
          BY <1>3, <3>1, <4>1, <5>2, SyncAssumption DEF cell, SyncBase, SyncTypeOK, SyncAssumption
        <5>3. CASE d # c /\ a \in entered[c]
          <6>1. PICK p \in ToSet(held[c]) : Class(p) = a /\ p[2] = c
            BY <1>1, <3>1, <5>3 DEF Tracked, Entries, Own
          <6>2. PICK j \in DOMAIN held[c] : held[c][j] = p
            BY <6>1 DEF ToSet
          <6>3. i = j \/ i < j
            BY <1>0, <1>3, <6>1, <6>2
          <6>4. held[c][i][2] = c
            BY <6>1, <6>2, <6>3 DEF Tracked, OwnFirst
          <6> QED
            BY <4>1, <5>3, <6>4 DEF cell
        <5> QED
          BY <5>1, <5>2, <5>3
      <4> QED
        BY <2>2, <4>1, <4>2 DEF Own
    <3> QED
      BY <3>1 DEF Entries, Own
  <2>5. Registered'
    <3>1. ASSUME ~dropped', NEW d \in Ctx, pc'[d] \in Addr
          PROVE  RecordedFor(d, pc[d])'
      BY <1>1, <2>2, <3>1, RegisteredFrame DEF Tracked, Sublist
    <3> QED
      BY <1>1, <3>1 DEF Registered, RecordedFor
  <2> QED
    BY <2>3, <2>4, <2>5 DEF Tracked
<1> QED
  BY <1>2, <1>3 DEF LockdepRelease

LEMMA CallTracked ==
  ASSUME SyncBase, Tracked, NEW c \in Ctx, c \in Live, Fork(c) \/ Exit(c) \/ ObjectCall(c)
  PROVE  Tracked'
<1>0. /\ SemAddr \subseteq Addr /\ LockAddr \subseteq Addr /\ SemAddr \cap LockAddr = {}
      /\ "user" \notin Addr /\ "exit" \notin Addr
      /\ pc \in [Ctx -> Addr \cup {"user", "exit"}] /\ entered \in [Ctx -> SUBSET LockAddr]
  BY SyncAssumption DEF SyncAssumption, SyncBase, SyncTypeOK
<1>1. CASE Fork(c)
  BY <1>1, ForkTracked
<1>2. CASE Exit(c)
  BY <1>0, <1>2, FrameTracked DEF Exit, historyVars, lockdepVars
<1>3. ASSUME NEW a \in SemAddr, SemInit(c, a)
      PROVE  Tracked'
  BY <1>3, FrameTracked DEF SemInit, Create, contextVars, historyVars, lockdepVars
<1>4. ASSUME NEW a \in LockAddr, LockInit(c, a)
      PROVE  Tracked'
  BY <1>4, FrameTracked DEF LockInit, Create, contextVars, historyVars, lockdepVars
<1>5. ASSUME NEW a \in Addr, Refuse(c, a)
      PROVE  Tracked'
  BY <1>0, <1>5, FrameTracked DEF Refuse, Return, LockdepDeny, WalkHeld
<1>6. ASSUME NEW a \in SemAddr, SemWait(c, a)
      PROVE  Tracked'
  <2>1. CASE ~Refuse(c, a)
    <3>1. LockdepAcquire(c, a) /\ UNCHANGED <<nextCtx, denied, entered>>
      BY <1>6, <2>1 DEF SemWait, historyVars
    <3>2. pc'[c] \in {a, "user"} /\ \A d \in Ctx \ {c} : pc'[d] = pc[d]
      BY <1>0, <1>6, <2>1 DEF SemWait, Return, Sleep
    <3> QED
      BY <1>0, <3>1, <3>2, AcquireTracked
  <2> QED
    BY <1>0, <1>5, <2>1
<1>7. ASSUME NEW a \in SemAddr, SemPost(c, a)
      PROVE  Tracked'
  <2>1. a \notin entered[c] /\ a \in Addr
    BY <1>0
  <2> QED
    BY <1>7, <2>1, ReleaseTracked DEF SemPost, historyVars
<1>8. ASSUME NEW a \in LockAddr, LockAcquire(c, a)
      PROVE  Tracked'
  <2>1. CASE ~Refuse(c, a)
    <3>1. LockdepAcquire(c, a) /\ UNCHANGED <<nextCtx, denied>>
      BY <1>8, <2>1 DEF LockAcquire
    <3>2. pc'[c] \in {a, "user"} /\ \A d \in Ctx \ {c} : pc'[d] = pc[d]
      BY <1>0, <1>8, <2>1 DEF LockAcquire, Return, Take, Sleep
    <3>3. /\ entered'[c] \subseteq entered[c] \cup {a}
          /\ \A d \in Ctx \ {c} : entered'[d] = entered[d]
      BY <1>0, <1>8, <2>1 DEF LockAcquire, Take
    <3> QED
      BY <1>0, <3>1, <3>2, <3>3, AcquireTracked
  <2> QED
    BY <1>0, <1>5, <2>1
<1>9. ASSUME NEW a \in LockAddr, LockRelease(c, a)
      PROVE  Tracked'
  <2>1. a \in Addr /\ a \in entered[c] /\ entered'[c] = entered[c] \ {a}
    BY <1>0, <1>9 DEF LockRelease
  <2>2. \A d \in Ctx : entered'[d] \subseteq entered[d]
    BY <1>0, <1>9 DEF LockRelease
  <2> QED
    BY <1>9, <2>1, <2>2, ReleaseTracked DEF LockRelease
<1> QED
  BY <1>1, <1>2, <1>3, <1>4, <1>6, <1>7, <1>8, <1>9 DEF ObjectCall

LEMMA TrackedInvariant == SyncSpec => []Tracked
<1>1. SyncInit => Tracked
  BY SyncAssumption DEF SyncInit, LockdepInit, Tracked, OwnFirst, Born, Entries, Registered,
                        ToSet, SyncAssumption
<1>2. SyncBase /\ Tracked /\ [SyncNext]_syncVars => Tracked'
  <2> SUFFICES ASSUME SyncBase, Tracked, [SyncNext]_syncVars PROVE Tracked'
    OBVIOUS
  <2>1. CASE SyncNext
    BY <2>1, CallKinds, CallTracked DEF SyncNext
  <2>2. CASE UNCHANGED syncVars
    BY <2>2, FrameTracked DEF syncVars, contextVars, historyVars, lockdepVars
  <2> QED
    BY <2>1, <2>2
<1> QED
  BY <1>1, <1>2, BaseInvariant, PTL DEF SyncSpec

-----------------------------------------------------------------------------
(* A call that is executed again is let through again.  While the table    *)
(* has room every edge the first walk needed was recorded; once it is full *)
(* the graph never changes again, and the held list of a stopped context   *)
(* only loses cells.                                                       *)

Passes(d) == RecordedFor(d, pc[d]) \/ (Full /\ ~Denies(d, pc[d]))

Passable == TableOK /\ \A d \in Ctx : pc[d] \in Addr => Passes(d)

LEMMA PassesFrame ==
  ASSUME NEW d \in Ctx, Passes(d), pc'[d] = pc[d], ToSet(held'[d]) \subseteq ToSet(held[d]),
         graph \subseteq graph', Full => graph' = graph
  PROVE  Passes(d)'
<1>1. HeldClasses(d)' \subseteq HeldClasses(d)
  BY DEF HeldClasses, ToSet
<1>2. CASE RecordedFor(d, pc[d])
  BY <1>1, <1>2 DEF RecordedFor, Passes
<1>3. CASE Full /\ ~Denies(d, pc[d])
  BY <1>1, <1>3 DEF Full, Denies, Conflicts, Passes
<1> QED
  BY <1>2, <1>3 DEF Passes

(* The calls that put no class on a held list.                             *)
LEMMA FramePassable ==
  ASSUME Passable, graph \subseteq graph', TableOK', Full => graph' = graph,
         \A d \in Ctx : pc'[d] = pc[d] \/ pc'[d] \notin Addr,
         \A d \in Ctx : pc[d] \in Addr => ToSet(held'[d]) \subseteq ToSet(held[d])
  PROVE  Passable'
<1>1. ASSUME NEW d \in Ctx, pc'[d] \in Addr
      PROVE  Passes(d)'
  BY <1>1, PassesFrame DEF Passable
<1> QED
  BY <1>1 DEF Passable

LEMMA ReleaseShrinks ==
  ASSUME LockdepTypeOK, NEW c \in Ctx, NEW a, LockdepRelease(c, a), NEW d \in Ctx
  PROVE  ToSet(held'[d]) \subseteq ToSet(held[d])
<1>1. held[d] \in Seq(Cell)
  BY DEF LockdepTypeOK
<1>2. \A cell : ToSet(Unlink(held[d], cell)) \subseteq ToSet(held[d])
  BY <1>1, UnlinkList DEF Sublist
<1> QED
  BY <1>2 DEF LockdepRelease, RemoveHeld

LEMMA AcquirePassable ==
  ASSUME SyncBase, Passable, NEW c \in Ctx, NEW a \in Addr, LockdepAcquire(c, a),
         \A d \in Ctx \ {c} : pc'[d] = pc[d], pc'[c] \in {a, "user"}
  PROVE  Passable'
<1>0. /\ "user" \notin Addr /\ LockdepTypeOK /\ TableOK /\ WalkHeld(c, a) /\ ~Denies(c, a)
      /\ held \in [Ctx -> Seq(Cell)]
  BY SyncAssumption DEF SyncAssumption, SyncBase, SyncTypeOK, LockdepTypeOK, LockdepAcquire, Passable
<1>1. /\ graph \subseteq graph' /\ TableOK' /\ (Full => graph' = graph)
      /\ Full' \/ \A x \in HeldClasses(c) : x = a \/ <<x, a>> \in graph'
  BY <1>0, WalkFills
<1>2. /\ \A d \in Ctx \ {c} : held'[d] = held[d]
      /\ HeldClasses(c)' \subseteq HeldClasses(c) \cup {a}
  <2>1. CASE UNCHANGED held
    BY <2>1 DEF HeldClasses
  <2>2. CASE \E k \in 1..MaxCell : held' = [held EXCEPT ![c] = <<<<a, c, k>>>> \o @]
    <3>1. PICK k \in 1..MaxCell : held' = [held EXCEPT ![c] = <<<<a, c, k>>>> \o @]
      BY <2>2
    <3>2. \A d \in Ctx : held'[d] = IF d = c THEN <<<<a, c, k>>>> \o held[c] ELSE held[d]
      BY <1>0, <3>1
    <3>3. <<a, c, k>> \in Cell /\ held[c] \in Seq(Cell)
      BY <1>0 DEF Cell
    <3>4. ToSet(held'[c]) = {<<a, c, k>>} \cup ToSet(held[c])
      BY <3>2, <3>3, ConcatRange
    <3>5. HeldClasses(c)' = {Class(x) : x \in ToSet(held'[c])}
      BY DEF HeldClasses, ToSet
    <3>6. HeldClasses(c) = {Class(x) : x \in ToSet(held[c])}
      BY DEF HeldClasses, ToSet
    <3> QED
      BY <3>2, <3>4, <3>5, <3>6 DEF Class
  <2> QED
    BY <2>1, <2>2 DEF LockdepAcquire, AddHeld
<1>3. ASSUME NEW x \in HeldClasses(c)
      PROVE  ~Conflicts(x, a)'
  <2>1. PICK M \in SUBSET Addr : Recorded(c, a) = M \X {a}
    BY <1>0, RecordedEdges
  <2>2. graph' = graph \cup (M \X {a}) /\ ~Conflicts(x, a)
    BY <1>0, <2>1 DEF WalkHeld, Denies
  <2> QED
    BY <2>2, StillPasses
<1>4. ASSUME pc'[c] \in Addr
      PROVE  Passes(c)'
  <2>1. pc'[c] = a
    BY <1>0, <1>4
  <2>2. ~Conflicts(a, a)'
    BY DEF Conflicts
  <2>3. CASE Full'
    <3>1. \A x \in HeldClasses(c)' : ~Conflicts(x, a)'
      BY <1>2, <1>3, <2>2
    <3> QED
      BY <2>1, <2>3, <3>1 DEF Passes, Denies
  <2>4. CASE \A x \in HeldClasses(c) : x = a \/ <<x, a>> \in graph'
    BY <1>2, <2>1, <2>4 DEF Passes, RecordedFor
  <2> QED
    BY <1>1, <2>3, <2>4
<1>5. ASSUME NEW d \in Ctx \ {c}, pc'[d] \in Addr
      PROVE  Passes(d)'
  BY <1>1, <1>2, <1>5, PassesFrame DEF Passable
<1> QED
  BY <1>1, <1>4, <1>5 DEF Passable

LEMMA CallPassable ==
  ASSUME SyncBase, Passable, NEW c \in Ctx, Fork(c) \/ Exit(c) \/ ObjectCall(c)
  PROVE  Passable'
<1>0. /\ SemAddr \subseteq Addr /\ LockAddr \subseteq Addr
      /\ "user" \notin Addr /\ "exit" \notin Addr /\ LockdepTypeOK
      /\ pc \in [Ctx -> Addr \cup {"user", "exit"}]
  BY SyncAssumption DEF SyncAssumption, SyncBase, SyncTypeOK
<1>1. ASSUME graph' = graph, \A d \in Ctx : pc'[d] = pc[d] \/ pc'[d] \notin Addr,
             \A d \in Ctx : pc[d] \in Addr => ToSet(held'[d]) \subseteq ToSet(held[d])
      PROVE  Passable'
  <2>1. TableOK'
    BY <1>1 DEF Passable, TableOK
  <2> QED
    BY <1>1, <2>1, FramePassable
<1>2. CASE Fork(c)
  <2>1. pc[nextCtx] = "user"
    BY <1>2, LockdepAssumption DEF Fork, SyncBase, SyncTypeOK, Fresh, Ctx, LockdepAssumption
  <2>2. \A d \in Ctx : d # nextCtx => held'[d] = held[d]
    BY <1>0, <1>2 DEF Fork, LockdepFork, LockdepTypeOK
  <2> QED
    BY <1>0, <1>1, <1>2, <2>1, <2>2 DEF Fork, LockdepFork
<1>3. CASE Exit(c)
  BY <1>0, <1>1, <1>3 DEF Exit, lockdepVars
<1>4. ASSUME NEW a \in SemAddr, SemInit(c, a)
      PROVE  Passable'
  BY <1>1, <1>4 DEF SemInit, Create, contextVars, lockdepVars
<1>5. ASSUME NEW a \in LockAddr, LockInit(c, a)
      PROVE  Passable'
  BY <1>1, <1>5 DEF LockInit, Create, contextVars, lockdepVars
<1>6. ASSUME NEW a \in Addr, Refuse(c, a)
      PROVE  Passable'
  <2>1. WalkHeld(c, a) /\ held' = held
    BY <1>6 DEF Refuse, LockdepDeny
  <2>2. graph \subseteq graph' /\ TableOK' /\ (Full => graph' = graph)
    BY <1>0, <2>1, WalkFills DEF Passable
  <2>3. \A d \in Ctx : pc'[d] = pc[d] \/ pc'[d] \notin Addr
    BY <1>0, <1>6 DEF Refuse, Return
  <2> QED
    BY <2>1, <2>2, <2>3, FramePassable
<1>7. ASSUME NEW a \in SemAddr, SemWait(c, a)
      PROVE  Passable'
  <2>1. CASE ~Refuse(c, a)
    <3>1. LockdepAcquire(c, a)
      BY <1>7, <2>1 DEF SemWait
    <3>2. pc'[c] \in {a, "user"} /\ \A d \in Ctx \ {c} : pc'[d] = pc[d]
      BY <1>0, <1>7, <2>1 DEF SemWait, Return, Sleep
    <3> QED
      BY <1>0, <3>1, <3>2, AcquirePassable
  <2> QED
    BY <1>0, <1>6, <2>1
<1>8. ASSUME NEW a \in LockAddr, LockAcquire(c, a)
      PROVE  Passable'
  <2>1. CASE ~Refuse(c, a)
    <3>1. LockdepAcquire(c, a)
      BY <1>8, <2>1 DEF LockAcquire
    <3>2. pc'[c] \in {a, "user"} /\ \A d \in Ctx \ {c} : pc'[d] = pc[d]
      BY <1>0, <1>8, <2>1 DEF LockAcquire, Return, Take, Sleep
    <3> QED
      BY <1>0, <3>1, <3>2, AcquirePassable
  <2> QED
    BY <1>0, <1>6, <2>1
<1>9. ASSUME NEW a \in Addr, LockdepRelease(c, a), UNCHANGED pc
      PROVE  Passable'
  BY <1>0, <1>1, <1>9, ReleaseShrinks DEF LockdepRelease
<1>10. ASSUME NEW a \in SemAddr, SemPost(c, a)
       PROVE  Passable'
  BY <1>0, <1>9, <1>10 DEF SemPost
<1>11. ASSUME NEW a \in LockAddr, LockRelease(c, a)
       PROVE  Passable'
  BY <1>0, <1>9, <1>11 DEF LockRelease
<1> QED
  BY <1>2, <1>3, <1>4, <1>5, <1>7, <1>8, <1>10, <1>11 DEF ObjectCall

LEMMA InitPassable == SyncInit => Passable
<1> SUFFICES ASSUME SyncInit PROVE Passable
  OBVIOUS
<1>1. TableOK
  BY FS_EmptySet, LockdepAssumption DEF SyncInit, LockdepInit, TableOK, LockdepAssumption
<1> QED
  BY <1>1, SyncAssumption DEF SyncInit, Passable, SyncAssumption

LEMMA PassableInvariant == SyncSpec => []Passable
<1>1. SyncInit => Passable
  BY InitPassable
<1>2. SyncBase /\ Passable /\ [SyncNext]_syncVars => Passable'
  <2> SUFFICES ASSUME SyncBase, Passable, [SyncNext]_syncVars PROVE Passable'
    OBVIOUS
  <2>1. CASE SyncNext
    BY <2>1, CallKinds, CallPassable DEF SyncNext
  <2>2. CASE UNCHANGED syncVars
    BY <2>2 DEF Passable, TableOK, Passes, RecordedFor, Full, Denies, Conflicts, HeldClasses,
                syncVars, contextVars, lockdepVars
  <2> QED
    BY <2>1, <2>2
<1> QED
  BY <1>1, <1>2, BaseInvariant, PTL DEF SyncSpec

-----------------------------------------------------------------------------
(* No lost wakeup.                                                         *)

Matched(s) == waiters[s] # <<>> => value[s] <= Cardinality(WokenFor(s))

LEMMA WokenFinite ==
  ASSUME NEW T \in SUBSET Ctx
  PROVE  IsFiniteSet(T) /\ Cardinality(T) \in Nat
<1>1. IsFiniteSet(Ctx)
  BY FS_Interval, LockdepAssumption DEF Ctx, LockdepAssumption
<1> QED
  BY <1>1, FS_Subset, FS_CardinalityType

(* What a call of c on the semaphore at a does to the contexts.            *)
OnlyCaller(c, a, s) ==
  /\ pc' \in {pc, [pc EXCEPT ![c] = "user"], [pc EXCEPT ![c] = a]}
  /\ mem' = mem
  /\ \A d \in Ctx : d = c \/ d \in AsleepOn(s) \/ blocked'[d] = blocked[d]

(* A call on a semaphore moves only its caller, and to that semaphore.     *)
LEMMA WokenAround ==
  ASSUME SyncBase, QueuesMatchSleepers, NoLostWakeup,
         NEW c \in Ctx, NEW a \in Addr, NEW s \in Sem, s = mem[c][a],
         pc[c] \in {"user", a}, OnlyCaller(c, a, s),
         NEW t \in Sem \ {s}, waiters'[t] = waiters[t], value'[t] = value[t]
  PROVE  Matched(t)'
<1>1. \A d \in Ctx : d # c => pc'[d] = pc[d]
  BY DEF SyncBase, SyncTypeOK, OnlyCaller
<1>2. ~StoppedAt(c, t) /\ ~StoppedAt(c, t)'
  BY SyncAssumption DEF SyncBase, SyncTypeOK, StoppedAt, SyncAssumption, OnlyCaller
<1>3. WokenFor(t)' = WokenFor(t)
  BY <1>1, <1>2 DEF WokenFor, AsleepOn, StoppedAt, OnlyCaller
<1> QED
  BY <1>3 DEF NoLostWakeup, Matched

(* The waiter a post or a release wakes is one more on its way.            *)
LEMMA WakeMatched ==
  ASSUME SyncBase, QueuesMatchSleepers, NoLostWakeup,
         NEW s \in Sem, Wake(s), UNCHANGED <<pc, mem>>,
         value'[s] = value[s] + 1 \/ value'[s] = 1,
         \A t \in Sem \ {s} : value'[t] = value[t]
  PROVE  \A t \in Sem : Matched(t)'
<1> DEFINE h == Head(waiters[s])
<1>0. /\ waiters \in [Sem -> Seq(Ctx)] /\ waiters[s] \in Seq(Ctx)
      /\ blocked \in [Ctx -> {Ready, Asleep, Exited}] /\ value[s] \in Nat
  BY DEF SyncBase, SyncTypeOK
<1>1. CASE waiters[s] = <<>>
  <2>1. waiters' = waiters /\ blocked' = blocked
    BY <1>1 DEF Wake
  <2>2. \A t \in Sem : WokenFor(t)' = WokenFor(t)
    BY <2>1 DEF WokenFor, StoppedAt
  <2> QED
    BY <1>1, <2>1, <2>2 DEF NoLostWakeup, Matched
<1>2. CASE waiters[s] # <<>>
  <2>1. h \in Ctx /\ h \in AsleepOn(s)
    <3>1. h \in ToSet(waiters[s])
      BY <1>0, <1>2 DEF ToSet
    <3> QED
      BY <1>0, <1>2, <3>1, QueueFacts
  <2>2. h \in Live
    BY <2>1 DEF SyncBase, SyncTypeOK, Fresh, LiveIds, AsleepOn, Ctx, Ready, Asleep
  <2>3. /\ waiters' = [waiters EXCEPT ![s] = Tail(@)]
        /\ blocked' = [blocked EXCEPT ![h] = Ready]
    BY <1>2, <2>2 DEF Wake
  <2>4. \A d \in Ctx : blocked'[d] = IF d = h THEN Ready ELSE blocked[d]
    BY <1>0, <2>1, <2>3
  <2> HIDE DEF h
  <2>5. WokenFor(s)' = WokenFor(s) \cup {h} /\ h \notin WokenFor(s)
    BY <2>1, <2>4 DEF AsleepOn, WokenFor, StoppedAt, Ready, Asleep
  <2>6. WokenFor(s) \in SUBSET Ctx
    BY DEF WokenFor
  <2>7. Cardinality(WokenFor(s)') = Cardinality(WokenFor(s)) + 1 /\ Cardinality(WokenFor(s)) \in Nat
    BY <2>5, <2>6, WokenFinite, FS_AddElement
  <2>8. value[s] <= Cardinality(WokenFor(s))
    BY <1>2 DEF NoLostWakeup
  <2>9. Matched(s)'
    BY <1>0, <2>7, <2>8 DEF Matched
  <2>10. ASSUME NEW t \in Sem \ {s}
         PROVE  Matched(t)'
    <3>1. WokenFor(t)' = WokenFor(t)
      BY <2>1, <2>4 DEF AsleepOn, WokenFor, StoppedAt
    <3>2. waiters'[t] = waiters[t]
      BY <1>0, <2>3
    <3> QED
      BY <3>1, <3>2 DEF NoLostWakeup, Matched
  <2> QED
    BY <2>9, <2>10
<1> QED
  BY <1>1, <1>2

(* A context takes a unit: it was woken for it, or it came first and the   *)
(* one woken will sleep again.                                             *)
LEMMA GoneMatched ==
  ASSUME SyncBase, QueuesMatchSleepers, NoLostWakeup,
         NEW c \in Ctx, NEW a \in Addr, NEW s \in Sem, s = mem[c][a],
         pc[c] \in {"user", a}, Return(c), UNCHANGED <<mem, blocked, waiters>>,
         value[s] > 0, value'[s] = value[s] - 1 \/ value'[s] = 0,
         \A t \in Sem \ {s} : value'[t] = value[t]
  PROVE  \A t \in Sem : Matched(t)'
<1>1. \A t \in Sem \ {s} : Matched(t)'
  <2>1. OnlyCaller(c, a, s)
    BY DEF Return, OnlyCaller
  <2> QED
    BY <2>1, WokenAround
<1>2. WokenFor(s) \ {c} \subseteq WokenFor(s)'
  BY DEF SyncBase, SyncTypeOK, Return, WokenFor, StoppedAt
<1>3. /\ WokenFor(s) \in SUBSET Ctx /\ WokenFor(s)' \in SUBSET Ctx
      /\ value[s] \in Nat
  BY DEF WokenFor, SyncBase, SyncTypeOK
<1>4. /\ Cardinality(WokenFor(s)) \in Nat /\ Cardinality(WokenFor(s)') \in Nat
      /\ Cardinality(WokenFor(s)) - 1 <= Cardinality(WokenFor(s) \ {c})
      /\ Cardinality(WokenFor(s) \ {c}) <= Cardinality(WokenFor(s)')
  BY <1>2, <1>3, WokenFinite, FS_RemoveElement, FS_Subset
<1>5. Matched(s)'
  <2>1. waiters[s] # <<>> => value[s] <= Cardinality(WokenFor(s))
    BY DEF NoLostWakeup
  <2>2. WokenFor(s) \ {c} \in SUBSET Ctx
    BY <1>3
  <2>3. Cardinality(WokenFor(s) \ {c}) \in Nat
    BY <2>2, WokenFinite
  <2>4. waiters'[s] # <<>> => value'[s] <= Cardinality(WokenFor(s)')
    BY <1>3, <1>4, <2>1, <2>3
  <2> QED
    BY <2>4 DEF Matched
<1> QED
  BY <1>1, <1>5

LEMMA SleepMatched ==
  ASSUME SyncBase, QueuesMatchSleepers, NoLostWakeup,
         NEW c \in Ctx, NEW a \in Addr, NEW s \in Sem, s = mem[c][a],
         pc[c] \in {"user", a}, Sleep(c, a, s), UNCHANGED <<mem, value>>, value[s] = 0
  PROVE  \A t \in Sem : Matched(t)'
<1>1. /\ \A t \in Sem \ {s} : waiters'[t] = waiters[t]
      /\ \A d \in Ctx \ {c} : blocked'[d] = blocked[d]
  BY DEF SyncBase, SyncTypeOK, Sleep
<1>2. ASSUME NEW t \in Sem \ {s}
      PROVE  Matched(t)'
  <2>1. OnlyCaller(c, a, s)
    BY <1>1 DEF Sleep, OnlyCaller
  <2>2. waiters'[t] = waiters[t] /\ value'[t] = value[t]
    BY <1>1
  <2> QED
    BY <2>1, <2>2, WokenAround
<1>3. WokenFor(s)' \in SUBSET Ctx
  BY DEF WokenFor
<1>4. Matched(s)'
  BY <1>3, WokenFinite DEF Matched
<1> QED
  BY <1>2, <1>4

(* lockdep lets a call that is executed again pass: it found every edge it *)
(* needs in the graph, or recorded it, the first time.                     *)
LEMMA RetryPasses ==
  ASSUME Passable, NEW c \in Ctx, NEW a \in Addr, pc[c] = a
  PROVE  ~Denies(c, a)
BY DEF Passable, Passes, RecordedFor, Denies, Conflicts

LEMMA CallMatched ==
  ASSUME SyncBase, Ids, QueuesMatchSleepers, Passable, NoLostWakeup,
         NEW c \in Ctx, Fork(c) \/ Exit(c) \/ ObjectCall(c)
  PROVE  NoLostWakeup'
<1>0. /\ SemAddr \subseteq Addr /\ LockAddr \subseteq Addr
      /\ "user" \notin Addr /\ "exit" \notin Addr
      /\ pc \in [Ctx -> Addr \cup {"user", "exit"}] /\ value \in [Sem -> Nat]
      /\ blocked \in [Ctx -> {Ready, Asleep, Exited}] /\ waiters \in [Sem -> Seq(Ctx)]
      /\ mem \in [Ctx -> [Addr -> Sem \cup {Unset}]]
  BY SyncAssumption DEF SyncAssumption, SyncBase, SyncTypeOK
<1>1. NoLostWakeup' <=> \A t \in Sem : Matched(t)'
  BY DEF NoLostWakeup, Matched
(* Where the contexts that are stopped, and what they are stopped at, stay. *)
<1>2. ASSUME UNCHANGED <<waiters, value, blocked>>,
             \A d \in Ctx : /\ pc[d] \in Addr <=> pc'[d] \in Addr
                            /\ pc[d] \in Addr => pc'[d] = pc[d] /\ mem'[d] = mem[d]
      PROVE  \A t \in Sem : Matched(t)'
  <2>1. ASSUME NEW t \in Sem
        PROVE  WokenFor(t)' = WokenFor(t)
    BY <1>2 DEF WokenFor, StoppedAt
  <2> QED
    BY <1>2, <2>1 DEF NoLostWakeup, Matched
<1>3. CASE Fork(c)
  <2>1. nextCtx \in Ctx /\ pc[nextCtx] = "user"
    BY <1>3, LockdepAssumption DEF SyncBase, SyncTypeOK, Fork, Ctx, Fresh, LockdepAssumption
  <2>2. \A d \in Ctx : d # nextCtx => mem'[d] = mem[d]
    BY <1>0, <1>3 DEF Fork
  <2> QED
    BY <1>0, <1>1, <1>2, <1>3, <2>1, <2>2 DEF Fork
<1>4. CASE Exit(c)
  <2>1. \A d \in Ctx : d # c => blocked'[d] = blocked[d] /\ pc'[d] = pc[d]
    BY <1>0, <1>4 DEF Exit
  <2>2. pc[c] \notin Addr /\ pc'[c] \notin Addr
    BY <1>0, <1>4 DEF Exit
  <2>3. UNCHANGED <<waiters, value, mem>>
    BY <1>4 DEF Exit, objectVars
  <2>4. ASSUME NEW t \in Sem
        PROVE  WokenFor(t)' = WokenFor(t)
    BY <2>1, <2>2, <2>3 DEF WokenFor, StoppedAt
  <2> QED
    BY <2>3, <2>4 DEF NoLostWakeup, Matched
<1>5. ASSUME NEW a \in Addr, NEW v, Create(c, a, v)
      PROVE  \A t \in Sem : Matched(t)'
  <2>1. \A d \in Ctx : d # c => mem'[d] = mem[d]
    BY <1>0, <1>5 DEF Create
  <2>2. pc[c] \notin Addr /\ UNCHANGED <<pc, blocked>>
    BY <1>0, <1>5 DEF Create, contextVars
  <2>3. ASSUME NEW t \in Sem
        PROVE  WokenFor(t)' = WokenFor(t)
    BY <2>1, <2>2 DEF WokenFor, StoppedAt
  <2>4. ASSUME NEW t \in Sem
        PROVE  waiters'[t] = <<>> \/ (waiters'[t] = waiters[t] /\ value'[t] = value[t])
    BY <1>0, <1>5 DEF Create
  <2> QED
    BY <2>3, <2>4 DEF NoLostWakeup, Matched
<1>6. ASSUME NEW a \in SemAddr, SemInit(c, a)
      PROVE  \A t \in Sem : Matched(t)'
  BY <1>0, <1>5, <1>6 DEF SemInit
<1>7. ASSUME NEW a \in LockAddr, LockInit(c, a)
      PROVE  \A t \in Sem : Matched(t)'
  BY <1>0, <1>5, <1>7 DEF LockInit
<1>8. ASSUME NEW a \in Addr, Refuse(c, a), AtCall(c, a)
      PROVE  \A t \in Sem : Matched(t)'
  <2>1. pc[c] = "user"
    BY <1>8, RetryPasses DEF AtCall, Refuse, LockdepDeny
  <2>2. pc' = pc /\ UNCHANGED <<waiters, value, blocked, mem>>
    BY <1>0, <1>8, <2>1 DEF Refuse, Return, objectVars
  <2> QED
    BY <1>2, <2>2
<1>9. ASSUME NEW a \in SemAddr, SemWait(c, a)
      PROVE  \A t \in Sem : Matched(t)'
  <2> DEFINE s == mem[c][a]
  <2>1. s \in Sem /\ pc[c] \in {"user", a} /\ a \in Addr
    BY <1>0, <1>9, CallType DEF SyncBase, SemWait, AtCall
  <2>2. CASE Refuse(c, a)
    BY <1>8, <1>9, <2>1, <2>2 DEF SemWait
  <2>3. CASE ~Refuse(c, a) /\ value[s] > 0
    <3>1. Return(c) /\ UNCHANGED <<mem, blocked, waiters>> /\ value' = [value EXCEPT ![s] = @ - 1]
      BY <1>9, <2>3 DEF SemWait
    <3>2. value'[s] = value[s] - 1 /\ \A t \in Sem \ {s} : value'[t] = value[t]
      BY <1>0, <2>1, <3>1
    <3> HIDE DEF s
    <3> QED
      BY <2>1, <2>3, <3>1, <3>2, GoneMatched DEF s
  <2>4. CASE ~Refuse(c, a) /\ value[s] = 0
    <3>1. Sleep(c, a, s) /\ UNCHANGED <<mem, value>>
      BY <1>9, <2>4 DEF SemWait
    <3> QED
      BY <2>1, <2>4, <3>1, SleepMatched
  <2> QED
    BY <1>0, <2>1, <2>2, <2>3, <2>4
<1>10. ASSUME NEW a \in LockAddr, LockAcquire(c, a)
       PROVE  \A t \in Sem : Matched(t)'
  <2> DEFINE s == mem[c][a]
  <2>1. s \in Sem /\ pc[c] \in {"user", a} /\ a \in Addr
    BY <1>0, <1>10, CallType DEF SyncBase, LockAcquire, AtCall
  <2>2. CASE Refuse(c, a)
    BY <1>8, <1>10, <2>1, <2>2 DEF LockAcquire
  <2>3. CASE ~Refuse(c, a) /\ Take(c, a, s)
    <3>1. /\ Return(c) /\ UNCHANGED <<mem, blocked, waiters>> /\ value[s] > 0
          /\ value' = [value EXCEPT ![s] = 0]
      BY <1>10, <2>3 DEF LockAcquire, Take
    <3>2. value'[s] = 0 /\ \A t \in Sem \ {s} : value'[t] = value[t]
      BY <1>0, <2>1, <3>1
    <3> HIDE DEF s
    <3> QED
      BY <2>1, <3>1, <3>2, GoneMatched DEF s
  <2>4. CASE ~Refuse(c, a) /\ ~Take(c, a, s)
    <3>1. Sleep(c, a, s) /\ UNCHANGED <<mem, value>> /\ value[s] = 0
      BY <1>10, <2>4 DEF LockAcquire
    <3> QED
      BY <2>1, <3>1, SleepMatched
  <2> QED
    BY <2>2, <2>3, <2>4
<1>11. ASSUME NEW a \in SemAddr, SemPost(c, a)
       PROVE  \A t \in Sem : Matched(t)'
  <2> DEFINE s == mem[c][a]
  <2>1. s \in Sem
    BY <1>0, <1>11, CallType DEF SyncBase, SemPost
  <2>2. Wake(s) /\ UNCHANGED <<pc, mem>> /\ value' = [value EXCEPT ![s] = @ + 1]
    BY <1>11 DEF SemPost
  <2>3. value'[s] = value[s] + 1 /\ \A t \in Sem \ {s} : value'[t] = value[t]
    BY <1>0, <2>1, <2>2
  <2> HIDE DEF s
  <2> QED
    BY <2>1, <2>2, <2>3, WakeMatched
<1>12. ASSUME NEW a \in LockAddr, LockRelease(c, a)
       PROVE  \A t \in Sem : Matched(t)'
  <2> DEFINE s == mem[c][a]
  <2>1. s \in Sem
    BY <1>0, <1>12, CallType DEF SyncBase, Initialised, LockRelease
  <2>2. Wake(s) /\ UNCHANGED <<pc, mem>> /\ value' = [value EXCEPT ![s] = 1]
    BY <1>12 DEF LockRelease
  <2>3. value'[s] = 1 /\ \A t \in Sem \ {s} : value'[t] = value[t]
    BY <1>0, <2>1, <2>2
  <2> HIDE DEF s
  <2> QED
    BY <2>1, <2>2, <2>3, WakeMatched
<1> QED
  BY <1>1, <1>3, <1>4, <1>6, <1>7, <1>9, <1>10, <1>11, <1>12 DEF ObjectCall

LEMMA InitWakeups == SyncInit => NoLostWakeup
BY DEF SyncInit, NoLostWakeup

(* No wakeup is lost: while contexts sleep on a semaphore, each unit of    *)
(* its value has a woken context on its way to it.  A post wakes one       *)
(* waiter and hands it nothing, so the invariant rests on no woken context *)
(* being turned away, by lockdep least of all, before it has looked.       *)
THEOREM WakeupsReachWaiters == SyncSpec => []NoLostWakeup
<1>1. SyncInit => NoLostWakeup
  BY InitWakeups
<1>2. SyncBase /\ Ids /\ QueuesMatchSleepers /\ Passable /\ NoLostWakeup /\ [SyncNext]_syncVars
        => NoLostWakeup'
  <2> SUFFICES ASSUME SyncBase, Ids, QueuesMatchSleepers, Passable, NoLostWakeup, [SyncNext]_syncVars
               PROVE  NoLostWakeup'
    OBVIOUS
  <2>1. CASE SyncNext
    BY <2>1, CallKinds, CallMatched DEF SyncNext
  <2>2. CASE UNCHANGED syncVars
    <3>1. UNCHANGED <<waiters, value, blocked, pc, mem>>
      BY <2>2 DEF syncVars, contextVars, objectVars
    <3>2. \A s \in Sem : WokenFor(s)' = WokenFor(s)
      BY <3>1 DEF WokenFor, StoppedAt
    <3> QED
      BY <3>1, <3>2 DEF NoLostWakeup
  <2> QED
    BY <2>1, <2>2
<1> QED
  BY <1>1, <1>2, BaseInvariant, IdsInvariant, QueuesCorrect, PassableInvariant, PTL DEF SyncSpec

-----------------------------------------------------------------------------
(* No circular wait.  A context asleep on a lock another sleeper holds     *)
(* means an edge between the locks they are asleep on; a circle of waiting *)
(* contexts would be a set of locks each with a successor in the set, and  *)
(* a finite acyclic graph has none.                                        *)

Outside == \A d \in Ctx : pc[d] \in Addr => pc[d] \notin entered[d]

LEMMA CallOutside ==
  ASSUME ~Reentrant, SyncBase, Outside, NEW c \in Ctx, Fork(c) \/ Exit(c) \/ ObjectCall(c)
  PROVE  Outside'
<1>0. /\ SemAddr \subseteq Addr /\ LockAddr \subseteq Addr /\ SemAddr \cap LockAddr = {}
      /\ "user" \notin Addr /\ "exit" \notin Addr
      /\ pc \in [Ctx -> Addr \cup {"user", "exit"}] /\ entered \in [Ctx -> SUBSET LockAddr]
  BY SyncAssumption DEF SyncAssumption, SyncBase, SyncTypeOK
<1>1. CASE Fork(c)
  BY <1>1 DEF Fork, Outside, historyVars
<1>2. CASE ~Fork(c)
  <2>1. \A d \in Ctx \ {c} : pc'[d] = pc[d] /\ entered'[d] = entered[d]
    BY <1>2, CallFrame DEF OthersKept, SyncBase
  <2> SUFFICES ASSUME pc'[c] \in Addr
               PROVE  pc'[c] \notin entered'[c]
    BY <2>1 DEF Outside
  <2>2. CASE Exit(c)
    BY <1>0, <2>2 DEF Exit
  <2>3. ASSUME NEW a \in Addr, NEW v, Create(c, a, v)
        PROVE  pc'[c] \notin entered'[c]
    BY <2>3 DEF Create, Outside, contextVars, historyVars
  <2>4. ASSUME NEW a \in SemAddr, SemInit(c, a) \/ SemWait(c, a) \/ SemPost(c, a)
        PROVE  pc'[c] \notin entered'[c]
    <3>1. entered' = entered
      BY <2>4 DEF SemInit, Create, SemWait, SemPost, historyVars
    <3>2. pc'[c] \in {pc[c], "user", a}
      BY <1>0, <2>4 DEF SemInit, Create, SemWait, Refuse, Return, Sleep, SemPost, contextVars
    <3> QED
      BY <1>0, <3>1, <3>2 DEF Outside
  <2>5. ASSUME NEW a \in LockAddr, LockInit(c, a)
        PROVE  pc'[c] \notin entered'[c]
    BY <1>0, <2>3, <2>5 DEF LockInit
  <2>6. ASSUME NEW a \in LockAddr, LockAcquire(c, a)
        PROVE  pc'[c] \notin entered'[c]
    <3>1. Sleep(c, a, mem[c][a]) /\ entered' = entered
      BY <1>0, <2>6 DEF LockAcquire, Refuse, Take, Return
    <3>2. pc'[c] = a /\ a \notin entered[c]
      BY <1>0, <2>6, <3>1 DEF LockAcquire, AtCall, Sleep, Outside
    <3> QED
      BY <3>1, <3>2
  <2>7. ASSUME NEW a \in LockAddr, LockRelease(c, a)
        PROVE  pc'[c] \notin entered'[c]
    BY <1>0, <2>7 DEF LockRelease, Outside
  <2> QED
    BY <1>2, <2>2, <2>4, <2>5, <2>6, <2>7 DEF ObjectCall
<1> QED
  BY <1>1, <1>2

(* An acyclic graph has no finite set of classes each of which leads to    *)
(* another of the set: the least set closed under one choice of successors *)
(* would consist of successors only.                                       *)
LEMMA SomeLeadsOut ==
  ASSUME GraphAcyclic, NEW S \in SUBSET Addr, S # {},
         \A x \in S : \E y \in S : <<x, y>> \in graph
  PROVE  FALSE
<1> DEFINE f == [x \in S |-> CHOOSE y \in S : <<x, y>> \in graph]
           C == {U \in SUBSET S : U # {} /\ \A x \in U : f[x] \in U}
<1>1. \A x \in S : f[x] \in S /\ <<x, f[x]>> \in graph
  OBVIOUS
<1>2. S \in C
  BY <1>1
<1>3. C \subseteq FiniteSubsetsOf(Addr)
  BY LockdepAssumption, FS_Subset DEF FiniteSubsetsOf, LockdepAssumption
<1> HIDE DEF f
<1>4. PICK U \in C : \A V \in C : <<V, U>> \notin StrictSubsetOrdering(Addr)
  <2> HIDE DEF C
  <2> QED
    BY <1>2, <1>3, FS_StrictSubsetOrderingWellFounded, WFMin
<1> DEFINE V == {f[x] : x \in U}
<1>5. V \in C /\ V \subseteq U /\ U \subseteq Addr
  BY <1>4
<1>6. V = U
  BY <1>4, <1>5 DEF StrictSubsetOrdering
<1>7. \A y \in U : \E x \in U : <<x, y>> \in graph
  BY <1>1, <1>4, <1>6
<1> QED
  BY <1>4, <1>5, <1>7 DEF GraphAcyclic

LEMMA NoCircle ==
  ASSUME SyncBase, Ids, Exclusion, Tracked, Outside, GraphAcyclic
  PROVE  NoCircularWait
<1> SUFFICES ASSUME ~denied, ~dropped, NEW T \in SUBSET Ctx, T # {},
                    \A c \in T : \E d \in T : WaitsFor(c, d)
             PROVE  FALSE
  BY DEF NoCircularWait
<1>1. ASSUME NEW c \in T
      PROVE  pc[c] \in Addr /\ \E d \in T : pc[c] \in entered[d]
  <2>1. PICK d \in T : WaitsFor(c, d)
    OBVIOUS
  <2>2. pc[c] \in Addr /\ mem[c][pc[c]] \in granted[d]
    BY <2>1 DEF WaitsFor, AsleepOn, StoppedAt
  <2> QED
    BY <2>2, SameAddress
<1>2. ASSUME NEW c \in T
      PROVE  \E d \in T : <<pc[c], pc[d]>> \in graph
  <2>1. PICK d \in T : pc[c] \in entered[d]
    BY <1>1
  <2>2. pc[d] \in Addr /\ pc[d] # pc[c]
    BY <1>1, <2>1 DEF Outside
  <2>3. pc[c] \in HeldClasses(d)
    BY <2>1 DEF Tracked, Entries, Own, HeldClasses, ToSet
  <2> QED
    BY <2>2, <2>3 DEF Tracked, Registered, RecordedFor
<1> DEFINE S == {pc[c] : c \in T}
<1>3. S \in SUBSET Addr /\ S # {}
  BY <1>1
<1>4. \A x \in S : \E y \in S : <<x, y>> \in graph
  BY <1>2
<1> HIDE DEF S
<1> QED
  BY <1>3, <1>4, SomeLeadsOut

(* What lockdep promises holds for programs that do not acquire a lock     *)
(* they are in (which lockdep cannot see: it ignores an edge from a class  *)
(* to itself): until it forgets or refuses something, no set of contexts   *)
(* waits in a circle, however forked contexts share their held lists.      *)
THEOREM NobodyWaitsInCircles ==
  ASSUME ~Reentrant PROVE SyncSpec => []NoCircularWait
<1>1. SyncInit => Outside /\ Exclusion
  BY DEF SyncInit, Outside, Exclusion, Owned, MutualExclusion
<1>2. SyncBase /\ Ids /\ Exclusion /\ Outside /\ [SyncNext]_syncVars => Exclusion' /\ Outside'
  <2> SUFFICES ASSUME SyncBase, Ids, Exclusion, Outside, [SyncNext]_syncVars
               PROVE  Exclusion' /\ Outside'
    OBVIOUS
  <2>1. CASE SyncNext
    BY <2>1, CallKinds, CallExclusion, CallOutside DEF SyncNext
  <2>2. CASE UNCHANGED syncVars
    BY <2>2 DEF Exclusion, Owned, MutualExclusion, Outside,
                syncVars, contextVars, objectVars, historyVars
  <2> QED
    BY <2>1, <2>2
<1>3. SyncBase /\ Ids /\ Exclusion /\ Tracked /\ Outside /\ GraphAcyclic => NoCircularWait
  BY NoCircle
<1> QED
  BY <1>1, <1>2, <1>3, BaseInvariant, IdsInvariant, TrackedInvariant, GraphStaysAcyclic, PTL
  DEF SyncSpec

-----------------------------------------------------------------------------
(* mipster and its schedulers.                                             *)

LEMMA Scheduled ==
  ASSUME NEW c \in Ctx, PlainCall(c) \/ LockCall(c), SyncBase, c \in Live
  PROVE  SyncBase'
  BY CallKinds, CallType2, ForkBase, OtherBase DEF SyncBase

LEMMA DispatchBase ==
  ASSUME SyncBase, cur \in Ctx, cur \in Live, Dispatch
  PROVE  SyncBase'
<1>1. CASE UNCHANGED syncVars
  BY <1>1 DEF SyncBase, SyncTypeOK, LockdepTypeOK, LiveIds, Live, Fresh, Initialised,
              syncVars, contextVars, objectVars, historyVars, lockdepVars
<1>2. CASE PlainCall(cur) \/ LockCall(cur)
  BY <1>2, Scheduled
<1> QED
  BY <1>1, <1>2 DEF Dispatch, Pause

LEMMA DispatchIds ==
  ASSUME SyncBase, cur \in Ctx, Dispatch
  PROVE  nextCtx' = nextCtx \/ nextCtx' = nextCtx + 1
<1>1. CASE UNCHANGED syncVars
  BY <1>1 DEF syncVars, contextVars
<1>2. CASE Fork(cur)
  BY <1>2 DEF Fork
<1>3. CASE Exit(cur) \/ ObjectCall(cur)
  BY <1>3, CallFrame DEF OthersKept, SyncBase
<1> QED
  BY <1>1, <1>2, <1>3, CallKinds DEF Dispatch, Pause

-----------------------------------------------------------------------------
(* The invariant of the loop: the context it runs exists, and under round  *)
(* robin it is ready.                                                      *)
Current ==
  /\ cur \in Ctx /\ cur \in Live
  /\ scheduler = "rr" /\ status = "running" => blocked[cur] = Ready

Looping ==
  /\ scheduler \in Schedulers
  /\ status \in {"running", "returned", "failed", "spinning", "wild"}
  /\ vruntime \in [Ctx -> 0..MaxRuntime]

KernelBase == SyncBase /\ Current /\ Looping

LEMMA Booted ==
  ASSUME KernelInit
  PROVE  KernelBase
<1>1. Boot \in 1..MaxCtx /\ MaxCtx \in Nat /\ MaxRuntime \in Nat
  BY SyncAssumption, LockdepAssumption, KernelAssumption
     DEF SyncAssumption, LockdepAssumption, KernelAssumption
<1>2. used = [i \in 1..Boot |-> Boot - i] /\ 1 \in DOMAIN used /\ Head(used) = used[1]
  BY <1>1 DEF KernelInit, SyncInit
<1>3. cur = Boot - 1 /\ cur \in Live
  BY <1>1, <1>2 DEF KernelInit, Live, ToSet
<1>4. Current
  BY <1>1, <1>3 DEF KernelInit, SyncInit, Current, Ctx
<1>5. Looping
  BY <1>1 DEF KernelInit, Looping
<1> QED
  BY <1>4, <1>5, InitBase DEF KernelInit, KernelBase

(* Whatever the scheduler returns is on used_contexts.                     *)
LEMMA ListedLives ==
  ASSUME SyncBase', NEW d \in ToSet(used')
  PROVE  d \in Ctx /\ d \in Live'
<1>1. used' \in Seq(Ctx)
  BY DEF SyncBase, SyncTypeOK
<1> QED
  BY <1>1 DEF ToSet, Live

LEMMA HeadLives ==
  ASSUME SyncBase', Live' # {}
  PROVE  Head(used') \in ToSet(used')
<1>1. used' \in Seq(Ctx)
  BY DEF SyncBase, SyncTypeOK
<1>2. used' # <<>>
  BY DEF Live, ToSet
<1> QED
  BY <1>1, <1>2 DEF ToSet

LEMMA StillLives ==
  ASSUME KernelBase, Dispatch, SyncBase'
  PROVE  cur \in Live'
<1>1. nextCtx \in Nat /\ (nextCtx' = nextCtx \/ nextCtx' = nextCtx + 1)
  BY DispatchIds DEF KernelBase, Current, SyncBase, SyncTypeOK
<1>2. Live = 0..(nextCtx - 1) /\ Live' = 0..(nextCtx' - 1)
  BY DEF KernelBase, SyncBase, LiveIds
<1> QED
  BY <1>1, <1>2 DEF KernelBase, Current

LEMMA CopiedTime ==
  ASSUME KernelBase, Dispatch
  PROVE  Copied \in [Ctx -> 0..MaxRuntime] /\ Copied[cur] < MaxRuntime
<1>1. vruntime \in [Ctx -> 0..MaxRuntime] /\ cur \in Ctx /\ vruntime[cur] < MaxRuntime
  BY DEF KernelBase, Looping, Current, Dispatch
<1>2. cur # nextCtx
  BY DEF KernelBase, Current, SyncBase, SyncTypeOK, LiveIds
<1> QED
  BY <1>1, <1>2 DEF Copied

LEMMA ScheduleBase ==
  ASSUME KernelBase, Dispatch, SyncBase'
  PROVE  Current' /\ Looping'
<1> DEFINE V == Copied
<1>1. MaxRuntime \in Nat /\ status = "running" /\ Schedule /\ UNCHANGED scheduler
  BY KernelAssumption DEF KernelAssumption, Dispatch
<1>2. V \in [Ctx -> 0..MaxRuntime] /\ V[cur] < MaxRuntime
  BY CopiedTime
<1>3. ASSUME NEW d \in Runnable(used', blocked')
      PROVE  d \in Ctx /\ d \in Live' /\ blocked'[d] = Ready
  BY <1>3, ListedLives DEF Runnable
<1>4. cur \in Ctx /\ cur \in Live' /\ Head(used') \in Ctx /\ Head(used') \in Live'
  BY StillLives, HeadLives, ListedLives DEF KernelBase, Current
<1>5. ASSUME NEW W \in [Ctx -> 0..MaxRuntime], W[cur] < MaxRuntime
      PROVE  [W EXCEPT ![cur] = @ + 1] \in [Ctx -> 0..MaxRuntime]
  BY <1>1, <1>4, <1>5
<1>6. CASE scheduler = "rr" /\ RoundRobin(used', blocked')
  BY <1>1, <1>3, <1>4, <1>6 DEF RoundRobin, Stay, Current, Looping, KernelBase
<1>7. CASE scheduler = "random" /\ Random(used', blocked')
  BY <1>1, <1>3, <1>4, <1>7 DEF Random, NoneRunnable, Stay, Current, Looping, KernelBase
<1>8. CASE scheduler = "cfs" /\ Fair(used', blocked', held', V)
  <2>1. vruntime' \in [Ctx -> 0..MaxRuntime]
    BY <1>2, <1>5, <1>8 DEF Fair, Stay, Looping, KernelBase
  <2> QED
    BY <1>1, <1>3, <1>4, <1>8, <2>1 DEF Fair, Stay, Current, Looping, KernelBase
<1> QED
  BY <1>1, <1>6, <1>7, <1>8 DEF Schedule

LEMMA KernelInduct ==
  ASSUME KernelBase, [KernelNext]_kernelVars
  PROVE  KernelBase'
<1>1. CASE Dispatch
  BY <1>1, DispatchBase, ScheduleBase DEF KernelBase, Current
<1>2. CASE /\ UNCHANGED <<syncVars, scheduler, cur, vruntime>>
           /\ status' \in {status, "failed", "wild"}
  BY <1>2 DEF KernelBase, Current, Looping, SyncBase, SyncTypeOK, LockdepTypeOK, LiveIds,
              Live, Fresh, Initialised, syncVars, contextVars, objectVars, historyVars,
              lockdepVars
<1> QED
  BY <1>1, <1>2 DEF KernelNext, Fault, Stray, Stopped, kernelVars

LEMMA KernelInvariant == KernelSpec => []KernelBase
BY Booted, KernelInduct, PTL DEF KernelSpec

(* For any number of contexts, locks and semaphores, and whatever the      *)
(* scheduler, mipster runs a context that exists and counts its time slices*)
(* within the bound, and the calls keep their types.                       *)
THEOREM KernelTypeCorrect == KernelSpec => []KernelTypeOK
<1>1. KernelBase => KernelTypeOK
  BY DEF KernelBase, Current, Looping, SyncBase, KernelTypeOK
<1> QED
  BY <1>1, KernelInvariant, PTL

(* Round robin mipster implements Sync: in every step it either runs one   *)
(* call of a context that is ready, or leaves all contexts, locks and      *)
(* semaphores alone.  (The other schedulers do not: they fall back on the  *)
(* head of the list when nobody is ready.)                                 *)
THEOREM RoundRobinImplementsSync == KernelSpec => RoundRobinIsSync
<1>1. KernelInit => SyncInit
  BY DEF KernelInit
<1>2. KernelBase /\ [KernelNext]_kernelVars => [scheduler = "rr" => SyncNext]_syncVars
  <2> SUFFICES ASSUME KernelBase, KernelNext, scheduler = "rr" PROVE [SyncNext]_syncVars
    BY DEF kernelVars
  <2>1. CASE Dispatch
    BY <2>1 DEF Dispatch, Pause, KernelBase, Current, SyncNext
  <2> QED
    BY <2>1 DEF KernelNext, Fault, Stray, Stopped, kernelVars
<1> QED
  BY <1>1, <1>2, KernelInvariant, PTL DEF KernelSpec, RoundRobinIsSync

(* With the random and the fair scheduler mipster reports success only     *)
(* when every context has exited.  (Round robin does not keep this.)       *)
THEOREM ReturnsAfterAllExits == KernelSpec => []EarlyReturnOnlyRoundRobin
<1> USE DEF EarlyReturnOnlyRoundRobin
<1>1. KernelInit => EarlyReturnOnlyRoundRobin
  BY DEF KernelInit, ReturnsWhenAllExited
<1>2. EarlyReturnOnlyRoundRobin /\ [KernelNext]_kernelVars => EarlyReturnOnlyRoundRobin'
  <2> SUFFICES ASSUME EarlyReturnOnlyRoundRobin, [KernelNext]_kernelVars, scheduler' # "rr"
               PROVE  ReturnsWhenAllExited'
    OBVIOUS
  <2>1. CASE Dispatch
    <3>1. status = "running" /\ scheduler # "rr"
      BY <2>1 DEF Dispatch
    <3>2. status' = "running" \/ AllExited(used', blocked')
      BY <2>1, <3>1 DEF Dispatch, Schedule, Random, NoneRunnable, Fair, Stay
    <3> QED
      BY <3>2 DEF ReturnsWhenAllExited, AllExited, Live
  <2>2. CASE Fault \/ Stray
    BY <2>2 DEF Fault, Stray, ReturnsWhenAllExited
  <2>3. CASE UNCHANGED <<used, blocked, status, scheduler>>
    BY <2>3 DEF ReturnsWhenAllExited, Live
  <2> QED
    BY <2>1, <2>2, <2>3 DEF KernelNext, Stopped, kernelVars, syncVars, contextVars
<1> QED
  BY <1>1, <1>2, PTL DEF KernelSpec

-----------------------------------------------------------------------------
(* When nobody can go on.  The random and the fair scheduler then run the  *)
(* head of the list although it cannot go on, which Sync does not allow,   *)
(* so the invariants of Sync hold until then; from there on each live      *)
(* context has exited or sleeps on a semaphore that is at 0.               *)

Gone == \A c \in Ctx : blocked[c] = Exited => pc[c] = "exit"

Doomed ==
  \A c \in Live : blocked[c] # Exited =>
    \E s \in Sem : c \in AsleepOn(s) /\ value[s] = 0

Settled == IF Stuck THEN Doomed ELSE QueuesMatchSleepers /\ NoLostWakeup

(* Only when it is too late mipster runs a context that is not ready.      *)
RunsReady == status = "running" => blocked[cur] = Ready \/ Stuck

KernelInv == KernelBase /\ Ids /\ Passable /\ Gone /\ Settled /\ RunsReady

(* Whoever sleeps when nobody is left to run sleeps for a unit that is not *)
(* there.                                                                  *)
LEMMA StuckIsDoomed == SyncBase /\ QueuesMatchSleepers /\ NoLostWakeup /\ Stuck => Doomed
<1> SUFFICES ASSUME SyncBase, QueuesMatchSleepers, NoLostWakeup, Stuck,
                    NEW c \in Live, blocked[c] # Exited
             PROVE  \E s \in Sem : c \in AsleepOn(s) /\ value[s] = 0
  BY DEF Doomed
<1>1. /\ c \in Ctx /\ blocked[c] = Asleep /\ "user" \notin Addr
      /\ value \in [Sem -> Nat] /\ waiters \in [Sem -> Seq(Ctx)]
  BY SyncAssumption DEF Stuck, SyncBase, SyncTypeOK, SyncAssumption, Live, ToSet
<1>2. PICK s \in Sem : StoppedAt(c, s)
  BY <1>1 DEF QueuesMatchSleepers
<1>3. c \in AsleepOn(s)
  BY <1>1, <1>2 DEF AsleepOn
<1>4. waiters[s] # <<>>
  BY <1>3 DEF QueuesMatchSleepers, ToSet
<1>5. WokenFor(s) = {}
  <2>1. ASSUME NEW d \in WokenFor(s)
        PROVE  FALSE
    <3>1. d \in Ctx /\ blocked[d] = Ready /\ pc[d] \in Addr
      BY DEF WokenFor, StoppedAt
    <3>2. d \in Live
      BY <1>1, <3>1 DEF SyncBase, SyncTypeOK, LiveIds, Fresh, Ctx
    <3> QED
      BY <3>1, <3>2 DEF Stuck
  <2> QED
    BY <2>1
<1>6. value[s] <= 0
  BY <1>4, <1>5, FS_EmptySet DEF NoLostWakeup
<1>7. value[s] = 0
  BY <1>1, <1>6
<1> QED
  BY <1>3, <1>7

(* What the head of the list does then: exit once more, or sleep once more *)
(* at the same call; lockdep lets it through to it.                        *)
LEMMA DoomedCall ==
  ASSUME SyncBase, Passable, Gone, Doomed, Stuck, NEW c \in Ctx, c \in Live,
         PlainCall(c) \/ LockCall(c)
  PROVE  UNCHANGED <<used, nextCtx, blocked, pc, mem, value>>
<1>0. /\ SemAddr \subseteq Addr /\ LockAddr \subseteq Addr
      /\ "user" \notin Addr /\ "exit" \notin Addr
      /\ blocked \in [Ctx -> {Ready, Asleep, Exited}]
      /\ pc \in [Ctx -> Addr \cup {"user", "exit"}]
  BY SyncAssumption DEF SyncAssumption, SyncBase, SyncTypeOK
<1>1. CASE blocked[c] = Exited
  <2>1. pc[c] = "exit"
    BY <1>1 DEF Gone
  <2>2. Exit(c)
    BY <1>0, <2>1 DEF PlainCall, LockCall, Fork, SemInit, LockInit, Create, SemWait, SemPost,
                     LockAcquire, LockRelease, AtCall
  <2>3. blocked' = blocked /\ pc' = pc
    BY <1>0, <1>1, <2>1, <2>2 DEF Exit
  <2> QED
    BY <2>2, <2>3 DEF Exit, objectVars
<1>2. CASE blocked[c] # Exited
  <2>1. PICK s \in Sem : c \in AsleepOn(s) /\ value[s] = 0
    BY <1>2 DEF Doomed
  <2>2. blocked[c] = Asleep /\ pc[c] \in Addr /\ mem[c][pc[c]] = s
    BY <2>1 DEF AsleepOn, StoppedAt
  <2>3. PICK a \in Addr : SemWait(c, a) \/ LockAcquire(c, a)
    BY <1>0, <2>2 DEF PlainCall, LockCall, Fork, Exit, SemInit, LockInit, Create, SemPost,
                     LockRelease
  <2>4. pc[c] = a /\ mem[c][a] = s
    BY <1>0, <2>2, <2>3 DEF SemWait, LockAcquire, AtCall
  <2>5. ~Refuse(c, a)
    BY <2>4, RetryPasses DEF Refuse, LockdepDeny
  <2>6. Sleep(c, a, s) /\ UNCHANGED <<used, nextCtx, mem, value>>
    BY <2>1, <2>3, <2>4, <2>5 DEF SemWait, LockAcquire, Take
  <2>7. blocked' = blocked /\ pc' = pc
    BY <1>0, <2>2, <2>4, <2>6 DEF Sleep
  <2> QED
    BY <2>6, <2>7
<1> QED
  BY <1>1, <1>2

(* The calls of a context that is ready.                                   *)
LEMMA ReadyCall ==
  ASSUME SyncBase, Ids, Passable, Gone, QueuesMatchSleepers, NoLostWakeup,
         NEW c \in Ctx, blocked[c] = Ready, PlainCall(c) \/ LockCall(c)
  PROVE  QueuesMatchSleepers' /\ NoLostWakeup' /\ Gone'
<1>1. Fork(c) \/ Exit(c) \/ ObjectCall(c)
  BY CallKinds
<1>2. QueuesMatchSleepers' /\ NoLostWakeup'
  BY <1>1, CallQueues, CallMatched
<1>3. Gone'
  <2> SUFFICES ASSUME NEW d \in Ctx, blocked'[d] = Exited
               PROVE  pc'[d] = "exit"
    BY DEF Gone
  <2> USE DEF Ready, Asleep, Exited
  <2>1. CASE Fork(c)
    BY <2>1 DEF Fork, Gone
  <2>2. CASE Exit(c)
    BY <2>2 DEF Exit, Gone, SyncBase, SyncTypeOK
  <2>3. CASE ObjectCall(c)
    <3>1. CASE d # c
      <4>1. pc'[d] = pc[d] /\ blocked'[d] \in {blocked[d], Ready}
        BY <2>3, <3>1, CallFrame DEF OthersKept, SyncBase
      <4> QED
        BY <4>1 DEF Gone
    <3>2. CASE d = c
      <4>0. /\ blocked \in [Ctx -> {Ready, Asleep, Exited}]
            /\ SemAddr \subseteq Addr /\ LockAddr \subseteq Addr
        BY SyncAssumption DEF SyncAssumption, SyncBase, SyncTypeOK
      <4>1. ASSUME NEW s \in Sem, Wake(s)
            PROVE  blocked'[c] # Exited
        BY <4>0, <4>1, WakeFrame DEF SyncBase
      <4>2. ASSUME NEW a \in SemAddr, SemInit(c, a) \/ SemWait(c, a)
            PROVE  blocked'[c] # Exited
        BY <4>0, <4>2 DEF SemInit, Create, SemWait, Refuse, Sleep, contextVars
      <4>3. ASSUME NEW a \in LockAddr, LockInit(c, a) \/ LockAcquire(c, a)
            PROVE  blocked'[c] # Exited
        BY <4>0, <4>3 DEF LockInit, Create, LockAcquire, Refuse, Take, Sleep, contextVars
      <4>4. ASSUME NEW a \in SemAddr, SemPost(c, a)
            PROVE  blocked'[c] # Exited
        BY <4>0, <4>1, <4>4, CallType DEF SemPost, SyncBase
      <4>5. ASSUME NEW a \in LockAddr, LockRelease(c, a)
            PROVE  blocked'[c] # Exited
        BY <4>0, <4>1, <4>5, CallType DEF LockRelease, SyncBase, Initialised
      <4>6. blocked'[c] # Exited
        BY <2>3, <4>2, <4>3, <4>4, <4>5 DEF ObjectCall
      <4> QED
        BY <3>2, <4>6
    <3> QED
      BY <3>1, <3>2
  <2> QED
    BY <1>1, <2>1, <2>2, <2>3
<1> QED
  BY <1>2, <1>3

(* A scheduler that finds nobody ready returns or hangs, or the machine is *)
(* stuck.                                                                  *)
LEMMA NextReady ==
  ASSUME KernelBase, Dispatch, SyncBase', status' = "running"
  PROVE  blocked'[cur'] = Ready \/ Stuck'
<1>0. blocked' \in [Ctx -> {Ready, Asleep, Exited}] /\ used' \in Seq(Ctx)
  BY DEF SyncBase, SyncTypeOK
<1>1. ASSUME cur' \in Runnable(used', blocked')
      PROVE  blocked'[cur'] = Ready
  BY <1>1 DEF Runnable
<1>2. ASSUME Runnable(used', blocked') = {}, ~AllExited(used', blocked')
      PROVE  Stuck'
  BY <1>0, <1>2 DEF Runnable, AllExited, Stuck, Live, ToSet
<1> QED
  BY <1>1, <1>2 DEF Dispatch, Schedule, RoundRobin, Random, NoneRunnable, Fair, Stay

LEMMA SameCalls ==
  ASSUME Ids, Passable, Gone, Settled, UNCHANGED syncVars
  PROVE  Ids' /\ Passable' /\ Gone' /\ Settled' /\ (Stuck' <=> Stuck)
<1>0. UNCHANGED <<lockdepVars, contextVars, objectVars, historyVars>>
  BY DEF syncVars
<1>1. Ids'
  BY <1>0 DEF Ids, Known, OneAddress, contextVars, objectVars
<1>2. Passable'
  BY <1>0 DEF Passable, TableOK, Passes, RecordedFor, Full, Denies, Conflicts, HeldClasses,
              contextVars, lockdepVars
<1>3. Gone' /\ (Stuck' <=> Stuck)
  BY <1>0 DEF Gone, Stuck, Live, contextVars
<1>4. Settled'
  <2>1. \A s \in Sem : AsleepOn(s)' = AsleepOn(s) /\ WokenFor(s)' = WokenFor(s)
    BY <1>0 DEF AsleepOn, WokenFor, StoppedAt, contextVars, objectVars
  <2>2. Doomed => Doomed'
    BY <1>0, <2>1 DEF Doomed, Live, contextVars, objectVars
  <2>3. NoLostWakeup => NoLostWakeup'
    BY <1>0, <2>1 DEF NoLostWakeup, objectVars
  <2>4. QueuesMatchSleepers => QueuesMatchSleepers'
    BY <1>0, QueuesFrame DEF contextVars, objectVars
  <2> QED
    BY <1>3, <2>2, <2>3, <2>4 DEF Settled
<1> QED
  BY <1>1, <1>2, <1>3, <1>4

LEMMA DispatchInv ==
  ASSUME KernelInv, Dispatch
  PROVE  KernelInv' /\ (Stuck => Stuck')
<1>1. /\ KernelBase' /\ SyncBase' /\ SyncBase /\ cur \in Ctx /\ cur \in Live
      /\ status = "running"
  BY DispatchBase, ScheduleBase DEF KernelInv, KernelBase, Current, Dispatch
<1>2. RunsReady'
  BY <1>1, NextReady DEF KernelInv, RunsReady
<1>3. CASE UNCHANGED syncVars
  BY <1>1, <1>2, <1>3, SameCalls DEF KernelInv
<1>4. CASE PlainCall(cur) \/ LockCall(cur)
  <2>1. Fork(cur) \/ Exit(cur) \/ ObjectCall(cur)
    BY <1>1, <1>4, CallKinds
  <2>2. Ids' /\ Passable'
    BY <1>1, <2>1, CallIds, CallPassable DEF KernelInv
  <2>3. CASE Stuck
    <3>1. UNCHANGED <<used, nextCtx, blocked, pc, mem, value>>
      BY <1>1, <1>4, <2>3, DoomedCall DEF KernelInv, Settled
    <3>2. Stuck' /\ Gone'
      BY <2>3, <3>1 DEF KernelInv, Stuck, Live, Gone
    <3>3. Doomed'
      BY <2>3, <3>1 DEF KernelInv, Settled, Doomed, Live, AsleepOn, StoppedAt
    <3> QED
      BY <1>1, <1>2, <2>2, <3>2, <3>3 DEF KernelInv, Settled
  <2>4. CASE ~Stuck
    <3>1. blocked[cur] = Ready
      BY <1>1, <2>4 DEF KernelInv, RunsReady
    <3>2. QueuesMatchSleepers' /\ NoLostWakeup' /\ Gone'
      BY <1>1, <1>4, <2>4, <3>1, ReadyCall DEF KernelInv, Settled
    <3>3. (SyncBase /\ QueuesMatchSleepers /\ NoLostWakeup /\ Stuck => Doomed)'
      BY StuckIsDoomed, PTL
    <3>4. Stuck' => Doomed'
      BY <1>1, <3>2, <3>3
    <3> QED
      BY <1>1, <1>2, <2>2, <2>4, <3>2, <3>4 DEF KernelInv, Settled
  <2> QED
    BY <2>3, <2>4
<1> QED
  BY <1>3, <1>4 DEF Dispatch, Pause

LEMMA KernelStep ==
  ASSUME KernelInv, [KernelNext]_kernelVars
  PROVE  KernelInv' /\ (Stuck => Stuck')
<1>1. CASE Dispatch
  BY <1>1, DispatchInv
<1>2. CASE UNCHANGED <<syncVars, cur>> /\ status' \in {status, "failed", "wild"}
  <2>1. KernelBase'
    BY KernelInduct DEF KernelInv
  <2>2. Ids' /\ Passable' /\ Gone' /\ Settled' /\ (Stuck' <=> Stuck)
    BY <1>2, SameCalls DEF KernelInv
  <2>3. RunsReady'
    BY <1>2, <2>2 DEF KernelInv, RunsReady, syncVars, contextVars
  <2> QED
    BY <2>1, <2>2, <2>3 DEF KernelInv
<1> QED
  BY <1>1, <1>2 DEF KernelNext, Fault, Stray, Stopped, kernelVars

LEMMA KernelInvHolds == KernelSpec => []KernelInv
<1>1. KernelInit => KernelInv
  <2> SUFFICES ASSUME KernelInit PROVE KernelInv
    OBVIOUS
  <2>1. SyncInit /\ KernelBase
    BY Booted DEF KernelInit
  <2>2. Ids /\ Passable /\ QueuesMatchSleepers /\ NoLostWakeup
    BY <2>1, InitIds, InitPassable, InitQueues, InitWakeups
  <2>3. \A c \in Ctx : blocked[c] = Ready
    BY <2>1 DEF SyncInit
  <2>4. \A c \in Live : c \in Ctx
    BY <2>1 DEF KernelBase, SyncBase, SyncTypeOK, Live, ToSet
  <2>5. Gone /\ ~Stuck /\ RunsReady
    BY <2>1, <2>3, <2>4 DEF Gone, Stuck, RunsReady, KernelBase, Current, Ready, Asleep, Exited
  <2> QED
    BY <2>1, <2>2, <2>5 DEF KernelInv, Settled
<1> QED
  BY <1>1, KernelStep, PTL DEF KernelSpec

(* Once mipster has nobody left to run, nothing it runs instead can change *)
(* that, under any scheduler: the context at the head of the list exits    *)
(* again, or asks again for a unit nobody is left to give.                 *)
THEOREM StuckStaysStuck == KernelSpec => StuckForGood
<1> DEFINE Still == Stuck => Stuck'
<1>1. KernelInv /\ [KernelNext]_kernelVars => [Still]_kernelVars
  BY KernelStep
<1> HIDE DEF Still
<1>2. KernelSpec => [][Still]_kernelVars
  BY <1>1, KernelInvHolds, PTL DEF KernelSpec
<1> QED
  BY <1>2 DEF Still, StuckForGood

(* An exited context stays exited under every scheduler: also when the     *)
(* head of the list runs although it is asleep or has exited.              *)
THEOREM ExitedForGoodInMipster == KernelSpec => ExitIsFinal
<1> DEFINE Final == \A c \in Ctx : blocked[c] = Exited => blocked'[c] = Exited
<1>1. KernelInv /\ [KernelNext]_kernelVars => [Final]_syncVars
  <2> SUFFICES ASSUME KernelInv, Dispatch, ~UNCHANGED syncVars PROVE Final
    BY DEF KernelNext, Fault, Stray, Stopped, kernelVars
  <2>1. (PlainCall(cur) \/ LockCall(cur)) /\ cur \in Ctx /\ cur \in Live /\ SyncBase
    BY DEF Dispatch, Pause, KernelInv, KernelBase, Current
  <2>2. CASE Stuck
    BY <2>1, <2>2, DoomedCall DEF KernelInv, Settled
  <2>3. CASE ~Stuck
    <3>1. blocked[cur] = Ready /\ QueuesMatchSleepers
      BY <2>3 DEF KernelInv, RunsReady, Settled, Dispatch
    <3> QED
      BY <2>1, <3>1, CallKinds, CallExits
  <2> QED
    BY <2>2, <2>3
<1> HIDE DEF Final
<1>2. KernelSpec => [][Final]_syncVars
  BY <1>1, KernelInvHolds, PTL DEF KernelSpec
<1> QED
  BY <1>2 DEF Final, ExitIsFinal

-----------------------------------------------------------------------------
(* The fair scheduler.  It compares slot 35 before it charges the context  *)
(* that just ran, so the context it runs may be one slice ahead of the     *)
(* others and a runnable context two.  A call on a lock or a semaphore     *)
(* goes right only in the first slice of a context: it falls asleep with   *)
(* that slice charged, and is woken by a context that has used none.       *)

Eager == {c \in Live : blocked[c] = Ready /\ held[c] = <<>>}

Even  == \A c, d \in Eager : vruntime[c] <= vruntime[d] + 2
Slept == \A c \in Ctx : blocked[c] = Asleep => vruntime[c] = 1
Ahead == \A c \in Eager : held[cur] = <<>> /\ vruntime[cur] <= vruntime[c] + 1

Fairly ==
  scheduler = "cfs" =>
    /\ Even
    /\ ~Stuck => Slept
    /\ status = "running" /\ ~Stuck => Ahead

(* Only its own context empties a held list: a cell that is unlinked from  *)
(* another's list has a predecessor there.                                 *)
LEMMA ReleaseEmpties ==
  ASSUME LockdepTypeOK, NEW c \in Ctx, NEW a, LockdepRelease(c, a),
         NEW d \in Ctx \ {c}, held'[d] = <<>>
  PROVE  held[d] = <<>>
<1>0. held \in [Ctx -> Seq(Cell)]
  BY DEF LockdepTypeOK
<1>1. CASE UNCHANGED held
  BY <1>1
<1>2. ASSUME NEW i \in DOMAIN held[c], Class(held[c][i]) = a,
             \A j \in 1..(i-1) : Class(held[c][j]) # a, RemoveHeld(c, i)
      PROVE  held[d] = <<>>
  <2> DEFINE cell == held[c][i]
  <2>1. CASE d \notin AffectedBy(c, i)
    BY <1>2, <2>1 DEF RemoveHeld
  <2>2. CASE d \in AffectedBy(c, i)
    <3>1. i > 1 /\ held[c][i-1] \in ToSet(held[d])
      BY <2>2 DEF AffectedBy
    <3>2. i - 1 \in 1..(i-1)
      BY <1>0, <1>2, <3>1
    <3>3. held[c][i-1] # cell
      BY <1>2, <3>2
    <3>4. held'[d] = Unlink(held[d], cell)
      BY <1>2, <2>2 DEF RemoveHeld
    <3> HIDE DEF cell
    <3>5. ToSet(held[d]) \ {cell} \subseteq ToSet(held'[d])
      BY <1>0, <3>4, UnlinkList
    <3>6. held[c][i-1] \in ToSet(held'[d])
      BY <3>1, <3>3, <3>5
    <3> QED
      BY <3>6 DEF ToSet
  <2> QED
    BY <2>1, <2>2
<1> QED
  BY <1>1, <1>2 DEF LockdepRelease

LEMMA CallEmpties ==
  ASSUME LockdepTypeOK, NEW c \in Ctx, LockCall(c), NEW d \in Ctx \ {c}, held'[d] = <<>>
  PROVE  held[d] = <<>>
<1>0. held \in [Ctx -> Seq(Cell)]
  BY DEF LockdepTypeOK
<1>1. ASSUME NEW a, LockdepDeny(c, a) \/ LockdepAcquire(c, a)
      PROVE  held'[d] = held[d]
  BY <1>0, <1>1 DEF LockdepDeny, LockdepAcquire, AddHeld
<1>2. ASSUME NEW a \in SemAddr, SemWait(c, a) \/ SemPost(c, a)
      PROVE  held[d] = <<>>
  BY <1>1, <1>2, ReleaseEmpties DEF SemWait, SemPost, Refuse
<1>3. ASSUME NEW a \in LockAddr, LockAcquire(c, a) \/ LockRelease(c, a)
      PROVE  held[d] = <<>>
  BY <1>1, <1>3, ReleaseEmpties DEF LockAcquire, LockRelease, Refuse
<1> QED
  BY <1>2, <1>3 DEF LockCall

(* What a dispatched context does to the others' readiness, with the time  *)
(* W that the scheduler then compares.                                     *)
LEMMA CallTimes ==
  ASSUME KernelInv, Dispatch, ~Stuck, Slept, NEW W, W = Copied
  PROVE  /\ W[cur] = vruntime[cur]
         /\ \A c \in Eager' :
              \/ c \in Eager /\ W[c] = vruntime[c]
              \/ vruntime[cur] = 0 /\ (W[c] = 1 \/ c = cur)
              \/ cur \in Eager /\ W[c] = vruntime[cur]
         /\ \A c \in Ctx : blocked'[c] = Asleep =>
              \/ c # cur /\ W[c] = 1
              \/ c = cur /\ W[c] = 0
<1>0. /\ SyncBase /\ LockdepTypeOK /\ cur \in Ctx /\ cur \in Live /\ blocked[cur] = Ready
      /\ nextCtx \in Nat /\ QueuesMatchSleepers /\ vruntime \in [Ctx -> 0..MaxRuntime]
      /\ blocked \in [Ctx -> {Ready, Asleep, Exited}] /\ held \in [Ctx -> Seq(Cell)]
      /\ Live \subseteq Ctx
  <2>1. /\ SyncBase /\ Current /\ RunsReady /\ QueuesMatchSleepers
        /\ vruntime \in [Ctx -> 0..MaxRuntime]
    BY DEF KernelInv, KernelBase, Looping, Settled
  <2>2. cur \in Ctx /\ cur \in Live /\ blocked[cur] = Ready
    BY <2>1 DEF Current, Dispatch, RunsReady
  <2>3. SyncTypeOK /\ LockdepTypeOK
    BY <2>1 DEF SyncBase, SyncTypeOK
  <2>4. /\ nextCtx \in Nat /\ blocked \in [Ctx -> {Ready, Asleep, Exited}]
        /\ held \in [Ctx -> Seq(Cell)] /\ Live \subseteq Ctx
    BY <2>3 DEF SyncTypeOK, LockdepTypeOK, Live, ToSet
  <2> QED
    BY <2>1, <2>2, <2>3, <2>4
<1> USE DEF Ready, Asleep, Exited
<1>1. cur # nextCtx /\ W[cur] = vruntime[cur]
  BY <1>0, CopiedTime DEF Copied, KernelInv, SyncBase, LiveIds, Live
<1>2. ASSUME UNCHANGED <<used, nextCtx, held>>,
             \A d \in Ctx : (d = cur /\ blocked'[d] = Exited) \/ blocked'[d] = blocked[d]
      PROVE  /\ W = vruntime
             /\ \A c \in Eager' : c \in Eager
             /\ \A c \in Ctx : blocked'[c] = Asleep => c # cur /\ blocked[c] = Asleep
  <2>1. W = vruntime /\ Live' = Live
    BY <1>2 DEF Copied, Live
  <2> QED
    BY <1>0, <1>2, <2>1 DEF Eager
<1>3. CASE Fork(cur)
  <2>1. /\ nextCtx \in Ctx /\ nextCtx' = nextCtx + 1 /\ UNCHANGED blocked
        /\ held' = [held EXCEPT ![nextCtx] = held[cur]]
        /\ W = [vruntime EXCEPT ![nextCtx] = vruntime[cur]]
    BY <1>0, <1>3, LockdepAssumption DEF Fork, LockdepFork, Copied, Ctx, LockdepAssumption
  <2>2. Live' = Live \cup {nextCtx}
    BY <1>0, <1>3, <2>1, ConcatRange DEF Fork, Live, SyncBase, SyncTypeOK
  <2>3. ASSUME NEW c \in Eager'
        PROVE  \/ c \in Eager /\ W[c] = vruntime[c]
               \/ cur \in Eager /\ W[c] = vruntime[cur]
    BY <1>0, <2>1, <2>2 DEF Eager, SyncBase, LiveIds, Ctx
  <2>4. ASSUME NEW c \in Ctx, blocked'[c] = Asleep
        PROVE  c # cur /\ W[c] = 1
    <3>1. blocked[nextCtx] = Ready
      BY <1>0, <2>1 DEF SyncBase, Fresh
    <3> QED
      BY <1>0, <2>1, <2>4, <3>1 DEF Slept
  <2> QED
    BY <1>1, <2>3, <2>4
<1>4. CASE Exit(cur)
  BY <1>0, <1>1, <1>2, <1>4 DEF Exit, lockdepVars, Slept
<1>5. CASE UNCHANGED syncVars
  BY <1>0, <1>1, <1>2, <1>5 DEF syncVars, contextVars, lockdepVars, Slept
<1>6. ASSUME NEW a, SemInit(cur, a) \/ LockInit(cur, a)
      PROVE  UNCHANGED <<used, nextCtx, held, blocked>>
  BY <1>6 DEF SemInit, LockInit, Create, contextVars, lockdepVars
<1>7. CASE UNCHANGED <<used, nextCtx, held, blocked>>
  BY <1>0, <1>1, <1>2, <1>7 DEF Slept
<1>8. CASE vruntime[cur] = 0 /\ LockCall(cur)
  <2>1. ObjectCall(cur)
    BY <1>8 DEF LockCall, ObjectCall
  <2>2. OthersKept(cur)
    BY <1>0, <2>1, CallFrame DEF SyncBase
  <2>3. W = vruntime /\ Live' = Live
    BY <2>2 DEF OthersKept, Copied, Live
  <2>4. ASSUME NEW c \in Eager', c # cur
        PROVE  c \in Eager \/ W[c] = 1
    <3>1. c \in Live /\ c \in Ctx /\ blocked'[c] = Ready /\ held'[c] = <<>>
      BY <1>0, <2>3 DEF Eager
    <3>2. held[c] = <<>>
      BY <1>0, <1>8, <2>4, <3>1, CallEmpties
    <3>3. blocked[c] # Exited
      BY <1>0, <2>1, <3>1, CallExits
    <3> QED
      BY <1>0, <2>3, <3>1, <3>2, <3>3 DEF Eager, Slept
  <2>5. ASSUME NEW c \in Ctx, blocked'[c] = Asleep
        PROVE  (c # cur /\ W[c] = 1) \/ (c = cur /\ W[c] = 0)
    <3>1. c # cur => blocked[c] = Asleep
      BY <2>2, <2>5 DEF OthersKept
    <3> QED
      BY <1>8, <2>3, <3>1 DEF Slept
  <2> QED
    BY <1>1, <1>8, <2>3, <2>4, <2>5
<1> QED
  BY <1>3, <1>4, <1>5, <1>6, <1>7, <1>8 DEF Dispatch, Pause, PlainCall

(* So before the running context is charged nobody drifts from anybody by  *)
(* more than two slices, and the running context by one from those behind. *)
LEMMA TimesClose ==
  ASSUME KernelInv, Dispatch, ~Stuck, Slept, Even, Ahead, NEW W, W = Copied
  PROVE  /\ \A c, d \in Eager' : W[c] <= W[d] + 2
         /\ \A c \in Eager' : W[cur] <= W[c] + 1
<1>0. /\ vruntime \in [Ctx -> 0..MaxRuntime] /\ MaxRuntime \in Nat /\ cur \in Ctx
      /\ Eager \subseteq Ctx
  BY KernelAssumption DEF KernelAssumption, KernelInv, KernelBase, Looping, Current, Eager,
                          Live, ToSet, SyncBase, SyncTypeOK
<1>1. /\ W[cur] = vruntime[cur]
      /\ \A c \in Eager' :
           \/ c \in Eager /\ W[c] = vruntime[c]
           \/ vruntime[cur] = 0 /\ (W[c] = 1 \/ c = cur)
           \/ cur \in Eager /\ W[c] = vruntime[cur]
  BY CallTimes
<1>2. ASSUME NEW c \in Eager'
      PROVE  vruntime[cur] <= W[c] + 1 /\ W[c] \in Nat
  BY <1>0, <1>1 DEF Ahead
<1>3. ASSUME NEW c \in Eager
      PROVE  vruntime[c] <= vruntime[cur] + 2
  <2>1. cur \in Eager
    BY <1>3 DEF Ahead, Eager, KernelInv, KernelBase, Current, RunsReady, Dispatch
  <2> QED
    BY <1>3, <2>1 DEF Even
<1>4. ASSUME NEW c \in Eager', NEW d \in Eager'
      PROVE  W[c] <= W[d] + 2
  <2>1. CASE W[c] <= vruntime[cur] + 1
    BY <1>0, <1>2, <2>1
  <2>2. CASE c \in Eager /\ W[c] = vruntime[c]
    BY <1>0, <1>1, <1>3, <2>2 DEF Even
  <2> QED
    BY <1>0, <1>1, <2>1, <2>2
<1> QED
  BY <1>1, <1>2, <1>4

LEMMA StuckNobody ==
  ASSUME Stuck'
  PROVE  Eager' = {}
BY DEF Stuck, Eager

(* The choice takes the context that is least ahead, then charges the one  *)
(* that ran.                                                               *)
LEMMA FairChoice ==
  ASSUME KernelInv, Dispatch, SyncBase', ~Stuck, Slept, Even, Ahead, scheduler = "cfs",
         NEW W, W = Copied, NEW d \in Runnable(used', blocked'),
         \A e \in Runnable(used', blocked') \ {d} : ~Sooner(used', held', W, e, d),
         cur' = d, vruntime' = [W EXCEPT ![cur] = @ + 1]
  PROVE  Even' /\ Slept' /\ Ahead'
<1>0. /\ W \in [Ctx -> 0..MaxRuntime] /\ MaxRuntime \in Nat /\ cur \in Ctx
      /\ Eager' \subseteq Ctx /\ d \in Ctx
      /\ \A c \in Ctx : W[c] \in Nat
  <2>1. used' \in Seq(Ctx)
    BY DEF SyncBase, SyncTypeOK
  <2> QED
    BY <2>1, KernelAssumption, CopiedTime
       DEF KernelAssumption, KernelInv, KernelBase, Current, Eager, Live, ToSet, Runnable
<1>1. \A c \in Ctx : vruntime'[c] = IF c = cur THEN W[cur] + 1 ELSE W[c]
  BY <1>0
<1>2. /\ \A c, e \in Eager' : W[c] <= W[e] + 2
      /\ \A c \in Eager' : W[cur] <= W[c] + 1
  BY TimesClose
<1>3. Even'
  BY <1>0, <1>1, <1>2 DEF Even
<1>4. Slept'
  BY <1>0, <1>1, CallTimes DEF Slept
<1>5. ASSUME NEW e \in Eager'
      PROVE  held'[d] = <<>> /\ W[d] <= W[e]
  <2>1. e \in Runnable(used', blocked') /\ held'[e] = <<>>
    BY DEF Eager, Runnable, Live
  <2>2. CASE e = d
    BY <1>0, <2>1, <2>2
  <2>3. CASE e # d
    BY <1>0, <2>1, <2>3 DEF Sooner
  <2> QED
    BY <2>2, <2>3
<1>6. Ahead'
  BY <1>0, <1>1, <1>5 DEF Ahead
<1> QED
  BY <1>3, <1>4, <1>6

LEMMA FairStep ==
  ASSUME KernelInv, Fairly, Dispatch
  PROVE  Fairly'
<1> SUFFICES ASSUME scheduler = "cfs"
             PROVE  Even' /\ (~Stuck' => Slept') /\ (status' = "running" /\ ~Stuck' => Ahead')
  BY DEF Fairly, Dispatch
<1>1. /\ KernelInv' /\ SyncBase' /\ status = "running" /\ (Stuck => Stuck')
      /\ blocked' \in [Ctx -> {Ready, Asleep, Exited}] /\ used' \in Seq(Ctx)
  BY DispatchInv DEF KernelInv, KernelBase, SyncBase, SyncTypeOK, Dispatch
<1>2. CASE Stuck'
  BY <1>2, StuckNobody DEF Even
<1>3. CASE ~Stuck'
  <2> DEFINE W == Copied
  <2>1. ~Stuck /\ Slept /\ Even /\ Ahead
    BY <1>1, <1>3 DEF Fairly
  <2>2. Fair(used', blocked', held', W)
    BY DEF Dispatch, Schedule
  <2> HIDE DEF W
  <2>3. CASE Runnable(used', blocked') = {}
    <3>1. /\ Eager' = {} /\ AllExited(used', blocked')
      BY <1>1, <1>3, <2>3 DEF Runnable, AllExited, Stuck, Eager, Live, ToSet
    <3>2. status' = "returned"
      BY <2>2, <2>3, <3>1 DEF Fair, Stay
    <3>3. \A c \in Ctx : blocked'[c] # Asleep
      <4>1. \A c \in Live' : blocked'[c] = Exited
        BY <3>1 DEF AllExited, Live
      <4>2. \A c \in Ctx : c \notin Live' => blocked'[c] = Ready
        <5>1. nextCtx' \in Nat /\ MaxCtx \in Nat
          BY <1>1, LockdepAssumption DEF SyncBase, SyncTypeOK, LockdepAssumption
        <5>2. \A c \in Ctx : c \notin Live' => c >= nextCtx'
          BY <1>1, <5>1 DEF SyncBase, LiveIds, Ctx
        <5> QED
          BY <1>1, <5>2 DEF SyncBase, Fresh
      <4> QED
        BY <4>1, <4>2 DEF Ready, Asleep, Exited
    <3> QED
      BY <3>1, <3>2, <3>3 DEF Even, Slept
  <2>4. CASE Runnable(used', blocked') # {}
    <3>1. PICK d \in Runnable(used', blocked') :
            /\ \A e \in Runnable(used', blocked') \ {d} : ~Sooner(used', held', W, e, d)
            /\ cur' = d /\ vruntime' = [W EXCEPT ![cur] = @ + 1]
      BY <2>2, <2>4 DEF Fair
    <3> QED
      BY <1>1, <2>1, <3>1, FairChoice DEF W
  <2> QED
    BY <2>3, <2>4
<1> QED
  BY <1>2, <1>3

(* The fair scheduler is fair: two runnable contexts that hold no locks    *)
(* are never more than two time slices apart, however they fork, sleep and *)
(* wake each other.  (A context that holds locks has the address of a list *)
(* in the slot that is compared, so nothing is promised to it.)            *)
THEOREM UnfairnessBounded == KernelSpec => []BoundedUnfairness
<1>1. KernelInit => Fairly
  <2> SUFFICES ASSUME KernelInit PROVE Fairly
    OBVIOUS
  <2>1. cur \in Ctx /\ \A c \in Eager : c \in Ctx
    BY Booted DEF KernelBase, Current, SyncBase, SyncTypeOK, Eager, Live, ToSet
  <2>2. /\ \A c \in Ctx : vruntime[c] = 0 /\ held[c] = <<>> /\ blocked[c] # Asleep
    BY DEF KernelInit, SyncInit, LockdepInit, Ready, Asleep
  <2> QED
    BY <2>1, <2>2 DEF Fairly, Even, Slept, Ahead
<1>2. KernelInv /\ Fairly /\ [KernelNext]_kernelVars => Fairly'
  <2> SUFFICES ASSUME KernelInv, Fairly, [KernelNext]_kernelVars PROVE Fairly'
    OBVIOUS
  <2>1. CASE Dispatch
    BY <2>1, FairStep
  <2>2. CASE UNCHANGED <<syncVars, scheduler, cur, vruntime>> /\ status' \in {status, "failed", "wild"}
    <3>1. UNCHANGED <<used, blocked, held, scheduler, cur, vruntime>>
      BY <2>2 DEF syncVars, contextVars, lockdepVars
    <3>2. Eager' = Eager /\ (Stuck' <=> Stuck)
      BY <3>1 DEF Eager, Stuck, Live
    <3> QED
      BY <2>2, <3>1, <3>2 DEF Fairly, Even, Slept, Ahead
  <2> QED
    BY <2>1, <2>2 DEF KernelNext, Fault, Stray, Stopped, kernelVars
<1>3. Fairly => BoundedUnfairness
  BY DEF Fairly, Even, Eager, BoundedUnfairness
<1> QED
  BY <1>1, <1>2, <1>3, KernelInvHolds, PTL DEF KernelSpec

=============================================================================
