------------------------------- MODULE MCSync -------------------------------
(* Instance of Sync for TLC: four families of programs.                    *)
EXTENDS Sync
CONSTANTS a, b, sem

VARIABLE programs   \* the family

Uses(S) == \A c \in Ctx : \A x \in Addr \ S : mem'[c][x] = Unset

(* Two contexts with two locks in any order, or a lock and a semaphore, and *)
(* the fork at any time.                                                   *)
Nested ==
  /\ nextCtx' <= 2
  /\ \/ programs = "nested" /\ Uses({a, b})
     \/ programs = "mixed" /\ Uses({a, sem})

(* Three contexts on one lock or one semaphore.  As in the tests of the    *)
(* repository, the first context creates it and forks, then they use it.   *)
InitsFirst ==
  /\ nextSem' # nextSem => nextCtx = Boot /\ nextSem = 0
  /\ nextCtx' # nextCtx => nextSem = 1 /\ \A c \in Ctx : held[c] = <<>>
Queues ==
  /\ InitsFirst
  /\ \/ programs = "lock" /\ Uses({a})
     \/ programs = "semaphore" /\ Uses({sem})

TestInit == SyncInit /\ programs \in {"nested", "mixed", "lock", "semaphore"}
TestNext == SyncNext /\ (Nested \/ Queues) /\ UNCHANGED programs
TestSpec == TestInit /\ [][TestNext]_<<syncVars, programs>>
=============================================================================
