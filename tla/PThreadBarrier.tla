---------------------------- MODULE PThreadBarrier ----------------------------
(***************************************************************************)
(* pthread_barrier_wait as thread/util/PThreadBarrier.h builds it from a   *)
(* mutex and a condition variable, for hosts without POSIX barriers.       *)
(*                                                                         *)
(* Threads come back to the barrier as often as they like.  The count is   *)
(* touched only by the mutex's owner, so what an owner does between two    *)
(* operations on the mutex or the condition variable is one step.          *)
(***************************************************************************)
EXTENDS Naturals, FiniteSets

CONSTANTS
  Thread,
  Trip,              \* tripCount
  NoThread

ASSUME PThreadBarrierAssumption ==
  /\ IsFiniteSet(Thread)
  /\ Trip \in Nat \ {0}
  /\ NoThread \notin Thread

VARIABLES
  mutex,    \* its owner, or NoThread
  count,
  pc,
  spurious  \* history: has pthread_cond_wait returned without a broadcast?

vars == <<mutex, count, pc, spurious>>

\* "sleep": blocked in pthread_cond_wait.  "woken": about to take the mutex
\* back.  "unlock1": about to unlock and return 1; "unlock0": and return 0.
PC == {"out", "locked", "trip", "cond_wait", "sleep", "woken", "unlock0", "unlock1"}
Owning == {"locked", "trip", "cond_wait", "unlock0", "unlock1"}

TypeOK ==
  /\ mutex \in Thread \cup {NoThread}
  /\ count \in 0 .. Trip
  /\ pc \in [Thread -> PC]
  /\ spurious \in BOOLEAN

\* pthread_barrier_init
Init ==
  /\ mutex = NoThread
  /\ count = 0
  /\ pc = [t \in Thread |-> "out"]
  /\ spurious = FALSE

Goto(t, from, to) ==
  /\ pc[t] = from
  /\ pc' = [pc EXCEPT ![t] = to]

Lock(t) ==
  /\ Goto(t, "out", "locked")
  /\ mutex = NoThread /\ mutex' = t
  /\ UNCHANGED <<count, spurious>>

\* ++count, and which branch it leads to.
Count(t) ==
  /\ Goto(t, "locked", IF count + 1 >= Trip THEN "trip" ELSE "cond_wait")
  /\ count' = count + 1
  /\ UNCHANGED <<mutex, spurious>>

\* Mutant: the count is not put back to 0.
BroadcastOnly(t) ==
  /\ pc[t] = "trip"
  /\ pc' = [u \in Thread |-> IF u = t THEN "unlock1"
                             ELSE IF pc[u] = "sleep" THEN "woken" ELSE pc[u]]
  /\ UNCHANGED <<mutex, count, spurious>>

\* Mutant: pthread_cond_signal for pthread_cond_broadcast.
SignalOne(t) ==
  /\ pc[t] = "trip"
  /\ count' = 0
  /\ LET asleep == {u \in Thread : pc[u] = "sleep"} IN
       \/ /\ asleep = {}
          /\ pc' = [pc EXCEPT ![t] = "unlock1"]
       \/ \E u \in asleep : pc' = [pc EXCEPT ![t] = "unlock1", ![u] = "woken"]
  /\ UNCHANGED <<mutex, spurious>>

\* count = 0; pthread_cond_broadcast
Broadcast(t) ==
  /\ pc[t] = "trip"
  /\ count' = 0
  /\ pc' = [u \in Thread |-> IF u = t THEN "unlock1"
                             ELSE IF pc[u] = "sleep" THEN "woken" ELSE pc[u]]
  /\ UNCHANGED <<mutex, spurious>>

\* pthread_cond_wait: release the mutex and block, ...
CondWait(t) ==
  /\ Goto(t, "cond_wait", "sleep")
  /\ mutex' = NoThread
  /\ UNCHANGED <<count, spurious>>

SpuriousWakeup(t) ==
  /\ Goto(t, "sleep", "woken")
  /\ spurious' = TRUE
  /\ UNCHANGED <<mutex, count>>

\* ... and take it back once woken.
Relock(t) ==
  /\ Goto(t, "woken", "unlock0")
  /\ mutex = NoThread /\ mutex' = t
  /\ UNCHANGED <<count, spurious>>

\* Mutant: the branch that returns 0 does not unlock.
UnlockOnce(t) ==
  /\ pc[t] \in {"unlock0", "unlock1"}
  /\ pc' = [pc EXCEPT ![t] = "out"]
  /\ mutex' = IF pc[t] = "unlock1" THEN NoThread ELSE mutex
  /\ UNCHANGED <<count, spurious>>

Unlock(t) ==
  /\ pc[t] \in {"unlock0", "unlock1"}
  /\ pc' = [pc EXCEPT ![t] = "out"]
  /\ mutex' = NoThread
  /\ UNCHANGED <<count, spurious>>

Step(t) == \/ Lock(t) \/ Count(t) \/ Broadcast(t) \/ CondWait(t)
           \/ Relock(t) \/ Unlock(t)

Next == \E t \in Thread : Step(t) \/ SpuriousWakeup(t)

Spec == Init /\ [][Next]_vars

(***************************************************************************)
(* A thread inside pthread_barrier_wait is always scheduled, and gets the  *)
(* mutex however often others take it (nothing makes a caller of           *)
(* Syncronizer call it again).                                             *)
(***************************************************************************)
FairSpec ==
  Spec /\ \A t \in Thread : /\ WF_vars(Count(t) \/ Broadcast(t) \/ CondWait(t) \/ Unlock(t))
                            /\ SF_vars(Relock(t))
-----------------------------------------------------------------------------
Inside == {t \in Thread : pc[t] \in {"trip", "cond_wait", "sleep"}}

\* Even if wakeups are spurious, no thread sleeps uncounted: the Trip-th arrival
\* comes no later than it should, and no round is left asleep.
SleepersAreCounted == Cardinality(Inside) <= count

\* Only the owner is in the critical section, and, as long as no wakeup was
\* spurious, the count is the number of threads inside that no broadcast has
\* let go: it is put back to 0 before the mutex is free again, so a late thread
\* can neither be counted twice nor join a round that is over.
CountIsWaiters ==
  /\ \A t \in Thread : pc[t] \in Owning <=> mutex = t
  /\ ~spurious => count = Cardinality(Inside)

\* Where a location of pthread_barrier_wait stands in PosixBarrier.
Stage(loc) == IF loc \in {"out", "locked", "trip"} THEN "out"
              ELSE IF loc \in {"cond_wait", "sleep"} THEN "in" ELSE "go"

\* The emulation is a POSIX barrier, until a wakeup is spurious.
Posix == INSTANCE PosixBarrier WITH st <- [t \in Thread |-> Stage(pc[t])],
                                    broken <- spurious
ImplementsPosix == Posix!PosixSpec

\* A thread that was let go returns, whoever else comes back first.
LetGoReturns == \A t \in Thread : pc[t] = "woken" ~> pc[t] = "out"
=============================================================================
