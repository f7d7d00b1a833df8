------------------------- MODULE PThreadBarrierProofs -------------------------
(***************************************************************************)
(* Machine-checked proofs about PThreadBarrier, for any finite number of   *)
(* threads and any trip count.                                             *)
(***************************************************************************)
EXTENDS PThreadBarrier, FiniteSetTheorems, TLAPS

(***************************************************************************)
(* The inductive invariant: besides its two parts, the count has reached   *)
(* the trip count exactly while the owner of the mutex is about to open    *)
(* the barrier.                                                            *)
(***************************************************************************)
Owner == \A t \in Thread : pc[t] \in Owning <=> mutex = t
Counted ==
  /\ Cardinality(Inside) <= count
  /\ ~spurious => count = Cardinality(Inside)
Tripped == IF \E t \in Thread : pc[t] = "trip" THEN count = Trip ELSE count < Trip

IInv == TypeOK /\ Owner /\ Counted /\ Tripped

LEMMA InsideFinite == IsFiniteSet(Inside)
BY PThreadBarrierAssumption, FS_Subset DEF Inside

\* An owner is the only one: nobody else is between lock and unlock.
LEMMA OneOwner ==
  ASSUME Owner, NEW t \in Thread, NEW u \in Thread,
         pc[t] \in Owning, pc[u] \in Owning
  PROVE  t = u
BY DEF Owner

\* A step of one thread that leaves it inside, or leaves it outside.
LEMMA SameInside ==
  ASSUME TypeOK, NEW t \in Thread, NEW s \in PC, pc' = [pc EXCEPT ![t] = s],
         (pc[t] \in {"trip", "cond_wait", "sleep"})
           <=> (s \in {"trip", "cond_wait", "sleep"})
  PROVE  Inside' = Inside
BY DEF Inside, TypeOK

LEMMA Initial == Init => IInv
<1> SUFFICES ASSUME Init PROVE IInv
  OBVIOUS
<1>1. TypeOK
  <2>1. spurious \in BOOLEAN
    BY Zenon DEF Init
  <2> QED
    BY <2>1, PThreadBarrierAssumption DEF Init, TypeOK, PC
<1>2. Owner
  BY PThreadBarrierAssumption DEF Init, Owner, Owning
<1>3. Inside = {}
  BY DEF Init, Inside
<1>4. Counted
  BY <1>3, FS_EmptySet DEF Init, Counted
<1>5. Tripped
  BY PThreadBarrierAssumption DEF Init, Tripped
<1> QED
  BY <1>1, <1>2, <1>4, <1>5 DEF IInv

LEMMA LockStep ==
  ASSUME IInv, NEW t \in Thread, Lock(t) PROVE IInv'
<1> USE DEF IInv, Lock, Goto
<1>1. TypeOK'
  BY DEF TypeOK, PC
<1>2. Owner'
  BY PThreadBarrierAssumption DEF TypeOK, Owner, Owning, PC
<1>3. Inside' = Inside
  BY SameInside DEF PC
<1>4. Counted'
  BY <1>3 DEF Counted
<1>5. Tripped'
  BY DEF Tripped, TypeOK
<1> QED
  BY <1>1, <1>2, <1>4, <1>5

LEMMA CountStep ==
  ASSUME IInv, NEW t \in Thread, Count(t) PROVE IInv'
<1> USE DEF IInv, Count, Goto
<1>1. count < Trip
  BY OneOwner DEF Tripped, Owning
<1>2. TypeOK'
  BY <1>1, PThreadBarrierAssumption DEF TypeOK, PC
<1>3. Owner'
  BY DEF TypeOK, Owner, Owning, PC
<1>4. Inside' = Inside \cup {t} /\ t \notin Inside
  BY DEF Inside, TypeOK
<1>5. Counted'
  <2>1. Cardinality(Inside') = Cardinality(Inside) + 1
    BY <1>4, InsideFinite, FS_AddElement
  <2>2. Cardinality(Inside) \in Nat
    BY InsideFinite, FS_CardinalityType
  <2> QED
    BY <2>1, <2>2, PThreadBarrierAssumption DEF Counted, TypeOK
<1>6. Tripped'
  <2>1. \A u \in Thread \ {t} : pc'[u] # "trip"
    BY OneOwner DEF Owning, TypeOK
  <2>2. pc'[t] = "trip" <=> count + 1 >= Trip
    BY DEF TypeOK
  <2> QED
    BY <1>1, <2>1, <2>2, PThreadBarrierAssumption DEF Tripped, TypeOK
<1> QED
  BY <1>2, <1>3, <1>5, <1>6

LEMMA BroadcastStep ==
  ASSUME IInv, NEW t \in Thread, Broadcast(t) PROVE IInv'
<1> USE DEF IInv, Broadcast
<1>1. TypeOK'
  BY PThreadBarrierAssumption DEF TypeOK, PC
<1>2. \A u \in Thread : pc[u] \in Owning => u = t
  BY OneOwner DEF Owning
<1>3. Owner'
  BY DEF TypeOK, Owner, Owning, PC
<1>4. Inside' = {}
  BY <1>2 DEF Inside, TypeOK, Owning
<1>5. Counted'
  BY <1>4, FS_EmptySet DEF Counted
<1>6. Tripped'
  BY <1>2, PThreadBarrierAssumption DEF Tripped, TypeOK, Owning
<1> QED
  BY <1>1, <1>3, <1>5, <1>6

LEMMA CondWaitStep ==
  ASSUME IInv, NEW t \in Thread, CondWait(t) PROVE IInv'
<1> USE DEF IInv, CondWait, Goto
<1>1. TypeOK'
  BY DEF TypeOK, PC
<1>2. Owner'
  BY PThreadBarrierAssumption DEF TypeOK, Owner, Owning, PC
<1>3. Inside' = Inside
  BY SameInside DEF PC
<1>4. Counted'
  BY <1>3 DEF Counted
<1>5. Tripped'
  BY DEF Tripped, TypeOK
<1> QED
  BY <1>1, <1>2, <1>4, <1>5

LEMMA RelockStep ==
  ASSUME IInv, NEW t \in Thread, Relock(t) PROVE IInv'
<1> USE DEF IInv, Relock, Goto
<1>1. TypeOK'
  BY DEF TypeOK, PC
<1>2. Owner'
  BY PThreadBarrierAssumption DEF TypeOK, Owner, Owning, PC
<1>3. Inside' = Inside
  BY SameInside DEF PC
<1>4. Counted'
  BY <1>3 DEF Counted
<1>5. Tripped'
  BY DEF Tripped, TypeOK
<1> QED
  BY <1>1, <1>2, <1>4, <1>5

LEMMA UnlockStep ==
  ASSUME IInv, NEW t \in Thread, Unlock(t) PROVE IInv'
<1> USE DEF IInv, Unlock
<1>1. TypeOK'
  BY DEF TypeOK, PC
<1>2. Owner'
  BY PThreadBarrierAssumption DEF TypeOK, Owner, Owning, PC
<1>3. Inside' = Inside
  BY SameInside DEF PC
<1>4. Counted'
  BY <1>3 DEF Counted
<1>5. Tripped'
  BY DEF Tripped, TypeOK
<1> QED
  BY <1>1, <1>2, <1>4, <1>5

\* The thread leaves and stays counted.
LEMMA SpuriousWakeupStep ==
  ASSUME IInv, NEW t \in Thread, SpuriousWakeup(t) PROVE IInv'
<1> USE DEF IInv, SpuriousWakeup, Goto
<1>1. TypeOK'
  BY DEF TypeOK, PC
<1>2. Owner'
  BY PThreadBarrierAssumption DEF TypeOK, Owner, Owning, PC
<1>3. Inside' = Inside \ {t} /\ t \in Inside
  BY DEF Inside, TypeOK
<1>4. Counted'
  <2>1. Cardinality(Inside') = Cardinality(Inside) - 1
    BY <1>3, InsideFinite, FS_RemoveElement
  <2>2. Cardinality(Inside) \in Nat
    BY InsideFinite, FS_CardinalityType
  <2> QED
    BY <2>1, <2>2, PThreadBarrierAssumption DEF Counted, TypeOK
<1>5. Tripped'
  BY DEF Tripped, TypeOK
<1> QED
  BY <1>1, <1>2, <1>4, <1>5

LEMMA Inductive ==
  IInv /\ [Next]_vars => IInv'
<1> SUFFICES ASSUME IInv, [Next]_vars PROVE IInv'
  OBVIOUS
<1>1. ASSUME NEW t \in Thread, Lock(t) PROVE IInv'
  BY <1>1, LockStep
<1>2. ASSUME NEW t \in Thread, Count(t) PROVE IInv'
  BY <1>2, CountStep
<1>3. ASSUME NEW t \in Thread, Broadcast(t) PROVE IInv'
  BY <1>3, BroadcastStep
<1>4. ASSUME NEW t \in Thread, CondWait(t) PROVE IInv'
  BY <1>4, CondWaitStep
<1>5. ASSUME NEW t \in Thread, Relock(t) PROVE IInv'
  BY <1>5, RelockStep
<1>6. ASSUME NEW t \in Thread, Unlock(t) PROVE IInv'
  BY <1>6, UnlockStep
<1>7. ASSUME NEW t \in Thread, SpuriousWakeup(t) PROVE IInv'
  BY <1>7, SpuriousWakeupStep
<1>8. CASE UNCHANGED vars
  BY <1>8 DEF vars, IInv, TypeOK, Owner, Counted, Tripped, Inside
<1> QED
  BY <1>1, <1>2, <1>3, <1>4, <1>5, <1>6, <1>7, <1>8 DEF Next, Step

LEMMA Invariance == Spec => []IInv
<1>1. IInv /\ [Next]_vars => IInv'
  BY Inductive
<1> QED
  BY Initial, <1>1, PTL DEF Spec

\* The count never exceeds the trip count, for any number of threads.
THEOREM BarrierTypeCorrect == Spec => []TypeOK
BY Invariance, PTL DEF IInv

\* pthread_barrier_wait counts exactly the threads no broadcast has let go, and
\* touches the count only under the mutex, until a wakeup is spurious.
THEOREM CountCorrect == Spec => []CountIsWaiters
<1>1. IInv => CountIsWaiters
  BY DEF IInv, Owner, Counted, CountIsWaiters
<1>2. Spec => []IInv
  BY Invariance
<1> QED
  BY <1>1, <1>2, PTL
\* Also when wakeups are spurious, a thread asleep in pthread_cond_wait has been
\* counted, so the broadcast that wakes it does not come late.
THEOREM SleepersCorrect == Spec => []SleepersAreCounted
<1>1. IInv => SleepersAreCounted
  BY DEF IInv, Counted, SleepersAreCounted
<1>2. Spec => []IInv
  BY Invariance
<1> QED
  BY <1>1, <1>2, PTL
-----------------------------------------------------------------------------
(* The refinement mapping. *)

Mapped == [t \in Thread |-> Stage(pc[t])]

LEMMA SameCardinality == \A S : Posix!Cardinality(S) = Cardinality(S)
BY DEF Cardinality, Posix!Cardinality, IsFiniteSet, Posix!IsFiniteSet

LEMMA MappedValues ==
  ASSUME TypeOK, NEW t \in Thread
  PROVE  /\ Mapped[t] = "out" <=> pc[t] \in {"out", "locked", "trip"}
         /\ Mapped[t] = "in" <=> pc[t] \in {"cond_wait", "sleep"}
         /\ Mapped[t] = "go" <=> pc[t] \in {"woken", "unlock0", "unlock1"}
         /\ Mapped[t] \in {"out", "in", "go"}
BY DEF TypeOK, PC, Mapped, Stage

\* The threads the abstract barrier holds are those inside but for the one that
\* is about to open it.
LEMMA AbstractIn ==
  ASSUME TypeOK
  PROVE  /\ Posix!In = {t \in Thread : pc[t] \in {"cond_wait", "sleep"}}
         /\ Posix!In \subseteq Inside
         /\ \A t \in Inside : pc[t] # "trip" => t \in Posix!In
BY DEF TypeOK, PC, Posix!In, Inside, Stage

\* A step that keeps every thread on its side of the mapping is a stutter.
LEMMA Stutter ==
  ASSUME TypeOK, TypeOK', NEW t \in Thread, pc' = [pc EXCEPT ![t] = pc'[t]],
         \/ {pc[t], pc'[t]} \subseteq {"out", "locked", "trip"}
         \/ {pc[t], pc'[t]} \subseteq {"cond_wait", "sleep"}
         \/ {pc[t], pc'[t]} \subseteq {"woken", "unlock0", "unlock1"}
  PROVE  Mapped' = Mapped
<1>1. ASSUME NEW u \in Thread PROVE Mapped'[u] = Mapped[u]
  <2>1. CASE u = t
    BY <2>1 DEF Mapped, Stage
  <2>2. CASE u # t
    <3>1. pc'[u] = pc[u]
      BY <2>2 DEF TypeOK
    <3> QED
      BY <3>1 DEF Mapped, Stage
  <2> QED
    BY <2>1, <2>2
<1> QED
  BY <1>1 DEF Mapped, Stage

\* The count of a thread that will wait is its arrival.
LEMMA CountIsArrive ==
  ASSUME ~spurious, IInv, IInv', NEW t \in Thread, Count(t), count + 1 < Trip
  PROVE  Posix!Arrive(t)
<1> USE DEF IInv, Count, Goto
<1>1. pc[t] = "locked" /\ pc' = [pc EXCEPT ![t] = "cond_wait"]
  <2>1. ~(count + 1 >= Trip)
    BY PThreadBarrierAssumption DEF TypeOK
  <2> QED
    BY <2>1
<1>2. Posix!In = Inside
  <2>1. \A u \in Thread : pc[u] # "trip"
    BY <1>1, OneOwner DEF Owning
  <2> QED
    BY <2>1, AbstractIn DEF Inside
<1>3. Cardinality(Posix!In) + 1 < Trip
  BY <1>2 DEF Counted
<1>4. Mapped[t] = "out" /\ Mapped'[t] = "in"
  BY <1>1 DEF Mapped, Stage, TypeOK
<1>5. \A u \in Thread \ {t} : Mapped'[u] = Mapped[u]
  BY <1>1 DEF Mapped, Stage, TypeOK
<1>6. Mapped' = [Mapped EXCEPT ![t] = "in"]
  BY <1>4, <1>5 DEF Mapped, Stage
<1> QED
  BY <1>3, <1>4, <1>6, SameCardinality DEF Posix!Arrive, Mapped, Stage

\* The broadcast opens the abstract barrier for everyone inside.
LEMMA BroadcastIsOpen ==
  ASSUME ~spurious, IInv, IInv', NEW t \in Thread, Broadcast(t)
  PROVE  Posix!Open(t)
<1> USE DEF IInv, Broadcast
<1>1. \A u \in Thread : pc[u] \in Owning => u = t
  BY OneOwner DEF Owning
<1>2. Inside = Posix!In \cup {t} /\ t \notin Posix!In
  BY <1>1, AbstractIn DEF Inside, Owning
<1>3. Cardinality(Posix!In) + 1 = Trip
  <2>1. IsFiniteSet(Posix!In)
    BY AbstractIn, InsideFinite, FS_Subset
  <2>2. Cardinality(Inside) = Trip
    BY DEF Tripped, Counted
  <2> QED
    BY <1>2, <2>1, <2>2, FS_AddElement, FS_CardinalityType, PThreadBarrierAssumption
<1>4. Mapped[t] = "out" /\ Mapped'[t] = "go"
  BY DEF Mapped, Stage, TypeOK
<1>5. ASSUME NEW u \in Thread \ {t}
      PROVE  Mapped'[u] = IF Mapped[u] = "in" THEN "go" ELSE Mapped[u]
  <2>1. pc[u] # "cond_wait"
    BY <1>1, <1>5 DEF Owning
  <2>2. CASE pc[u] = "sleep"
    <3>1. pc'[u] = "woken"
      BY <1>5, <2>2 DEF TypeOK
    <3> QED
      BY <2>2, <3>1, <1>5 DEF Mapped, Stage
  <2>3. CASE pc[u] # "sleep"
    <3>1. pc'[u] = pc[u] /\ Mapped[u] # "in"
      BY <1>5, <2>1, <2>3, MappedValues DEF TypeOK
    <3> QED
      BY <3>1, <1>5 DEF Mapped, Stage
  <2> QED
    BY <2>2, <2>3
<1>6. Mapped' = [u \in Thread |->
                   IF u = t \/ Mapped[u] = "in" THEN "go" ELSE Mapped[u]]
  BY <1>4, <1>5 DEF Mapped, Stage
<1> QED
  BY <1>3, <1>4, <1>6, SameCardinality DEF Posix!Open, Mapped, Stage

LEMMA UnlockIsLeave ==
  ASSUME IInv, IInv', NEW t \in Thread, Unlock(t)
  PROVE  Posix!Leave(t)
<1> USE DEF IInv, Unlock
<1>1. Mapped[t] = "go" /\ Mapped'[t] = "out"
  BY DEF Mapped, Stage, TypeOK
<1>2. \A u \in Thread \ {t} : Mapped'[u] = Mapped[u]
  BY DEF Mapped, Stage, TypeOK
<1>3. Mapped' = [Mapped EXCEPT ![t] = "out"]
  BY <1>1, <1>2 DEF Mapped, Stage
<1> QED
  BY <1>1, <1>3 DEF Posix!Leave, Mapped, Stage

LEMMA StepSimulation ==
  ASSUME ~spurious', IInv, IInv', [Next]_vars
  PROVE  Posix!PosixNext \/ Mapped' = Mapped
<1> USE DEF IInv
<1>0. ~spurious
  BY DEF Next, Step, vars, Lock, Count, Broadcast, CondWait, Relock, Unlock, SpuriousWakeup
<1>1. ASSUME NEW t \in Thread, Lock(t) PROVE Mapped' = Mapped
  BY <1>1, Stutter DEF Lock, Goto, TypeOK
<1>2. ASSUME NEW t \in Thread, Count(t)
      PROVE  Posix!PosixNext \/ Mapped' = Mapped
  <2>1. CASE count + 1 < Trip
    BY <1>2, <2>1, <1>0, CountIsArrive DEF Posix!PosixNext, Count
  <2>2. CASE ~(count + 1 < Trip)
    <3>1. pc' = [pc EXCEPT ![t] = "trip"] /\ pc[t] = "locked"
      <4>1. count + 1 >= Trip
        BY <2>2, PThreadBarrierAssumption DEF TypeOK
      <4> QED
        BY <1>2, <4>1 DEF Count, Goto
    <3> QED
      BY <3>1, Stutter DEF TypeOK
  <2> QED
    BY <2>1, <2>2
<1>3. ASSUME NEW t \in Thread, Broadcast(t) PROVE Posix!PosixNext
  BY <1>3, <1>0, BroadcastIsOpen DEF Posix!PosixNext, Broadcast
<1>4. ASSUME NEW t \in Thread, CondWait(t) PROVE Mapped' = Mapped
  BY <1>4, Stutter DEF CondWait, Goto, TypeOK
<1>5. ASSUME NEW t \in Thread, Relock(t) PROVE Mapped' = Mapped
  BY <1>5, Stutter DEF Relock, Goto, TypeOK
<1>6. ASSUME NEW t \in Thread, Unlock(t) PROVE Posix!PosixNext
  BY <1>6, UnlockIsLeave DEF Posix!PosixNext, Unlock
<1>7. CASE UNCHANGED vars
  BY <1>7 DEF vars, Mapped, Stage
<1> QED
  BY <1>1, <1>2, <1>3, <1>4, <1>5, <1>6, <1>7 DEF Next, Step, SpuriousWakeup

\* pthread_barrier_wait of PThreadBarrier.h, built from a mutex and a condition
\* variable, is the cyclic barrier POSIX specifies and Syncronizer relies on,
\* for any number of threads, as long as no wakeup is spurious.
THEOREM PosixRefinement == Spec => ImplementsPosix
<1>1. Init => Posix!PosixInit
  BY DEF Init, Posix!PosixInit, Stage
<1>2. IInv /\ IInv' /\ [Next]_vars => [Posix!PosixNext]_Posix!posixVars
  <2> SUFFICES ASSUME IInv, IInv', [Next]_vars
               PROVE  [Posix!PosixNext]_Posix!posixVars
    OBVIOUS
  <2>1. CASE spurious'
    BY <2>1 DEF Posix!PosixNext
  <2>2. CASE ~spurious'
    <3>1. spurious' = spurious
      BY <2>2 DEF Next, Step, vars, Lock, Count, Broadcast, CondWait, Relock, Unlock,
                  SpuriousWakeup
    <3> QED
      BY <2>2, <3>1, StepSimulation DEF Mapped, Stage, Posix!posixVars
  <2> QED
    BY <2>1, <2>2
<1> QED
  BY <1>1, <1>2, Invariance, PTL DEF Spec, ImplementsPosix, Posix!PosixSpec
=============================================================================
