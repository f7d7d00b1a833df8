----------------------------- MODULE PosixBarrier -----------------------------
(***************************************************************************)
(* What the callers of Syncronizer rely on: the cyclic barrier POSIX       *)
(* specifies for pthread_barrier_wait.  The Trip-th thread to arrive lets  *)
(* all of them go, once each; the barrier is then as it was initialised.   *)
(* Nothing is said once the barrier is broken.                             *)
(***************************************************************************)
EXTENDS Naturals, FiniteSets

CONSTANTS Thread, Trip

VARIABLES
  st,       \* each thread is outside, waiting inside, or let go
  broken    \* has something happened that the implementation does not allow for?

posixVars == <<st, broken>>

PosixInit == st = [t \in Thread |-> "out"] /\ ~broken

In == {t \in Thread : st[t] = "in"}

Arrive(t) ==
  /\ st[t] = "out"
  /\ Cardinality(In) + 1 < Trip
  /\ st' = [st EXCEPT ![t] = "in"]

Open(t) ==
  /\ st[t] = "out"
  /\ Cardinality(In) + 1 = Trip
  /\ st' = [u \in Thread |-> IF u = t \/ st[u] = "in" THEN "go" ELSE st[u]]

Leave(t) ==
  /\ st[t] = "go"
  /\ st' = [st EXCEPT ![t] = "out"]

PosixNext ==
  \/ (\E t \in Thread : Arrive(t) \/ Open(t) \/ Leave(t)) /\ UNCHANGED broken
  \/ broken'

PosixSpec == PosixInit /\ [][PosixNext]_posixVars
=============================================================================
