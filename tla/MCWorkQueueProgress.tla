------------------------- MODULE MCWorkQueueProgress -------------------------
(* Instances of WorkQueue for TLC: what a thread can count on. *)
EXTENDS WorkQueue

CONSTANTS
  Fair    \* the threads the scheduler always comes back to

VARIABLE
  seen    \* history: how many nodes had been taken when isNotEmpty() began

SeenInit == Init /\ seen = [t \in Thread |-> 0]

\* The first load of isNotEmpty() sets it; it is forgotten with the call.
SeenNext ==
  /\ Next
  /\ seen' = [t \in Thread |->
                IF pc[t] = "look" /\ pc'[t] # "look" THEN Len(taken)
                ELSE IF pc'[t] \in {"idle", "look"} THEN 0 ELSE seen[t]]

(***************************************************************************)
(* A thread outside Fair may be descheduled for good at any point of a     *)
(* call, also between the two CASes of add().                              *)
(***************************************************************************)
FairSpec ==
  /\ SeenInit /\ [][SeenNext]_<<vars, seen>>
  /\ \A t \in Fair : WF_vars(Step(t))

\* nextElement() after a true isNotEmpty() returns NULL only if another
\* consumer has taken a node since isNotEmpty() began: FPGAHandler::scanAtATime,
\* the only consumer of its queue, may dereference the result unchecked.
NullMeansRaced ==
  \A t \in Thread : pc[t] = "null" => Len(taken) > seen[t]

\* Lock freedom of add(): a thread that keeps running returns from add(),
\* wherever the other threads have stopped.
AddReturns == \A t \in Fair : pc[t] \in AddPC ~> pc[t] = "idle"

\* Lock freedom of nextElement(): a thread that keeps running comes back with
\* a node or with NULL, wherever the other threads have stopped.
TakeReturns == \A t \in Fair : pc[t] \in TakePC ~> pc[t] \in {"look", "null"}
=============================================================================
