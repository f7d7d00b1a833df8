------------------------------ MODULE FifoQueue ------------------------------
(***************************************************************************)
(* What a WorkQueue promises its clients: a first-in first-out queue whose *)
(* two operations take effect at once.  Threads, retries and the lagging   *)
(* tail pointer of exec/util/WorkQueue.h do not exist at this level.       *)
(***************************************************************************)
EXTENDS Sequences

CONSTANT Node       \* the queue nodes, each of them added at most once

VARIABLES queue,    \* nodes added and not yet taken, oldest first
          taken     \* nodes handed out so far, in the order of their return

vars == <<queue, taken>>

Init == queue = <<>> /\ taken = <<>>

\* add(): the node goes to the end of the queue.
Add(n) == queue' = Append(queue, n) /\ UNCHANGED taken

\* nextElement(), when it does not return NULL.
Take ==
  /\ queue # <<>>
  /\ taken' = Append(taken, Head(queue))
  /\ queue' = Tail(queue)

Next == Take \/ \E n \in Node : Add(n)

Spec == Init /\ [][Next]_vars
=============================================================================
