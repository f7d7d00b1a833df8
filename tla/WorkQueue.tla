------------------------------ MODULE WorkQueue ------------------------------
(***************************************************************************)
(* The lock-free work queue of exec/util/WorkQueue.h, one action per load, *)
(* store or compare-and-swap of add(), nextElement() and isNotEmpty().     *)
(*                                                                         *)
(* Any number of threads add nodes; any number of them run the loop every  *)
(* handler runs on its queue,                                              *)
(*     while (queue->isNotEmpty()) { unit = queue->nextElement(); ... }    *)
(* (CoreHandler.h:27, FPGAHandler.h:69 and 135).                           *)
(*                                                                         *)
(* Loads take effect in program order, as on the x86-64 hosts the FPGA     *)
(* card plugs into.  compare_exchange_weak may fail although the values    *)
(* agree only if WeakCasMayFail (the C++ standard allows it, x86-64 never  *)
(* does it).                                                               *)
(***************************************************************************)
EXTENDS Naturals, Sequences

CONSTANTS
  Thread,           \* threads that share the queue
  Node,             \* the nodes, new Node(...) in addWorkItems
  Dummy,            \* the node the constructor allocates
  NULL,
  WeakCasMayFail,   \* may compare_exchange_weak fail spuriously?
  MayAdd,           \* the threads that call add()
  MayTake           \* the threads that run the consumer loop

ASSUME WorkQueueAssumption ==
  /\ Dummy \in Node
  /\ NULL \notin Node
  /\ WeakCasMayFail \in BOOLEAN
  /\ MayAdd \subseteq Thread
  /\ MayTake \subseteq Thread

VARIABLES
  head, tail,       \* atomic<Node*> head, tail
  next,             \* Node::next, an atomic<Node*> in each node
  pc,               \* where each thread is
  node,             \* add()'s argument
  first, last, nxt, \* the locals first, last, next of the two loops
  chain,            \* history: every node ever linked, in link order
  taken             \* history: every node ever returned, in return order

shared == <<head, tail, next>>
locals == <<node, first, last, nxt>>
history == <<chain, taken>>
vars == <<head, tail, next, pc, node, first, last, nxt, chain, taken>>

AddPC  == {"add_tail", "add_next", "add_check", "add_link", "add_swing",
           "add_help"}
TakePC == {"take_head", "take_tail", "take_next", "take_check", "take_help",
           "take_advance"}
LookPC == {"look", "look_head", "look_tail"}

\* "idle": outside the queue.  "null": nextElement() has returned NULL.
PC == AddPC \cup TakePC \cup LookPC \cup {"idle", "null"}

TypeOK ==
  /\ head \in Node
  /\ tail \in Node
  /\ next \in [Node -> Node \cup {NULL}]
  /\ pc \in [Thread -> PC]
  /\ node \in [Thread -> Node]
  /\ first \in [Thread -> Node]
  /\ last \in [Thread -> Node]
  /\ nxt \in [Thread -> Node \cup {NULL}]
  /\ chain \in Seq(Node)
  /\ taken \in Seq(Node)

-----------------------------------------------------------------------------
\* The constructor: head and tail point to the dummy node.
Init ==
  /\ head = Dummy
  /\ tail = Dummy
  /\ next = [n \in Node |-> NULL]
  /\ pc = [t \in Thread |-> "idle"]
  /\ node = [t \in Thread |-> Dummy]
  /\ first = [t \in Thread |-> Dummy]
  /\ last = [t \in Thread |-> Dummy]
  /\ nxt = [t \in Thread |-> NULL]
  /\ chain = <<Dummy>>
  /\ taken = <<>>

Goto(t, from, to) ==
  /\ pc[t] = from
  /\ pc' = [pc EXCEPT ![t] = to]

\* Nobody has this node yet: addWorkItems() allocates one for every add().
Fresh(n) ==
  /\ \A i \in DOMAIN chain : chain[i] # n
  /\ \A t \in Thread : pc[t] \in AddPC => node[t] # n

\* Mutant: tail is stored to, whatever it has become meanwhile.
StoreTail(expected, new) == tail' = new

\* tail.compare_exchange_weak(expected, new)
CasTail(expected, new) ==
  \/ /\ tail = expected
     /\ tail' = new
  \/ /\ tail # expected \/ WeakCasMayFail
     /\ UNCHANGED tail

-----------------------------------------------------------------------------
(* add(node) *)

AddBegin(t, n) ==
  /\ t \in MayAdd
  /\ Fresh(n)
  /\ Goto(t, "idle", "add_tail")
  /\ node' = [node EXCEPT ![t] = n]
  /\ UNCHANGED <<shared, first, last, nxt, history>>

\* Node *last = tail;
AddReadTail(t) ==
  /\ Goto(t, "add_tail", "add_next")
  /\ last' = [last EXCEPT ![t] = tail]
  /\ UNCHANGED <<shared, node, first, nxt, history>>

\* Node *next = last->next;
AddReadNext(t) ==
  /\ Goto(t, "add_next", "add_check")
  /\ nxt' = [nxt EXCEPT ![t] = next[last[t]]]
  /\ UNCHANGED <<shared, node, first, last, history>>

\* if (last == tail) { if (next == NULL) link else help }, or start again.
AddCheck(t) ==
  /\ \/ last[t] # tail /\ Goto(t, "add_check", "add_tail")
     \/ last[t] = tail /\ nxt[t] = NULL /\ Goto(t, "add_check", "add_link")
     \/ last[t] = tail /\ nxt[t] # NULL /\ Goto(t, "add_check", "add_help")
  /\ UNCHANGED <<shared, locals, history>>

\* Mutant: last->next is stored to without looking at it again.
AddLinkByStore(t) ==
  /\ Goto(t, "add_link", "add_swing")
  /\ next' = [next EXCEPT ![last[t]] = node[t]]
  /\ chain' = Append(chain, node[t])
  /\ UNCHANGED <<head, tail, locals, taken>>

\* The CAS of last->next succeeds: the node is in the queue.
AddLink(t) ==
  /\ next[last[t]] = NULL
  /\ Goto(t, "add_link", "add_swing")
  /\ next' = [next EXCEPT ![last[t]] = node[t]]
  /\ chain' = Append(chain, node[t])
  /\ UNCHANGED <<head, tail, locals, taken>>

AddLinkFails(t) ==
  /\ next[last[t]] # NULL \/ WeakCasMayFail
  /\ Goto(t, "add_link", "add_tail")
  /\ UNCHANGED <<shared, locals, history>>

\* Mutant: add() returns without moving tail.
AddNoSwing(t) ==
  /\ Goto(t, "add_swing", "idle")
  /\ UNCHANGED <<shared, locals, history>>

\* tail.compare_exchange_weak(last, node); return;
AddSwing(t) ==
  /\ Goto(t, "add_swing", "idle")
  /\ CasTail(last[t], node[t])
  /\ UNCHANGED <<head, next, locals, history>>

\* Mutant: wait for the other add() instead of helping it.
AddNoHelp(t) ==
  /\ Goto(t, "add_help", "add_tail")
  /\ UNCHANGED <<shared, locals, history>>

\* tail.compare_exchange_weak(last, next), then start again.
AddHelp(t) ==
  /\ Goto(t, "add_help", "add_tail")
  /\ CasTail(last[t], nxt[t])
  /\ UNCHANGED <<head, next, locals, history>>

-----------------------------------------------------------------------------
(* while (isNotEmpty()): getHead() != getTail().  C++ leaves open which of *)
(* the two calls comes first.                                              *)

LoopBegin(t) ==
  /\ t \in MayTake
  /\ Goto(t, "idle", "look")
  /\ UNCHANGED <<shared, locals, history>>

LookReadHead(t) ==
  /\ Goto(t, "look", "look_tail")
  /\ first' = [first EXCEPT ![t] = head]
  /\ UNCHANGED <<shared, node, last, nxt, history>>

LookReadTail(t) ==
  /\ Goto(t, "look", "look_head")
  /\ last' = [last EXCEPT ![t] = tail]
  /\ UNCHANGED <<shared, node, first, nxt, history>>

\* Mutant: the loop is entered without a second look.
LookNoDecide(t) ==
  /\ Goto(t, "look_tail", "take_head") \/ Goto(t, "look_head", "take_head")
  /\ UNCHANGED <<shared, locals, history>>

\* The second load: enter the loop body or leave the loop.
LookDecide(t) ==
  /\ \/ Goto(t, "look_tail", IF first[t] # tail THEN "take_head" ELSE "idle")
     \/ Goto(t, "look_head", IF head # last[t] THEN "take_head" ELSE "idle")
  /\ UNCHANGED <<shared, locals, history>>

-----------------------------------------------------------------------------
(* nextElement() *)

TakeReadHead(t) ==
  /\ Goto(t, "take_head", "take_tail")
  /\ first' = [first EXCEPT ![t] = head]
  /\ UNCHANGED <<shared, node, last, nxt, history>>

TakeReadTail(t) ==
  /\ Goto(t, "take_tail", "take_next")
  /\ last' = [last EXCEPT ![t] = tail]
  /\ UNCHANGED <<shared, node, first, nxt, history>>

TakeReadNext(t) ==
  /\ Goto(t, "take_next", "take_check")
  /\ nxt' = [nxt EXCEPT ![t] = next[first[t]]]
  /\ UNCHANGED <<shared, node, first, last, history>>

\* Mutant: head is advanced without comparing it with tail.
TakeCheckNoTail(t) ==
  /\ \/ first[t] # head /\ Goto(t, "take_check", "take_head")
     \/ first[t] = head /\ Goto(t, "take_check", "take_advance")
  /\ UNCHANGED <<shared, locals, history>>

\* if (first == head) { if (first == last) { if (next == NULL) return NULL; help }
\*                      else advance }, or start again.
TakeCheck(t) ==
  /\ \/ /\ first[t] # head
        /\ Goto(t, "take_check", "take_head")
     \/ /\ first[t] = head /\ first[t] = last[t] /\ nxt[t] = NULL
        /\ Goto(t, "take_check", "null")
     \/ /\ first[t] = head /\ first[t] = last[t] /\ nxt[t] # NULL
        /\ Goto(t, "take_check", "take_help")
     \/ /\ first[t] = head /\ first[t] # last[t]
        /\ Goto(t, "take_check", "take_advance")
  /\ UNCHANGED <<shared, locals, history>>

\* Mutant: wait for the add() in progress instead of helping it.
TakeNoHelp(t) ==
  /\ Goto(t, "take_help", "take_head")
  /\ UNCHANGED <<shared, locals, history>>

TakeHelp(t) ==
  /\ Goto(t, "take_help", "take_head")
  /\ CasTail(last[t], nxt[t])
  /\ UNCHANGED <<head, next, locals, history>>

\* Mutant: head is stored to, so two threads can take the same node.
TakeAdvanceByStore(t) ==
  /\ Goto(t, "take_advance", "look")
  /\ head' = nxt[t]
  /\ taken' = Append(taken, nxt[t])
  /\ UNCHANGED <<tail, next, locals, chain>>

\* Mutant: the old dummy is returned instead of its successor.
TakeReturnsDummy(t) ==
  /\ head = first[t]
  /\ Goto(t, "take_advance", "look")
  /\ head' = nxt[t]
  /\ taken' = Append(taken, first[t])
  /\ UNCHANGED <<tail, next, locals, chain>>

\* The CAS of head succeeds: return next.  The caller loops.
TakeAdvance(t) ==
  /\ head = first[t]
  /\ Goto(t, "take_advance", "look")
  /\ head' = nxt[t]
  /\ taken' = Append(taken, nxt[t])
  /\ UNCHANGED <<tail, next, locals, chain>>

TakeAdvanceFails(t) ==
  /\ head # first[t] \/ WeakCasMayFail
  /\ Goto(t, "take_advance", "take_head")
  /\ UNCHANGED <<shared, locals, history>>

\* CoreHandler::scanAtATime uses a NULL work unit like any other, and loops.
AfterNull(t) ==
  /\ Goto(t, "null", "look")
  /\ UNCHANGED <<shared, locals, history>>

-----------------------------------------------------------------------------
AddStep(t) ==
  \/ AddReadTail(t) \/ AddReadNext(t) \/ AddCheck(t) \/ AddLink(t)
  \/ AddLinkFails(t) \/ AddSwing(t) \/ AddHelp(t)

LookStep(t) == LookReadHead(t) \/ LookReadTail(t) \/ LookDecide(t)

TakeStep(t) ==
  \/ TakeReadHead(t) \/ TakeReadTail(t) \/ TakeReadNext(t) \/ TakeCheck(t)
  \/ TakeHelp(t) \/ TakeAdvance(t) \/ TakeAdvanceFails(t) \/ AfterNull(t)

\* One step of a call in progress.
Step(t) == AddStep(t) \/ LookStep(t) \/ TakeStep(t)

Next ==
  \E t \in Thread : Step(t) \/ LoopBegin(t) \/ \E n \in Node : AddBegin(t, n)

Spec == Init /\ [][Next]_vars

-----------------------------------------------------------------------------
(* Safety *)

\* The list through Node::next visits exactly the nodes ever linked, in link
\* order, and ends there: add()'s CAS never cuts or forks the list.
ListIsChain ==
  /\ \A i \in 1..Len(chain)-1 : next[chain[i]] = chain[i+1]
  /\ next[chain[Len(chain)]] = NULL
  /\ \A i, j \in 1..Len(chain) : chain[i] = chain[j] => i = j

\* nextElement() hands the nodes out in the order add() linked them, each one
\* once, and head stands at the last one handed out.
TakenInOrder ==
  /\ Len(taken) < Len(chain)
  /\ \A i \in 1..Len(taken) : taken[i] = chain[i+1]
  /\ head = chain[Len(taken)+1]

\* tail is at the end of the list or one node short of it, and never behind
\* head, however add() and the helping CASes of both loops interleave.
TailNearEnd ==
  \E k \in Len(taken)+1 .. Len(chain) :
     tail = chain[k] /\ k >= Len(chain) - 1

\* With a CAS that does not fail spuriously, tail is short of the end only
\* while some add() stands between its two CASes: once every add() has
\* returned, isNotEmpty() sees every node.
TailLagsOnlyDuringAdd ==
  tail # chain[Len(chain)] => \E t \in Thread : pc[t] = "add_swing"

\* The queue the clients see.
Contents == SubSeq(chain, Len(taken) + 2, Len(chain))

Fifo == INSTANCE FifoQueue WITH queue <- Contents

\* Every step of the loops is add(), nextElement() or nothing for a client.
ImplementsFifo == Fifo!Spec
=============================================================================
