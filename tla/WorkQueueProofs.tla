--------------------------- MODULE WorkQueueProofs ---------------------------
(***************************************************************************)
(* Machine-checked proofs about WorkQueue, for any number of threads and   *)
(* nodes: first of the queue itself, whether or not compare_exchange_weak  *)
(* fails spuriously, and at the end of what its clients may count on.      *)
(***************************************************************************)
EXTENDS MCWorkQueueProgress, TLAPS

\* n was linked no later than m.
Before(n, m) ==
  \E i, j \in 1..Len(chain) : i <= j /\ chain[i] = n /\ chain[j] = m

\* add() still holds its node for itself.
Owns(t) == pc[t] \in AddPC \ {"add_swing"}

\* A node some add() still owns is outside the list, belongs to one thread,
\* and, as every node outside the list, has no successor.
Ownership ==
  /\ \A t \in Thread : Owns(t) => \A i \in 1..Len(chain) : chain[i] # node[t]
  /\ \A t, u \in Thread : Owns(t) /\ Owns(u) /\ node[t] = node[u] => t = u
  /\ \A n \in Node : (\A i \in 1..Len(chain) : chain[i] # n) => next[n] = NULL

\* What the locals of add() know.
AddLocals(t) ==
  /\ pc[t] \in {"add_next", "add_check", "add_link", "add_help"}
       => Before(last[t], tail)
  /\ pc[t] = "add_check" /\ nxt[t] # NULL => nxt[t] = next[last[t]]
  /\ pc[t] = "add_help" => nxt[t] # NULL /\ nxt[t] = next[last[t]]
  /\ pc[t] = "add_swing" => next[last[t]] = node[t] /\ Before(last[t], last[t])

\* What the locals of nextElement() know.
TakeLocals(t) ==
  /\ pc[t] \in TakePC \ {"take_head"} => Before(first[t], head)
  /\ pc[t] \in TakePC \ {"take_head", "take_tail"}
       => Before(first[t], last[t]) /\ Before(last[t], tail)
  /\ pc[t] \in {"take_check", "take_help", "take_advance"} /\ nxt[t] # NULL
       => nxt[t] = next[first[t]]
  /\ pc[t] = "take_check" /\ first[t] # last[t] => nxt[t] # NULL
  /\ pc[t] = "take_help" => nxt[t] # NULL /\ first[t] = last[t]
  /\ pc[t] = "take_advance" => nxt[t] # NULL /\ first[t] # last[t]

LocalsInv == \A t \in Thread : AddLocals(t) /\ TakeLocals(t)

ListInv == ListIsChain /\ TakenInOrder /\ TailNearEnd

\* The inductive invariant.
IInv == TypeOK /\ ListInv /\ Ownership /\ LocalsInv

\* What every step does to the shared state: the list grows at its end, head
\* and tail move forward, and a successor, once set, stays.
Progress ==
  /\ chain' = chain \/ \E n \in Node : chain' = Append(chain, n)
  /\ \A m \in Node : Before(m, head) => Before(m, head)'
  /\ \A m \in Node : Before(m, tail) => Before(m, tail)'
  /\ \A m \in Node : next[m] # NULL => next'[m] = next[m]

-----------------------------------------------------------------------------
(* Sequences *)

\* Append keeps every element where it is and puts the new one last.
LEMMA AppendElements ==
  ASSUME NEW S, NEW s \in Seq(S), NEW x \in S
  PROVE  /\ Append(s, x) \in Seq(S)
         /\ Len(s) \in Nat
         /\ Len(Append(s, x)) = Len(s) + 1
         /\ \A i \in 1..Len(s) : Append(s, x)[i] = s[i]
         /\ Append(s, x)[Len(s) + 1] = x
  OBVIOUS

-----------------------------------------------------------------------------
(* Order in the list *)

LEMMA BeforeReflexive ==
  ASSUME TypeOK, NEW i \in 1..Len(chain)
  PROVE  Before(chain[i], chain[i])
  BY DEF Before, TypeOK

\* With distinct positions, the order of two positions is the order of their
\* nodes.
LEMMA BeforeTransitive ==
  ASSUME TypeOK, ListIsChain, NEW a, NEW b, NEW c, Before(a, b), Before(b, c)
  PROVE  Before(a, c)
  BY DEF Before, TypeOK, ListIsChain

LEMMA HeadBeforeTail ==
  ASSUME TypeOK, ListInv
  PROVE  Before(head, tail) /\ Before(head, head) /\ Before(tail, tail)
<1>1. PICK k \in Len(taken)+1 .. Len(chain) : tail = chain[k]
  BY DEF ListInv, TailNearEnd
<1>2. /\ Len(taken)+1 \in 1..Len(chain) /\ k \in 1..Len(chain)
      /\ Len(taken)+1 <= k /\ head = chain[Len(taken)+1]
  BY <1>1 DEF TypeOK, ListInv, TakenInOrder
<1>3. Before(head, tail)
  BY <1>1, <1>2 DEF Before
<1>. QED
  BY <1>1, <1>2, <1>3, BeforeReflexive

\* A node other than the later of the two has its successor in the list, no
\* later than the later one.
LEMMA SuccessorBefore ==
  ASSUME TypeOK, ListIsChain, NEW a, NEW b, Before(a, b), a # b
  PROVE  Before(next[a], b) /\ next[a] \in Node
<1>1. PICK i, j \in 1..Len(chain) : i <= j /\ chain[i] = a /\ chain[j] = b
  BY DEF Before
<1>2. i < j /\ i \in 1..Len(chain)-1 /\ i+1 \in 1..Len(chain) /\ i+1 <= j
  BY <1>1 DEF TypeOK
<1>3. next[a] = chain[i+1]
  BY <1>1, <1>2 DEF ListIsChain
<1>. QED
  BY <1>1, <1>2, <1>3 DEF Before, TypeOK

\* While the list only grows at its end, order in it is kept.
LEMMA BeforeStable ==
  ASSUME TypeOK, NEW a, NEW b, Before(a, b),
         \/ chain' = chain
         \/ \E n \in Node : chain' = Append(chain, n)
  PROVE  Before(a, b)'
<1>1. CASE chain' = chain
  BY <1>1 DEF Before
<1>2. ASSUME NEW n \in Node, chain' = Append(chain, n)
      PROVE  Before(a, b)'
  BY <1>2, AppendElements DEF Before, TypeOK
<1>. QED
  BY <1>1, <1>2

-----------------------------------------------------------------------------
(* Steps *)

\* A step of one thread leaves what another thread's locals know true.
LEMMA OtherLocals ==
  ASSUME IInv, Progress, NEW u \in Thread, pc'[u] = pc[u],
         node'[u] = node[u], first'[u] = first[u], last'[u] = last[u],
         nxt'[u] = nxt[u]
  PROVE  AddLocals(u)' /\ TakeLocals(u)'
<1>1. first[u] \in Node /\ last[u] \in Node /\ node[u] \in Node
      /\ NULL \notin Node
  BY WorkQueueAssumption DEF IInv, TypeOK
<1>2. \A a, b : Before(a, b) => Before(a, b)'
  BY BeforeStable DEF IInv, Progress
<1>3. AddLocals(u)'
  BY <1>1, <1>2 DEF IInv, LocalsInv, AddLocals, Progress
<1>4. TakeLocals(u)'
  BY <1>1, <1>2 DEF IInv, LocalsInv, TakeLocals, Progress
<1>. QED
  BY <1>3, <1>4

\* A step that changes no shared variable, no history and no add() argument,
\* and after which no thread owns a node it did not own before.
LEMMA QuietStep ==
  ASSUME IInv, UNCHANGED <<shared, history, node>>,
         \A u \in Thread : Owns(u)' => Owns(u)
  PROVE  ListInv' /\ Ownership' /\ Progress
<1>1. ListInv'
  BY DEF IInv, ListInv, ListIsChain, TakenInOrder, TailNearEnd, shared, history
<1>2. Ownership'
  BY DEF IInv, Ownership, shared, history
<1>3. Progress
  BY DEF Progress, Before, shared, history
<1>. QED
  BY <1>1, <1>2, <1>3

LEMMA Initial == Init => IInv
<1>. SUFFICES ASSUME Init PROVE IInv
  OBVIOUS
<1>1. TypeOK
  <2>1. <<Dummy>> \in Seq(Node) /\ <<>> \in Seq(Node)
    BY WorkQueueAssumption
  <2>. QED
    BY <2>1, WorkQueueAssumption DEF Init, TypeOK, PC
<1>2. /\ Len(chain) = 1 /\ chain[1] = Dummy /\ Len(taken) = 0
      /\ head = Dummy /\ tail = Dummy /\ next[Dummy] = NULL
  BY WorkQueueAssumption DEF Init
<1>3. ListInv
  BY <1>2 DEF ListInv, ListIsChain, TakenInOrder, TailNearEnd
<1>4. Ownership
  BY DEF Init, Ownership, Owns, AddPC
<1>5. LocalsInv
  BY DEF Init, LocalsInv, AddLocals, TakeLocals, TakePC
<1>. QED
  BY <1>1, <1>3, <1>4, <1>5 DEF IInv

LEMMA AddBeginStep ==
  ASSUME IInv, NEW t \in Thread, NEW n \in Node, AddBegin(t, n)
  PROVE  IInv'
<1>. USE DEF AddBegin, Goto, shared, history
<1>1. TypeOK'
  BY DEF IInv, TypeOK, PC, AddPC
<1>2. ListInv'
  BY DEF IInv, ListInv, ListIsChain, TakenInOrder, TailNearEnd
<1>3. Ownership'
  BY DEF IInv, TypeOK, Ownership, Owns, AddPC, Fresh
<1>4. Progress
  BY DEF Progress, Before
<1>5. AddLocals(t)' /\ TakeLocals(t)'
  BY DEF IInv, TypeOK, AddLocals, TakeLocals, TakePC
<1>6. ASSUME NEW u \in Thread, u # t
      PROVE  AddLocals(u)' /\ TakeLocals(u)'
  BY <1>4, <1>6, OtherLocals DEF IInv, TypeOK
<1>. QED
  BY <1>1, <1>2, <1>3, <1>5, <1>6 DEF IInv, LocalsInv

LEMMA AddReadTailStep ==
  ASSUME IInv, NEW t \in Thread, AddReadTail(t)
  PROVE  IInv'
<1>. USE DEF AddReadTail, Goto
<1>1. TypeOK'
  BY DEF IInv, TypeOK, PC, AddPC, TakePC, LookPC, shared, history, locals
<1>2. ListInv' /\ Ownership' /\ Progress
  BY QuietStep DEF IInv, TypeOK, Owns, AddPC, locals
<1>3. AddLocals(t)' /\ TakeLocals(t)'
  <2>1. \A a, b : Before(a, b)' <=> Before(a, b)
    BY DEF Before, shared, history
  <2>. QED
    BY <2>1, HeadBeforeTail DEF IInv, TypeOK, LocalsInv, AddLocals, TakeLocals, TakePC, shared
<1>4. ASSUME NEW u \in Thread, u # t
      PROVE  AddLocals(u)' /\ TakeLocals(u)'
  BY <1>2, <1>4, OtherLocals DEF IInv, TypeOK, locals
<1>. QED
  BY <1>1, <1>2, <1>3, <1>4 DEF IInv, LocalsInv

LEMMA AddReadNextStep ==
  ASSUME IInv, NEW t \in Thread, AddReadNext(t)
  PROVE  IInv'
<1>. USE DEF AddReadNext, Goto
<1>1. TypeOK'
  BY DEF IInv, TypeOK, PC, AddPC, TakePC, LookPC, shared, history, locals
<1>2. ListInv' /\ Ownership' /\ Progress
  BY QuietStep DEF IInv, TypeOK, Owns, AddPC, locals
<1>3. AddLocals(t)' /\ TakeLocals(t)'
  <2>1. \A a, b : Before(a, b)' <=> Before(a, b)
    BY DEF Before, shared, history
  <2>. QED
    BY <2>1 DEF IInv, TypeOK, LocalsInv, AddLocals, TakeLocals, TakePC, shared
<1>4. ASSUME NEW u \in Thread, u # t
      PROVE  AddLocals(u)' /\ TakeLocals(u)'
  BY <1>2, <1>4, OtherLocals DEF IInv, TypeOK, locals
<1>. QED
  BY <1>1, <1>2, <1>3, <1>4 DEF IInv, LocalsInv

LEMMA AddCheckStep ==
  ASSUME IInv, NEW t \in Thread, AddCheck(t)
  PROVE  IInv'
<1>. USE DEF AddCheck, Goto
<1>1. TypeOK'
  BY DEF IInv, TypeOK, PC, AddPC, TakePC, LookPC, shared, history, locals
<1>2. ListInv' /\ Ownership' /\ Progress
  BY QuietStep DEF IInv, TypeOK, Owns, AddPC, locals
<1>3. AddLocals(t)' /\ TakeLocals(t)'
  <2>1. \A a, b : Before(a, b)' <=> Before(a, b)
    BY DEF Before, shared, history
  <2>. QED
    BY <2>1 DEF IInv, TypeOK, LocalsInv, AddLocals, TakeLocals, TakePC, shared, locals
<1>4. ASSUME NEW u \in Thread, u # t
      PROVE  AddLocals(u)' /\ TakeLocals(u)'
  BY <1>2, <1>4, OtherLocals DEF IInv, TypeOK, locals
<1>. QED
  BY <1>1, <1>2, <1>3, <1>4 DEF IInv, LocalsInv

LEMMA AddLinkFailsStep ==
  ASSUME IInv, NEW t \in Thread, AddLinkFails(t)
  PROVE  IInv'
<1>. USE DEF AddLinkFails, Goto
<1>1. TypeOK'
  BY DEF IInv, TypeOK, PC, AddPC, TakePC, LookPC, shared, history, locals
<1>2. ListInv' /\ Ownership' /\ Progress
  BY QuietStep DEF IInv, TypeOK, Owns, AddPC, locals
<1>3. AddLocals(t)' /\ TakeLocals(t)'
  BY DEF IInv, TypeOK, LocalsInv, AddLocals, TakeLocals, TakePC, shared, history, locals
<1>4. ASSUME NEW u \in Thread, u # t
      PROVE  AddLocals(u)' /\ TakeLocals(u)'
  BY <1>2, <1>4, OtherLocals DEF IInv, TypeOK, locals
<1>. QED
  BY <1>1, <1>2, <1>3, <1>4 DEF IInv, LocalsInv

LEMMA LookReadHeadStep ==
  ASSUME IInv, NEW t \in Thread, LookReadHead(t)
  PROVE  IInv'
<1>. USE DEF LookReadHead, Goto
<1>1. TypeOK'
  BY DEF IInv, TypeOK, PC, AddPC, TakePC, LookPC, shared, history, locals
<1>2. ListInv' /\ Ownership' /\ Progress
  BY QuietStep DEF IInv, TypeOK, Owns, AddPC, locals
<1>3. AddLocals(t)' /\ TakeLocals(t)'
  BY DEF IInv, TypeOK, LocalsInv, AddLocals, TakeLocals, TakePC, shared, history, locals
<1>4. ASSUME NEW u \in Thread, u # t
      PROVE  AddLocals(u)' /\ TakeLocals(u)'
  BY <1>2, <1>4, OtherLocals DEF IInv, TypeOK, locals
<1>. QED
  BY <1>1, <1>2, <1>3, <1>4 DEF IInv, LocalsInv

LEMMA LookReadTailStep ==
  ASSUME IInv, NEW t \in Thread, LookReadTail(t)
  PROVE  IInv'
<1>. USE DEF LookReadTail, Goto
<1>1. TypeOK'
  BY DEF IInv, TypeOK, PC, AddPC, TakePC, LookPC, shared, history, locals
<1>2. ListInv' /\ Ownership' /\ Progress
  BY QuietStep DEF IInv, TypeOK, Owns, AddPC, locals
<1>3. AddLocals(t)' /\ TakeLocals(t)'
  BY DEF IInv, TypeOK, LocalsInv, AddLocals, TakeLocals, TakePC, shared, history, locals
<1>4. ASSUME NEW u \in Thread, u # t
      PROVE  AddLocals(u)' /\ TakeLocals(u)'
  BY <1>2, <1>4, OtherLocals DEF IInv, TypeOK, locals
<1>. QED
  BY <1>1, <1>2, <1>3, <1>4 DEF IInv, LocalsInv

LEMMA LookDecideStep ==
  ASSUME IInv, NEW t \in Thread, LookDecide(t)
  PROVE  IInv'
<1>. USE DEF LookDecide, Goto
<1>1. TypeOK'
  BY DEF IInv, TypeOK, PC, AddPC, TakePC, LookPC, shared, history, locals
<1>2. ListInv' /\ Ownership' /\ Progress
  BY QuietStep DEF IInv, TypeOK, Owns, AddPC, locals
<1>3. AddLocals(t)' /\ TakeLocals(t)'
  BY DEF IInv, TypeOK, LocalsInv, AddLocals, TakeLocals, TakePC, shared, history, locals
<1>4. ASSUME NEW u \in Thread, u # t
      PROVE  AddLocals(u)' /\ TakeLocals(u)'
  BY <1>2, <1>4, OtherLocals DEF IInv, TypeOK, locals
<1>. QED
  BY <1>1, <1>2, <1>3, <1>4 DEF IInv, LocalsInv

LEMMA TakeReadHeadStep ==
  ASSUME IInv, NEW t \in Thread, TakeReadHead(t)
  PROVE  IInv'
<1>. USE DEF TakeReadHead, Goto
<1>1. TypeOK'
  BY DEF IInv, TypeOK, PC, AddPC, TakePC, LookPC, shared, history, locals
<1>2. ListInv' /\ Ownership' /\ Progress
  BY QuietStep DEF IInv, TypeOK, Owns, AddPC, locals
<1>3. AddLocals(t)' /\ TakeLocals(t)'
  <2>1. \A a, b : Before(a, b)' <=> Before(a, b)
    BY DEF Before, shared, history
  <2>. QED
    BY <2>1, HeadBeforeTail DEF IInv, TypeOK, LocalsInv, AddLocals, TakeLocals, TakePC, shared
<1>4. ASSUME NEW u \in Thread, u # t
      PROVE  AddLocals(u)' /\ TakeLocals(u)'
  BY <1>2, <1>4, OtherLocals DEF IInv, TypeOK, locals
<1>. QED
  BY <1>1, <1>2, <1>3, <1>4 DEF IInv, LocalsInv

LEMMA TakeReadTailStep ==
  ASSUME IInv, NEW t \in Thread, TakeReadTail(t)
  PROVE  IInv'
<1>. USE DEF TakeReadTail, Goto
<1>1. TypeOK'
  BY DEF IInv, TypeOK, PC, AddPC, TakePC, LookPC, shared, history, locals
<1>2. ListInv' /\ Ownership' /\ Progress
  BY QuietStep DEF IInv, TypeOK, Owns, AddPC, locals
<1>3. AddLocals(t)' /\ TakeLocals(t)'
  <2>1. \A a, b : Before(a, b)' <=> Before(a, b)
    BY DEF Before, shared, history
  <2>2. Before(first[t], tail)
    BY HeadBeforeTail, BeforeTransitive DEF IInv, ListInv, LocalsInv, TakeLocals, TakePC
  <2>. QED
    BY <2>1, <2>2, HeadBeforeTail DEF IInv, TypeOK, LocalsInv, AddLocals, TakeLocals, TakePC, shared
<1>4. ASSUME NEW u \in Thread, u # t
      PROVE  AddLocals(u)' /\ TakeLocals(u)'
  BY <1>2, <1>4, OtherLocals DEF IInv, TypeOK, locals
<1>. QED
  BY <1>1, <1>2, <1>3, <1>4 DEF IInv, LocalsInv

LEMMA TakeReadNextStep ==
  ASSUME IInv, NEW t \in Thread, TakeReadNext(t)
  PROVE  IInv'
<1>. USE DEF TakeReadNext, Goto
<1>1. TypeOK'
  BY DEF IInv, TypeOK, PC, AddPC, TakePC, LookPC, shared, history, locals
<1>2. ListInv' /\ Ownership' /\ Progress
  BY QuietStep DEF IInv, TypeOK, Owns, AddPC, locals
<1>3. AddLocals(t)' /\ TakeLocals(t)'
  <2>1. \A a, b : Before(a, b)' <=> Before(a, b)
    BY DEF Before, shared, history
  <2>2. first[t] # last[t] => next[first[t]] # NULL
    BY SuccessorBefore, WorkQueueAssumption
    DEF IInv, ListInv, LocalsInv, TakeLocals, TakePC
  <2>. QED
    BY <2>1, <2>2 DEF IInv, TypeOK, LocalsInv, AddLocals, TakeLocals, TakePC, shared
<1>4. ASSUME NEW u \in Thread, u # t
      PROVE  AddLocals(u)' /\ TakeLocals(u)'
  BY <1>2, <1>4, OtherLocals DEF IInv, TypeOK, locals
<1>. QED
  BY <1>1, <1>2, <1>3, <1>4 DEF IInv, LocalsInv

LEMMA TakeCheckStep ==
  ASSUME IInv, NEW t \in Thread, TakeCheck(t)
  PROVE  IInv'
<1>. USE DEF TakeCheck, Goto
<1>1. TypeOK'
  BY DEF IInv, TypeOK, PC, AddPC, TakePC, LookPC, shared, history, locals
<1>2. ListInv' /\ Ownership' /\ Progress
  BY QuietStep DEF IInv, TypeOK, Owns, AddPC, locals
<1>3. AddLocals(t)' /\ TakeLocals(t)'
  <2>1. \A a, b : Before(a, b)' <=> Before(a, b)
    BY DEF Before, shared, history
  <2>. QED
    BY <2>1 DEF IInv, TypeOK, LocalsInv, AddLocals, TakeLocals, TakePC, shared, locals
<1>4. ASSUME NEW u \in Thread, u # t
      PROVE  AddLocals(u)' /\ TakeLocals(u)'
  BY <1>2, <1>4, OtherLocals DEF IInv, TypeOK, locals
<1>. QED
  BY <1>1, <1>2, <1>3, <1>4 DEF IInv, LocalsInv

LEMMA TakeAdvanceFailsStep ==
  ASSUME IInv, NEW t \in Thread, TakeAdvanceFails(t)
  PROVE  IInv'
<1>. USE DEF TakeAdvanceFails, Goto
<1>1. TypeOK'
  BY DEF IInv, TypeOK, PC, AddPC, TakePC, LookPC, shared, history, locals
<1>2. ListInv' /\ Ownership' /\ Progress
  BY QuietStep DEF IInv, TypeOK, Owns, AddPC, locals
<1>3. AddLocals(t)' /\ TakeLocals(t)'
  BY DEF IInv, TypeOK, LocalsInv, AddLocals, TakeLocals, TakePC, shared, history, locals
<1>4. ASSUME NEW u \in Thread, u # t
      PROVE  AddLocals(u)' /\ TakeLocals(u)'
  BY <1>2, <1>4, OtherLocals DEF IInv, TypeOK, locals
<1>. QED
  BY <1>1, <1>2, <1>3, <1>4 DEF IInv, LocalsInv

LEMMA AfterNullStep ==
  ASSUME IInv, NEW t \in Thread, AfterNull(t)
  PROVE  IInv'
<1>. USE DEF AfterNull, Goto
<1>1. TypeOK'
  BY DEF IInv, TypeOK, PC, AddPC, TakePC, LookPC, shared, history, locals
<1>2. ListInv' /\ Ownership' /\ Progress
  BY QuietStep DEF IInv, TypeOK, Owns, AddPC, locals
<1>3. AddLocals(t)' /\ TakeLocals(t)'
  BY DEF IInv, TypeOK, LocalsInv, AddLocals, TakeLocals, TakePC, shared, history, locals
<1>4. ASSUME NEW u \in Thread, u # t
      PROVE  AddLocals(u)' /\ TakeLocals(u)'
  BY <1>2, <1>4, OtherLocals DEF IInv, TypeOK, locals
<1>. QED
  BY <1>1, <1>2, <1>3, <1>4 DEF IInv, LocalsInv

LEMMA LoopBeginStep ==
  ASSUME IInv, NEW t \in Thread, LoopBegin(t)
  PROVE  IInv'
<1>. USE DEF LoopBegin, Goto
<1>1. TypeOK'
  BY DEF IInv, TypeOK, PC, AddPC, TakePC, LookPC, shared, history, locals
<1>2. ListInv' /\ Ownership' /\ Progress
  BY QuietStep DEF IInv, TypeOK, Owns, AddPC, locals
<1>3. AddLocals(t)' /\ TakeLocals(t)'
  BY DEF IInv, TypeOK, LocalsInv, AddLocals, TakeLocals, TakePC, shared, history, locals
<1>4. ASSUME NEW u \in Thread, u # t
      PROVE  AddLocals(u)' /\ TakeLocals(u)'
  BY <1>2, <1>4, OtherLocals DEF IInv, TypeOK, locals
<1>. QED
  BY <1>1, <1>2, <1>3, <1>4 DEF IInv, LocalsInv

\* Whoever moves tail, moves it from a node of the list to its successor.
LEMMA TailMove ==
  ASSUME IInv, NEW old \in Node, Before(old, old), next[old] # NULL,
         CasTail(old, next[old]), UNCHANGED <<head, next, history, node>>,
         \A u \in Thread : Owns(u)' => Owns(u)
  PROVE  tail' \in Node /\ ListInv' /\ Ownership' /\ Progress
<1>1. PICK k \in Len(taken)+1 .. Len(chain) :
           tail = chain[k] /\ k >= Len(chain) - 1
  BY DEF IInv, ListInv, TailNearEnd
<1>2. k \in 1..Len(chain) /\ k \in Nat
  BY DEF IInv, TypeOK
<1>3. \/ tail' = tail
      \/ /\ k < Len(chain) /\ tail' = chain[k+1]
         /\ k+1 \in Len(taken)+1 .. Len(chain) /\ k+1 \in 1..Len(chain)
  BY <1>1, <1>2 DEF CasTail, IInv, TypeOK, ListInv, ListIsChain
<1>4. tail' \in Node
  BY <1>3 DEF IInv, TypeOK
<1>5. ListInv'
  <2>1. ListIsChain' /\ TakenInOrder'
    BY DEF IInv, ListInv, ListIsChain, TakenInOrder, history
  <2>2. TailNearEnd'
    BY <1>1, <1>2, <1>3 DEF TailNearEnd, history
  <2>. QED
    BY <2>1, <2>2 DEF ListInv
<1>6. Ownership'
  BY DEF IInv, Ownership, history
<1>7. Progress
  <2>1. \A m \in Node : Before(m, head) => Before(m, head)'
    BY DEF Before, history
  <2>2. ASSUME NEW m \in Node, Before(m, tail)
        PROVE  Before(m, tail)'
    <3>1. PICK i, j \in 1..Len(chain) :
               i <= j /\ chain[i] = m /\ chain[j] = tail
      BY <2>2 DEF Before
    <3>2. j = k
      BY <1>1, <1>2, <3>1 DEF IInv, ListInv, ListIsChain
    <3>. QED
      BY <1>2, <1>3, <2>2, <3>1, <3>2 DEF Before, history
  <2>. QED
    BY <2>1, <2>2 DEF Progress, history
<1>. QED
  BY <1>4, <1>5, <1>6, <1>7

LEMMA AddSwingStep ==
  ASSUME IInv, NEW t \in Thread, AddSwing(t)
  PROVE  IInv'
<1>. USE DEF AddSwing, Goto
<1>1. /\ last[t] \in Node /\ Before(last[t], last[t])
      /\ node[t] = next[last[t]] /\ next[last[t]] # NULL
  BY WorkQueueAssumption
  DEF IInv, TypeOK, LocalsInv, AddLocals, TakeLocals, TakePC, Before
<1>2. tail' \in Node /\ ListInv' /\ Ownership' /\ Progress
  BY <1>1, TailMove DEF IInv, TypeOK, Owns, AddPC, locals
<1>3. TypeOK'
  BY <1>2 DEF IInv, TypeOK, PC, AddPC, TakePC, LookPC, history, locals
<1>4. AddLocals(t)' /\ TakeLocals(t)'
  BY DEF IInv, TypeOK, AddLocals, TakeLocals, TakePC
<1>5. ASSUME NEW u \in Thread, u # t
      PROVE  AddLocals(u)' /\ TakeLocals(u)'
  BY <1>2, <1>5, OtherLocals DEF IInv, TypeOK, locals
<1>. QED
  BY <1>2, <1>3, <1>4, <1>5 DEF IInv, LocalsInv

LEMMA AddHelpStep ==
  ASSUME IInv, NEW t \in Thread, AddHelp(t)
  PROVE  IInv'
<1>. USE DEF AddHelp, Goto
<1>1. /\ last[t] \in Node /\ Before(last[t], last[t])
      /\ nxt[t] = next[last[t]] /\ next[last[t]] # NULL
  BY WorkQueueAssumption
  DEF IInv, TypeOK, LocalsInv, AddLocals, TakeLocals, TakePC, Before
<1>2. tail' \in Node /\ ListInv' /\ Ownership' /\ Progress
  BY <1>1, TailMove DEF IInv, TypeOK, Owns, AddPC, locals
<1>3. TypeOK'
  BY <1>2 DEF IInv, TypeOK, PC, AddPC, TakePC, LookPC, history, locals
<1>4. AddLocals(t)' /\ TakeLocals(t)'
  BY DEF IInv, TypeOK, AddLocals, TakeLocals, TakePC
<1>5. ASSUME NEW u \in Thread, u # t
      PROVE  AddLocals(u)' /\ TakeLocals(u)'
  BY <1>2, <1>5, OtherLocals DEF IInv, TypeOK, locals
<1>. QED
  BY <1>2, <1>3, <1>4, <1>5 DEF IInv, LocalsInv

LEMMA TakeHelpStep ==
  ASSUME IInv, NEW t \in Thread, TakeHelp(t)
  PROVE  IInv'
<1>. USE DEF TakeHelp, Goto
<1>1. /\ last[t] \in Node /\ Before(last[t], last[t])
      /\ nxt[t] = next[last[t]] /\ next[last[t]] # NULL
  BY WorkQueueAssumption
  DEF IInv, TypeOK, LocalsInv, AddLocals, TakeLocals, TakePC, Before
<1>2. tail' \in Node /\ ListInv' /\ Ownership' /\ Progress
  BY <1>1, TailMove DEF IInv, TypeOK, Owns, AddPC, locals
<1>3. TypeOK'
  BY <1>2 DEF IInv, TypeOK, PC, AddPC, TakePC, LookPC, history, locals
<1>4. AddLocals(t)' /\ TakeLocals(t)'
  BY DEF IInv, TypeOK, AddLocals, TakeLocals, TakePC
<1>5. ASSUME NEW u \in Thread, u # t
      PROVE  AddLocals(u)' /\ TakeLocals(u)'
  BY <1>2, <1>5, OtherLocals DEF IInv, TypeOK, locals
<1>. QED
  BY <1>2, <1>3, <1>4, <1>5 DEF IInv, LocalsInv

\* The node that add() links becomes the last of the list, and tail is then
\* at the node before it.
LEMMA AddLinkStep ==
  ASSUME IInv, NEW t \in Thread, AddLink(t)
  PROVE  IInv'
<1>. USE DEF AddLink, Goto
<1>. DEFINE L == Len(chain)
<1>1. /\ L \in Nat /\ L >= 1 /\ node[t] \in Node
      /\ Len(chain') = L+1 /\ chain'[L+1] = node[t] /\ chain' \in Seq(Node)
      /\ \A i \in 1..L : chain'[i] = chain[i] /\ chain[i] \in Node
      /\ taken' = taken /\ Len(taken) \in Nat /\ Len(taken) < L
  BY AppendElements DEF IInv, TypeOK, ListInv, TakenInOrder
<1>2. \A i \in 1..L : chain[i] # node[t]
  BY DEF IInv, TypeOK, Ownership, Owns, AddPC
<1>3. last[t] = chain[L] /\ tail = chain[L]
  <2>1. PICK i, j \in 1..L : i <= j /\ chain[i] = last[t] /\ chain[j] = tail
    BY DEF IInv, LocalsInv, AddLocals, Before
  <2>2. i = L
    BY <1>1, <2>1, WorkQueueAssumption DEF IInv, ListInv, ListIsChain
  <2>. QED
    BY <1>1, <2>1, <2>2
<1>4. /\ next' \in [Node -> Node \cup {NULL}]
      /\ next'[chain[L]] = node[t]
      /\ \A m \in Node : m # chain[L] => next'[m] = next[m]
  BY <1>1, <1>3 DEF IInv, TypeOK
<1>5. TypeOK'
  BY <1>1, <1>4 DEF IInv, TypeOK, PC, AddPC, locals
<1>6. ListInv'
  <2>1. ListIsChain'
    <3>1. ASSUME NEW i \in 1..L PROVE next'[chain'[i]] = chain'[i+1]
      BY <1>1, <1>4 DEF IInv, ListInv, ListIsChain
    <3>2. next'[chain'[L+1]] = NULL
      BY <1>1, <1>2, <1>4 DEF IInv, Ownership
    <3>3. ASSUME NEW i \in 1..L+1, NEW j \in 1..L+1, chain'[i] = chain'[j]
          PROVE  i = j
      <4>1. CASE i \in 1..L /\ j \in 1..L
        BY <1>1, <3>3, <4>1 DEF IInv, ListInv, ListIsChain
      <4>2. CASE i = L+1 \/ j = L+1
        BY <1>1, <1>2, <3>3, <4>2
      <4>. QED
        BY <1>1, <4>1, <4>2
    <3>. QED
      BY <1>1, <3>1, <3>2, <3>3 DEF ListIsChain
  <2>2. TakenInOrder'
    BY <1>1, <1>5 DEF IInv, TypeOK, ListInv, TakenInOrder
  <2>3. TailNearEnd'
    BY <1>1, <1>3 DEF TailNearEnd
  <2>. QED
    BY <2>1, <2>2, <2>3 DEF ListInv
<1>7. Ownership'
  <2>1. \A u \in Thread : Owns(u)' => Owns(u) /\ u # t /\ node'[u] = node[u]
    BY DEF Owns, AddPC, IInv, TypeOK, locals
  <2>2. ASSUME NEW u \in Thread, Owns(u)'
        PROVE  \A i \in 1..Len(chain') : chain'[i] # node'[u]
    BY <1>1, <2>1, <2>2 DEF IInv, Ownership, Owns, AddPC
  <2>3. ASSUME NEW n \in Node, \A i \in 1..L+1 : chain'[i] # n
        PROVE  next'[n] = NULL
    BY <1>1, <1>4, <2>3 DEF IInv, Ownership
  <2>. QED
    BY <1>1, <2>1, <2>2, <2>3 DEF IInv, Ownership
<1>8. Progress
  <2>1. \A a, b : Before(a, b) => Before(a, b)'
    BY <1>1, BeforeStable DEF IInv
  <2>2. ASSUME NEW m \in Node, next[m] # NULL PROVE next'[m] = next[m]
    BY <1>3, <1>4, <2>2
  <2>. QED
    BY <1>1, <2>1, <2>2 DEF Progress
<1>9. AddLocals(t)' /\ TakeLocals(t)'
  <2>1. Before(last[t], last[t])'
    BY <1>1, <1>3 DEF Before, locals
  <2>2. pc'[t] = "add_swing" /\ next'[last'[t]] = node'[t]
    BY <1>3, <1>4 DEF IInv, TypeOK, locals
  <2>. QED
    BY <2>1, <2>2 DEF AddLocals, TakeLocals, TakePC
<1>10. ASSUME NEW u \in Thread, u # t
       PROVE  AddLocals(u)' /\ TakeLocals(u)'
  BY <1>8, <1>10, OtherLocals DEF IInv, TypeOK, locals
<1>. QED
  BY <1>5, <1>6, <1>7, <1>9, <1>10 DEF IInv, LocalsInv

\* The node nextElement() returns is the one after head, and tail is not
\* before it.
LEMMA TakeAdvanceStep ==
  ASSUME IInv, NEW t \in Thread, TakeAdvance(t)
  PROVE  /\ IInv'
         /\ Len(taken) + 2 \in 1..Len(chain)
         /\ nxt[t] = chain[Len(taken) + 2]
<1>. USE DEF TakeAdvance, Goto
<1>. DEFINE h == Len(taken) + 1
<1>1. /\ h \in 1..Len(chain) /\ head = chain[h] /\ first[t] = head
      /\ Len(chain) \in Nat /\ Len(taken) \in Nat
  BY DEF IInv, TypeOK, ListInv, TakenInOrder
<1>2. /\ nxt[t] = next[head] /\ nxt[t] \in Node
      /\ Before(nxt[t], tail)
  <2>1. first[t] # last[t] /\ Before(first[t], last[t])
        /\ Before(last[t], tail) /\ nxt[t] = next[first[t]]
    BY DEF IInv, LocalsInv, TakeLocals, TakePC
  <2>2. Before(next[first[t]], last[t]) /\ next[first[t]] \in Node
    BY <2>1, SuccessorBefore DEF IInv, ListInv
  <2>. QED
    BY <1>1, <2>1, <2>2, BeforeTransitive DEF IInv, ListInv
<1>3. h+1 \in 1..Len(chain) /\ nxt[t] = chain[h+1]
  <2>1. h # Len(chain)
    BY <1>1, <1>2, WorkQueueAssumption DEF IInv, ListInv, ListIsChain
  <2>. QED
    BY <1>1, <1>2, <2>1 DEF IInv, ListInv, ListIsChain
<1>4. /\ taken' \in Seq(Node) /\ Len(taken') = h /\ taken'[h] = nxt[t]
      /\ \A i \in 1..Len(taken) : taken'[i] = taken[i]
  BY <1>2, AppendElements DEF IInv, TypeOK
<1>5. TypeOK'
  BY <1>2, <1>4 DEF IInv, TypeOK, PC, LookPC, locals
<1>6. ListInv'
  <2>1. ListIsChain'
    BY DEF IInv, ListInv, ListIsChain
  <2>2. TakenInOrder'
    <3>1. ASSUME NEW i \in 1..h PROVE taken'[i] = chain[i+1]
      <4>1. CASE i \in 1..Len(taken)
        BY <1>4, <4>1 DEF IInv, ListInv, TakenInOrder
      <4>2. CASE i = h
        BY <1>3, <1>4, <4>2
      <4>. QED
        BY <1>1, <4>1, <4>2
    <3>. QED
      BY <1>1, <1>3, <1>4, <3>1 DEF TakenInOrder
  <2>3. TailNearEnd'
    <3>1. PICK k \in h .. Len(chain) : tail = chain[k] /\ k >= Len(chain) - 1
      BY DEF IInv, ListInv, TailNearEnd
    <3>2. PICK i, j \in 1..Len(chain) :
               i <= j /\ chain[i] = nxt[t] /\ chain[j] = tail
      BY <1>2 DEF Before
    <3>3. i = h+1 /\ j = k
      BY <1>1, <1>3, <3>1, <3>2 DEF IInv, ListInv, ListIsChain
    <3>. QED
      BY <1>1, <1>4, <3>1, <3>2, <3>3 DEF TailNearEnd
  <2>. QED
    BY <2>1, <2>2, <2>3 DEF ListInv
<1>7. Ownership'
  BY DEF IInv, TypeOK, Ownership, Owns, AddPC, locals
<1>8. Progress
  <2>1. Before(head, nxt[t])
    BY <1>1, <1>3 DEF Before
  <2>2. ASSUME NEW m \in Node, Before(m, head) PROVE Before(m, head)'
    <3>1. Before(m, nxt[t])
      BY <2>1, <2>2, BeforeTransitive DEF IInv, ListInv
    <3>. QED
      BY <3>1 DEF Before
  <2>. QED
    BY <2>2 DEF Progress, Before
<1>9. AddLocals(t)' /\ TakeLocals(t)'
  BY DEF IInv, TypeOK, AddLocals, TakeLocals, TakePC
<1>10. ASSUME NEW u \in Thread, u # t
       PROVE  AddLocals(u)' /\ TakeLocals(u)'
  BY <1>8, <1>10, OtherLocals DEF IInv, TypeOK, locals
<1>. QED
  BY <1>1, <1>3, <1>5, <1>6, <1>7, <1>9, <1>10 DEF IInv, LocalsInv

LEMMA Inductive == IInv /\ [Next]_vars => IInv'
<1>. SUFFICES ASSUME IInv, [Next]_vars PROVE IInv'
  OBVIOUS
<1>1. ASSUME NEW t \in Thread, AddStep(t) PROVE IInv'
  BY <1>1, AddReadTailStep, AddReadNextStep, AddCheckStep, AddLinkStep,
     AddLinkFailsStep, AddSwingStep, AddHelpStep DEF AddStep
<1>2. ASSUME NEW t \in Thread, LookStep(t) PROVE IInv'
  BY <1>2, LookReadHeadStep, LookReadTailStep, LookDecideStep DEF LookStep
<1>3. ASSUME NEW t \in Thread, TakeStep(t) PROVE IInv'
  BY <1>3, TakeReadHeadStep, TakeReadTailStep, TakeReadNextStep,
     TakeCheckStep, TakeHelpStep, TakeAdvanceStep, TakeAdvanceFailsStep,
     AfterNullStep DEF TakeStep
<1>4. ASSUME NEW t \in Thread, LoopBegin(t) PROVE IInv'
  BY <1>4, LoopBeginStep
<1>5. ASSUME NEW t \in Thread, NEW n \in Node, AddBegin(t, n) PROVE IInv'
  BY <1>5, AddBeginStep
<1>6. CASE UNCHANGED vars
  <2>1. ListInv' /\ Ownership'
    BY <1>6, QuietStep DEF vars, shared, history, Owns
  <2>2. TypeOK'
    BY <1>6 DEF vars, IInv, TypeOK
  <2>3. LocalsInv'
    BY <1>6 DEF vars, IInv, LocalsInv, AddLocals, TakeLocals, Before
  <2>. QED
    BY <2>1, <2>2, <2>3 DEF IInv
<1>. QED
  BY <1>1, <1>2, <1>3, <1>4, <1>5, <1>6 DEF Next, Step

-----------------------------------------------------------------------------
(* Theorems *)

LEMMA Invariance == Spec => []IInv
<1>. QED
  BY Initial, Inductive, PTL DEF Spec

\* The variables of the queue stay in their types; in particular head and
\* tail never become NULL, whatever add() and nextElement() read before.
THEOREM TypeCorrect == Spec => []TypeOK
<1>1. IInv => TypeOK
  BY DEF IInv
<1>. QED
  BY <1>1, Invariance, PTL

\* add()'s CASes never cut, fork or close the list.
THEOREM ListCorrect == Spec => []ListIsChain
<1>1. IInv => ListIsChain
  BY DEF IInv, ListInv
<1>. QED
  BY <1>1, Invariance, PTL

\* nextElement() hands out every node at most once, in the order of add().
THEOREM OrderCorrect == Spec => []TakenInOrder
<1>1. IInv => TakenInOrder
  BY DEF IInv, ListInv
<1>. QED
  BY <1>1, Invariance, PTL

\* tail is at most one node short of the end and never behind head.
THEOREM TailCorrect == Spec => []TailNearEnd
<1>1. IInv => TailNearEnd
  BY DEF IInv, ListInv
<1>. QED
  BY <1>1, Invariance, PTL

-----------------------------------------------------------------------------
(* Refinement of the FIFO queue *)

\* What is left of a sequence c without its first k+1 elements.
LEMMA RestElements ==
  ASSUME NEW S, NEW c \in Seq(S), NEW k \in Nat, k < Len(c)
  PROVE  /\ SubSeq(c, k + 2, Len(c)) \in Seq(S)
         /\ Len(SubSeq(c, k + 2, Len(c))) = Len(c) - k - 1
         /\ \A i \in 1..Len(c) - k - 1 :
               SubSeq(c, k + 2, Len(c))[i] = c[k + 1 + i]
<1>. Len(c) \in Nat
  OBVIOUS
<1>. QED
  OBVIOUS

LEMMA TailElements ==
  ASSUME NEW S, NEW c \in Seq(S), c # <<>>
  PROVE  /\ Tail(c) \in Seq(S)
         /\ Len(Tail(c)) = Len(c) - 1
         /\ \A i \in 1..Len(c) - 1 : Tail(c)[i] = c[i + 1]
  OBVIOUS

\* Two sequences with the same elements are equal.
LEMMA SameElements ==
  ASSUME NEW S, NEW s \in Seq(S), NEW r \in Seq(S), Len(s) = Len(r),
         \A i \in 1..Len(s) : s[i] = r[i]
  PROVE  s = r
  OBVIOUS

\* The successful CAS of last->next is where add() takes effect.
LEMMA LinkIsAdd ==
  ASSUME IInv, NEW t \in Thread, AddLink(t)
  PROVE  Fifo!Add(node[t])
<1>. DEFINE L == Len(chain)
            k == Len(taken)
            c == Contents
            d == Append(Contents, node[t])
<1>1. /\ node[t] \in Node /\ chain \in Seq(Node) /\ L \in Nat /\ k \in Nat
      /\ k < L /\ taken' = taken /\ chain' = Append(chain, node[t])
  BY DEF AddLink, IInv, TypeOK, ListInv, TakenInOrder
<1>2. /\ chain' \in Seq(Node) /\ Len(chain') = L + 1
      /\ chain'[L + 1] = node[t]
      /\ \A i \in 1..L : chain'[i] = chain[i]
  BY <1>1, AppendElements
<1>3. /\ c \in Seq(Node) /\ Len(c) = L - k - 1
      /\ \A i \in 1..L - k - 1 : c[i] = chain[k + 1 + i]
  BY <1>1, RestElements DEF Contents
<1>4. /\ c' \in Seq(Node) /\ Len(c') = L - k
      /\ \A i \in 1..L - k : c'[i] = chain'[k + 1 + i]
  <2>1. c' = SubSeq(chain', k + 2, Len(chain'))
    BY <1>1 DEF Contents
  <2>2. k < Len(chain') /\ Len(chain') - k - 1 = L - k
    BY <1>1, <1>2
  <2>. HIDE DEF c, L, k
  <2>. QED
    BY <1>1, <1>2, <2>1, <2>2, RestElements
<1>5. /\ d \in Seq(Node) /\ Len(d) = L - k
      /\ \A i \in 1..L - k - 1 : d[i] = c[i]
      /\ d[L - k] = node[t]
  <2>1. L - k - 1 + 1 = L - k
    BY <1>1
  <2>. HIDE DEF c, L, k
  <2>. QED
    BY <1>1, <1>3, <2>1, AppendElements DEF c
<1>6. ASSUME NEW i \in 1..L - k PROVE c'[i] = d[i]
  <2>1. CASE i \in 1..L - k - 1
    <3>1. k + 1 + i \in 1..L
      BY <1>1, <2>1
    <3>. HIDE DEF c, d, L, k
    <3>. QED
      BY <1>2, <1>3, <1>4, <1>5, <2>1, <3>1
  <2>2. CASE i = L - k
    <3>1. k + 1 + i = L + 1
      BY <1>1, <2>2
    <3>. HIDE DEF c, d, L, k
    <3>. QED
      BY <1>2, <1>4, <1>5, <2>2, <3>1
  <2>3. i \in 1..L - k - 1 \/ i = L - k
    BY <1>1
  <2>. QED
    BY <2>1, <2>2, <2>3
<1>7. c' = d
  <2>. HIDE DEF c, d, L, k
  <2>. QED
    BY <1>4, <1>5, <1>6, SameElements
<1>. QED
  BY <1>1, <1>7 DEF Fifo!Add

\* The successful CAS of head is where nextElement() takes effect.
LEMMA AdvanceIsTake ==
  ASSUME IInv, NEW t \in Thread, TakeAdvance(t)
  PROVE  Fifo!Take
<1>. DEFINE L == Len(chain)
            k == Len(taken)
            c == Contents
            d == Tail(Contents)
<1>1. /\ k + 2 \in 1..L /\ nxt[t] = chain[k + 2]
      /\ chain' = chain /\ taken' = Append(taken, nxt[t])
  BY TakeAdvanceStep DEF TakeAdvance
<1>2. /\ chain \in Seq(Node) /\ taken \in Seq(Node) /\ L \in Nat /\ k \in Nat
      /\ k + 1 < L /\ nxt[t] \in Node
  BY <1>1 DEF IInv, TypeOK
<1>3. Len(taken') = k + 1
  BY <1>1, <1>2, AppendElements
<1>4. /\ c \in Seq(Node) /\ Len(c) = L - k - 1
      /\ \A i \in 1..L - k - 1 : c[i] = chain[k + 1 + i]
  BY <1>2, RestElements DEF Contents
<1>5. /\ c' \in Seq(Node) /\ Len(c') = L - k - 2
      /\ \A i \in 1..L - k - 2 : c'[i] = chain[k + 2 + i]
  <2>1. c' = SubSeq(chain, (k + 1) + 2, L)
    BY <1>1, <1>3 DEF Contents
  <2>2. k + 1 \in Nat /\ L - (k + 1) - 1 = L - k - 2 /\ k + 1 + 1 = k + 2
    BY <1>2
  <2>3. /\ c' \in Seq(Node) /\ Len(c') = L - (k + 1) - 1
        /\ \A i \in 1..L - (k + 1) - 1 : c'[i] = chain[(k + 1) + 1 + i]
    <3>. HIDE DEF c
    <3>. QED
      BY <1>2, <2>1, <2>2, RestElements
  <2>. HIDE DEF c, L, k
  <2>. QED
    BY <2>2, <2>3
<1>6. c # <<>> /\ Head(c) = nxt[t]
  <2>1. 1 \in 1..L - k - 1 /\ k + 1 + 1 = k + 2
    BY <1>2
  <2>. HIDE DEF c, L, k
  <2>. QED
    BY <1>1, <1>4, <2>1
<1>7. /\ d \in Seq(Node) /\ Len(d) = L - k - 2
      /\ \A i \in 1..L - k - 2 : d[i] = c[i+1]
  <2>1. L - k - 1 - 1 = L - k - 2
    BY <1>2
  <2>2. /\ d \in Seq(Node) /\ Len(d) = Len(c) - 1
        /\ \A i \in 1..Len(c) - 1 : d[i] = c[i+1]
    BY <1>4, <1>6, TailElements
  <2>. HIDE DEF c, d, L, k
  <2>. QED
    BY <1>4, <2>1, <2>2
<1>8. ASSUME NEW i \in 1..L - k - 2 PROVE c'[i] = d[i]
  <2>1. i+1 \in 1..L - k - 1 /\ k + 1 + (i+1) = k + 2 + i
    BY <1>2
  <2>. HIDE DEF c, d, L, k
  <2>. QED
    BY <1>4, <1>5, <1>7, <2>1
<1>9. c' = d
  <2>. HIDE DEF c, d, L, k
  <2>. QED
    BY <1>5, <1>7, <1>8, SameElements
<1>. QED
  BY <1>1, <1>6, <1>9 DEF Fifo!Take

\* The queue behaves, for its clients, like a FIFO queue whose operations are
\* atomic: add() at its first CAS, nextElement() at its CAS of head.
THEOREM FifoRefinement == Spec => ImplementsFifo
<1>1. Init => Fifo!Init
  <2>. SUFFICES ASSUME Init PROVE Fifo!Init
    OBVIOUS
  <2>1. Len(Contents) = 0 /\ Contents \in Seq(Node)
    <3>1. chain \in Seq(Node) /\ Len(chain) = 1 /\ Len(taken) = 0
      BY Initial DEF Init, IInv, TypeOK
    <3>. QED
      BY <3>1, RestElements DEF Contents
  <2>. QED
    BY <2>1 DEF Init, Fifo!Init
<1>2. IInv /\ [Next]_vars => [Fifo!Next]_Fifo!vars
  <2>. SUFFICES ASSUME IInv, [Next]_vars
                PROVE  Fifo!Next \/ UNCHANGED <<chain, taken>>
    BY DEF Contents, Fifo!vars
  <2>1. ASSUME NEW t \in Thread, AddLink(t) PROVE Fifo!Next
    BY <2>1, LinkIsAdd DEF Fifo!Next, IInv, TypeOK
  <2>2. ASSUME NEW t \in Thread, TakeAdvance(t) PROVE Fifo!Next
    BY <2>2, AdvanceIsTake DEF Fifo!Next
  <2>3. ASSUME NEW t \in Thread, AddStep(t), ~AddLink(t)
        PROVE  UNCHANGED <<chain, taken>>
    BY <2>3 DEF AddStep, AddReadTail, AddReadNext, AddCheck, AddLinkFails,
                AddSwing, AddHelp, history
  <2>4. ASSUME NEW t \in Thread, TakeStep(t), ~TakeAdvance(t)
        PROVE  UNCHANGED <<chain, taken>>
    BY <2>4 DEF TakeStep, TakeReadHead, TakeReadTail, TakeReadNext, TakeCheck,
                TakeHelp, TakeAdvanceFails, AfterNull, history
  <2>5. ASSUME NEW t \in Thread,
               LookStep(t) \/ LoopBegin(t) \/ \E n \in Node : AddBegin(t, n)
        PROVE  UNCHANGED <<chain, taken>>
    BY <2>5 DEF LookStep, LookReadHead, LookReadTail, LookDecide, LoopBegin,
                AddBegin, history
  <2>. QED
    BY <2>1, <2>2, <2>3, <2>4, <2>5 DEF Next, Step, vars
<1>. QED
  BY <1>1, <1>2, Invariance, PTL DEF Spec, ImplementsFifo, Fifo!Spec
-----------------------------------------------------------------------------
(* What a client may count on: a lagging tail, and a NULL. *)

\* A tail that lags stands at the node an add() is about to swing it from.
LagInv ==
  tail # chain[Len(chain)] =>
    \E t \in Thread : pc[t] = "add_swing" /\ last[t] = tail

\* What a thread in the consumer loop knows while nobody has taken a node since
\* its isNotEmpty() began: the queue is not empty.
SeenBy(t) ==
  /\ seen[t] \in Nat /\ seen[t] <= Len(taken)
  /\ Len(taken) = seen[t] =>
       /\ pc[t] = "look_tail" => first[t] = head
       /\ pc[t] = "look_head" => last[t] = head \/ head # tail
       /\ pc[t] \in TakePC => head # tail
       /\ pc[t] \in {"take_next", "take_check"} => last[t] # head
       /\ pc[t] # "null"

SeenInv == seen \in [Thread -> Nat] /\ \A t \in Thread : SeenBy(t)

-----------------------------------------------------------------------------
(* The shared state *)

\* A CAS that finds tail where it expects it moves it one node on.
LEMMA HelpIsSuccessor ==
  ASSUME IInv, NEW t \in Thread
  PROVE  /\ pc[t] = "add_swing" => node[t] = next[last[t]] /\ node[t] \in Node
         /\ pc[t] \in {"add_help", "take_help"} =>
              nxt[t] = next[last[t]] /\ nxt[t] \in Node
<1>1. AddLocals(t) /\ TakeLocals(t)
  BY DEF IInv, LocalsInv
<1>. QED
  BY <1>1 DEF AddLocals, TakeLocals, TakePC, IInv, TypeOK

\* Only the CASes of tail move it, if at all to its successor.
LEMMA TailSteps ==
  ASSUME IInv, [Next]_vars
  PROVE  \/ tail' = tail
         \/ \E t \in Thread :
              /\ AddSwing(t) \/ AddHelp(t) \/ TakeHelp(t)
              /\ tail' = next[tail] /\ next[tail] \in Node /\ tail = last[t]
              /\ UNCHANGED <<head, next, chain, taken>>
<1>1. ASSUME NEW t \in Thread, AddSwing(t) \/ AddHelp(t) \/ TakeHelp(t)
      PROVE  \/ tail' = tail
             \/ /\ tail' = next[tail] /\ next[tail] \in Node /\ tail = last[t]
                /\ UNCHANGED <<head, next, chain, taken>>
  BY <1>1, HelpIsSuccessor DEF AddSwing, AddHelp, TakeHelp, CasTail, Goto, history
<1>2. ASSUME NEW t \in Thread, AddStep(t), ~AddSwing(t), ~AddHelp(t)
      PROVE  tail' = tail
  BY <1>2 DEF AddStep, AddReadTail, AddReadNext, AddCheck, AddLink, AddLinkFails, shared
<1>3. ASSUME NEW t \in Thread, TakeStep(t), ~TakeHelp(t)
      PROVE  tail' = tail
  BY <1>3 DEF TakeStep, TakeReadHead, TakeReadTail, TakeReadNext, TakeCheck,
              TakeAdvance, TakeAdvanceFails, AfterNull, shared
<1>4. ASSUME NEW t \in Thread,
             LookStep(t) \/ LoopBegin(t) \/ \E n \in Node : AddBegin(t, n)
      PROVE  tail' = tail
  BY <1>4 DEF LookStep, LookReadHead, LookReadTail, LookDecide, LoopBegin, AddBegin, shared
<1>5. CASE UNCHANGED vars
  BY <1>5 DEF vars
<1>. QED
  BY <1>1, <1>2, <1>3, <1>4, <1>5 DEF Next, Step

\* The successor of a tail that is not the end is the end.
LEMMA SuccessorIsEnd ==
  ASSUME IInv, next[tail] \in Node
  PROVE  next[tail] = chain[Len(chain)] /\ head # next[tail]
<1>1. PICK k \in Len(taken)+1 .. Len(chain) : tail = chain[k] /\ k >= Len(chain) - 1
  BY DEF IInv, ListInv, TailNearEnd
<1>2. /\ Len(taken) \in Nat /\ Len(chain) \in Nat /\ k \in 1 .. Len(chain)
      /\ head = chain[Len(taken)+1] /\ Len(taken)+1 \in 1 .. Len(chain)
  BY <1>1 DEF IInv, TypeOK, ListInv, TakenInOrder
<1>3. k # Len(chain)
  BY <1>1, WorkQueueAssumption DEF IInv, ListInv, ListIsChain
<1>4. k \in 1 .. Len(chain)-1 /\ k+1 = Len(chain)
  BY <1>1, <1>2, <1>3
<1>5. next[tail] = chain[k+1] /\ k+1 \in 1 .. Len(chain)
  BY <1>1, <1>4 DEF IInv, ListInv, ListIsChain
<1>6. Len(taken)+1 # k+1
  BY <1>1, <1>2
<1>. QED
  BY <1>2, <1>4, <1>5, <1>6 DEF IInv, ListInv, ListIsChain

\* Until somebody takes a node, head stays and a queue that is not empty stays so.
LEMMA NotEmptyStays ==
  ASSUME IInv, [Next]_vars
  PROVE  \/ Len(taken') > Len(taken) /\ \E t \in Thread : TakeAdvance(t)
         \/ /\ taken' = taken /\ head' = head
            /\ head # tail => head' # tail'
<1>1. ASSUME NEW t \in Thread, TakeAdvance(t)
      PROVE  Len(taken') > Len(taken)
  <2>1. nxt[t] \in Node
    BY <1>1, TakeAdvanceStep DEF IInv, TypeOK
  <2>. QED
    BY <1>1, <2>1, AppendElements DEF TakeAdvance, IInv, TypeOK
<1>2. ASSUME ~\E t \in Thread : TakeAdvance(t)
      PROVE  taken' = taken /\ head' = head
  <2>1. ASSUME NEW t \in Thread, AddStep(t) PROVE taken' = taken /\ head' = head
    BY <2>1 DEF AddStep, AddReadTail, AddReadNext, AddCheck, AddLink, AddLinkFails,
                AddSwing, AddHelp, shared, history
  <2>2. ASSUME NEW t \in Thread, TakeStep(t) PROVE taken' = taken /\ head' = head
    BY <1>2, <2>2 DEF TakeStep, TakeReadHead, TakeReadTail, TakeReadNext, TakeCheck,
                TakeHelp, TakeAdvanceFails, AfterNull, shared, history
  <2>3. ASSUME NEW t \in Thread,
               LookStep(t) \/ LoopBegin(t) \/ \E n \in Node : AddBegin(t, n)
        PROVE  taken' = taken /\ head' = head
    BY <2>3 DEF LookStep, LookReadHead, LookReadTail, LookDecide, LoopBegin, AddBegin,
                shared, history
  <2>4. CASE UNCHANGED vars
    BY <2>4 DEF vars
  <2>. QED
    BY <2>1, <2>2, <2>3, <2>4 DEF Next, Step
<1>3. head' = head /\ head # tail => head' # tail'
  BY TailSteps, SuccessorIsEnd
<1>. QED
  BY <1>1, <1>2, <1>3

-----------------------------------------------------------------------------
(* The tail *)

LEMMA LagStep ==
  ASSUME IInv, LagInv, [Next]_vars, ~WeakCasMayFail
  PROVE  LagInv'
<1>1. CASE tail' # tail
  <2>1. tail' = chain'[Len(chain')]
    BY <1>1, TailSteps, SuccessorIsEnd
  <2>. QED
    BY <2>1 DEF LagInv
<1>2. ASSUME tail' = tail, NEW t \in Thread, AddLink(t)
      PROVE  LagInv'
  <2>1. last[t] = tail
    <3>1. PICK i, j \in 1 .. Len(chain) : i <= j /\ chain[i] = last[t] /\ chain[j] = tail
      BY <1>2 DEF AddLink, Goto, IInv, LocalsInv, AddLocals, Before
    <3>2. i = Len(chain)
      <4>1. Len(chain) \in Nat /\ \A k \in 1 .. Len(chain) : chain[k] \in Node
        BY DEF IInv, TypeOK
      <4>2. next[chain[i]] = NULL
        BY <1>2, <3>1 DEF AddLink
      <4>3. ASSUME i # Len(chain) PROVE FALSE
        <5>1. i \in 1 .. Len(chain) - 1 /\ i + 1 \in 1 .. Len(chain)
          BY <3>1, <4>1, <4>3
        <5>2. next[chain[i]] = chain[i + 1]
          BY <5>1 DEF IInv, ListInv, ListIsChain
        <5>3. chain[i + 1] \in Node
          BY <4>1, <5>1
        <5> QED
          BY <4>2, <5>2, <5>3, WorkQueueAssumption
      <4> QED
        BY <4>3
    <3>. QED
      BY <3>1, <3>2 DEF IInv, TypeOK
  <2>2. pc'[t] = "add_swing" /\ last'[t] = last[t]
    BY <1>2 DEF AddLink, Goto, IInv, TypeOK, locals
  <2>. QED
    BY <1>2, <2>1, <2>2 DEF LagInv
<1>3. ASSUME tail' = tail, ~\E t \in Thread : AddLink(t)
      PROVE  LagInv'
  <2>1. SUFFICES ASSUME tail' # chain'[Len(chain')]
                 PROVE  \E t \in Thread : pc'[t] = "add_swing" /\ last'[t] = tail'
    BY DEF LagInv
  <2>2. chain' = chain
    BY <1>3 DEF Next, Step, AddStep, AddReadTail, AddReadNext, AddCheck, AddLinkFails,
                AddSwing, AddHelp, TakeStep, TakeReadHead, TakeReadTail, TakeReadNext,
                TakeCheck, TakeHelp, TakeAdvance, TakeAdvanceFails, AfterNull, LookStep,
                LookReadHead, LookReadTail, LookDecide, LoopBegin, AddBegin, history, vars
  <2>3. PICK t \in Thread : pc[t] = "add_swing" /\ last[t] = tail
    BY <1>3, <2>1, <2>2 DEF LagInv
  \* t itself would have moved tail.
  <2>4. ~AddSwing(t)
    <3>1. ASSUME AddSwing(t) PROVE FALSE
      <4>1. tail' = node[t] /\ node[t] = next[tail]
        BY <2>3, <3>1, HelpIsSuccessor DEF AddSwing, CasTail
      <4>2. next[tail] = tail
        BY <1>3, <4>1
      <4>3. next[tail] = chain[Len(chain)]
        BY <4>2, SuccessorIsEnd DEF IInv, TypeOK
      <4>. QED
        BY <1>3, <2>1, <2>2, <4>2, <4>3
    <3>. QED
      BY <3>1
  <2>5. pc'[t] = pc[t] /\ last'[t] = last[t]
    <3>1. ASSUME NEW u \in Thread, Step(u) \/ LoopBegin(u) \/ \E n \in Node : AddBegin(u, n),
                 u # t
          PROVE  pc'[t] = pc[t] /\ last'[t] = last[t]
      BY <3>1 DEF Step, AddStep, AddReadTail, AddReadNext, AddCheck, AddLink, AddLinkFails,
                AddSwing, AddHelp, TakeStep, TakeReadHead, TakeReadTail, TakeReadNext,
                TakeCheck, TakeHelp, TakeAdvance, TakeAdvanceFails, AfterNull, LookStep,
                LookReadHead, LookReadTail, LookDecide, LoopBegin, AddBegin, Goto, locals,
                IInv, TypeOK
    <3>2. ~(Step(t) \/ LoopBegin(t) \/ \E n \in Node : AddBegin(t, n))
      BY <2>3, <2>4 DEF Step, AddStep, AddReadTail, AddReadNext, AddCheck, AddLink,
                AddLinkFails, AddHelp, TakeStep, TakeReadHead, TakeReadTail, TakeReadNext,
                TakeCheck, TakeHelp, TakeAdvance, TakeAdvanceFails, AfterNull, LookStep,
                LookReadHead, LookReadTail, LookDecide, LoopBegin, AddBegin, Goto
    <3>3. CASE UNCHANGED vars
      BY <3>3 DEF vars
    <3>. QED
      BY <3>1, <3>2, <3>3 DEF Next
  <2>. QED
    BY <1>3, <2>3, <2>5
<1>. QED
  BY <1>1, <1>2, <1>3

\* add() and nextElement() of WorkQueue.h: unless a CAS fails spuriously, a node
\* is invisible to isNotEmpty() only while some add() is between its two CASes.
THEOREM TailLagCorrect == ASSUME ~WeakCasMayFail PROVE Spec => []TailLagsOnlyDuringAdd
<1>1. Init => LagInv
  BY DEF Init, LagInv
<1>2. IInv /\ LagInv /\ [Next]_vars => LagInv'
  BY LagStep
<1>3. LagInv => TailLagsOnlyDuringAdd
  BY DEF LagInv, TailLagsOnlyDuringAdd
<1>. QED
  BY <1>1, <1>2, <1>3, Invariance, PTL DEF Spec

-----------------------------------------------------------------------------
(* NULL *)

\* The threads that do not move.
LEMMA SeenOther ==
  ASSUME IInv, SeenInv, [SeenNext]_<<vars, seen>>, NEW u \in Thread, pc'[u] = pc[u],
         first'[u] = first[u], last'[u] = last[u]
  PROVE  SeenBy(u)'
<1>1. [Next]_vars
  BY DEF SeenNext, vars
<1>2. seen'[u] = seen[u] \/ (seen'[u] = 0 /\ pc[u] \in {"idle", "look"})
  BY DEF SeenNext, vars
<1>3. SeenBy(u)
  BY DEF SeenInv
<1>4. Len(taken) \in Nat /\ Len(taken') \in Nat
  BY <1>1, Inductive DEF IInv, TypeOK
<1>. QED
  BY <1>1, <1>2, <1>3, <1>4, NotEmptyStays DEF SeenBy, TakePC

\* The thread that does.
LEMMA SeenOwn ==
  ASSUME IInv, SeenInv, SeenNext, NEW t \in Thread,
         Step(t) \/ LoopBegin(t) \/ \E n \in Node : AddBegin(t, n)
  PROVE  SeenBy(t)'
<1>1. /\ [Next]_vars
      /\ seen'[t] = IF pc[t] = "look" /\ pc'[t] # "look" THEN Len(taken)
                    ELSE IF pc'[t] \in {"idle", "look"} THEN 0 ELSE seen[t]
  BY DEF SeenNext
<1>2. SeenBy(t)
  BY DEF SeenInv
<1>3. Len(taken) \in Nat /\ Len(taken') \in Nat
  BY <1>1, Inductive DEF IInv, TypeOK
<1>4. TypeOK
  BY DEF IInv
<1>5. CASE AddStep(t) \/ \E n \in Node : AddBegin(t, n)
  <2>1. pc'[t] \in AddPC \cup {"idle"} /\ taken' = taken /\ pc[t] # "look"
    BY <1>4, <1>5 DEF AddStep, AddReadTail, AddReadNext, AddCheck, AddLink, AddLinkFails,
                AddSwing, AddHelp, AddBegin, AddPC, Goto, history, TypeOK
  <2>. QED
    BY <1>1, <1>2, <1>3, <2>1 DEF SeenBy, AddPC, TakePC
<1>6. CASE LoopBegin(t) \/ AfterNull(t) \/ TakeAdvance(t)
  <2>1. pc'[t] = "look"
    BY <1>4, <1>6 DEF LoopBegin, AfterNull, TakeAdvance, Goto, TypeOK
  <2>. QED
    BY <1>1, <1>3, <2>1 DEF SeenBy, TakePC
<1>7. CASE LookStep(t)
  <2>1. CASE LookReadHead(t) \/ LookReadTail(t)
    BY <1>1, <1>3, <1>4, <2>1 DEF LookReadHead, LookReadTail, Goto, SeenBy, TypeOK,
                shared, history, TakePC
  <2>2. CASE LookDecide(t)
    BY <1>1, <1>2, <1>3, <1>4, <2>2 DEF LookDecide, Goto, SeenBy, TypeOK, shared, history,
                locals, TakePC
  <2>. QED
    BY <1>7, <2>1, <2>2 DEF LookStep
<1>8. CASE TakeReadHead(t) \/ TakeReadTail(t) \/ TakeReadNext(t)
  BY <1>1, <1>2, <1>3, <1>4, <1>8 DEF TakeReadHead, TakeReadTail, TakeReadNext, Goto, SeenBy,
                TypeOK, shared, history, TakePC
<1>9. CASE TakeCheck(t) \/ TakeAdvanceFails(t)
  BY <1>1, <1>2, <1>3, <1>4, <1>9 DEF TakeCheck, TakeAdvanceFails, Goto, SeenBy,
                TypeOK, shared, history, locals, TakePC
<1>10. CASE TakeHelp(t)
  <2>1. /\ pc[t] = "take_help" /\ pc'[t] = "take_head" /\ taken' = taken
        /\ head # tail => head' # tail'
    BY <1>1, <1>4, <1>10, NotEmptyStays DEF TakeHelp, Goto, TypeOK, history
  <2>. QED
    BY <1>1, <1>2, <1>3, <2>1 DEF SeenBy, TakePC
<1>. QED
  BY <1>5, <1>6, <1>7, <1>8, <1>9, <1>10 DEF Step, TakeStep

LEMMA SeenStep ==
  ASSUME IInv, SeenInv, [SeenNext]_<<vars, seen>>
  PROVE  SeenInv'
<1>1. seen' \in [Thread -> Nat]
  <2>1. seen \in [Thread -> Nat] /\ Len(taken) \in Nat
    BY DEF SeenInv, IInv, TypeOK
  <2>2. CASE SeenNext
    <3>1. \A t \in Thread : seen[t] \in Nat
      BY <2>1
    <3>. QED
      BY <2>1, <2>2, <3>1 DEF SeenNext
  <2>. QED
    BY <2>1, <2>2
<1>2. CASE UNCHANGED <<vars, seen>>
  BY <1>1, <1>2, SeenOther DEF SeenInv, vars
<1>3. CASE SeenNext
  <2>1. PICK t \in Thread : Step(t) \/ LoopBegin(t) \/ \E n \in Node : AddBegin(t, n)
    BY <1>3 DEF SeenNext, Next
  <2>2. SeenBy(t)'
    BY <1>3, <2>1, SeenOwn
  <2>3. ASSUME NEW u \in Thread, u # t PROVE SeenBy(u)'
    <3>1. pc'[u] = pc[u] /\ first'[u] = first[u] /\ last'[u] = last[u]
      BY <2>1, <2>3 DEF Step, AddStep, AddReadTail, AddReadNext, AddCheck, AddLink,
                AddLinkFails, AddSwing, AddHelp, TakeStep, TakeReadHead, TakeReadTail,
                TakeReadNext, TakeCheck, TakeHelp, TakeAdvance, TakeAdvanceFails, AfterNull,
                LookStep, LookReadHead, LookReadTail, LookDecide, LoopBegin, AddBegin, Goto,
                locals, IInv, TypeOK
    <3>. QED
      BY <3>1, SeenOther
  <2>. QED
    BY <1>1, <2>2, <2>3 DEF SeenInv
<1>. QED
  BY <1>2, <1>3

\* isNotEmpty() and nextElement() of WorkQueue.h: the loop of a handler gets NULL
\* only after another consumer took a node, so a queue's only consumer, as
\* FPGAHandler::scanAtATime is, never does.
THEOREM NullCorrect == FairSpec => []NullMeansRaced
<1>1. SeenInit => SeenInv
  BY DEF SeenInit, SeenInv, SeenBy, Init, TakePC
<1>2. IInv /\ SeenInv /\ [SeenNext]_<<vars, seen>> => SeenInv'
  BY SeenStep
<1>3. SeenInit => Init
  BY DEF SeenInit
<1>4. [SeenNext]_<<vars, seen>> => [Next]_vars
  BY DEF SeenNext, vars
<1>5. SeenInv => NullMeansRaced
  BY DEF SeenInv, SeenBy, NullMeansRaced
<1>6. FairSpec => SeenInit /\ [][SeenNext]_<<vars, seen>>
  BY PTL DEF FairSpec
<1>. QED
  BY <1>1, <1>2, <1>3, <1>4, <1>5, <1>6, Invariance, PTL DEF Spec
=============================================================================
