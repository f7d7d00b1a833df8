----------------------------- MODULE AtomicScan -----------------------------
(***************************************************************************)
(* What the server may take an offloaded operator for: a unit that filters *)
(* the partitions queued for a scan one after another, each in one step,   *)
(* and hands a scan's pages on together before the next begins.  A join is *)
(* a scan by itself.  CSRs, polls, cache lines and the bus do not exist at *)
(* this level.  Nothing is said once the platform has not done what the    *)
(* code relies on.                                                         *)
(***************************************************************************)
EXTENDS Naturals, Sequences

CONSTANTS
  WorkItems,   \* the partitions of each scan, in the order they are queued
  Filtered     \* the right result page of each partition of each scan

VARIABLES
  left,        \* the partitions of this scan that are not filtered yet
  filtered,    \* the result pages of those that are
  handed,      \* the result pages of the scans that are over
  broken       \* has something happened that the code does not allow for?

atomicVars == <<left, filtered, handed, broken>>

NoPages == [p \in {} |-> {}]

AtomicInit == left = WorkItems[1] /\ filtered = NoPages /\ handed = <<>> /\ ~broken

FilterPartition ==
  /\ left # <<>>
  /\ left' = Tail(left)
  /\ filtered' = [p \in DOMAIN filtered \cup {Head(left)} |->
                    IF p = Head(left) THEN Filtered[Len(handed) + 1][p] ELSE filtered[p]]
  /\ UNCHANGED handed

HandOver ==
  /\ left = <<>> /\ Len(handed) < Len(WorkItems)
  /\ handed' = Append(handed, filtered)
  /\ filtered' = NoPages
  /\ left' = IF Len(handed') < Len(WorkItems) THEN WorkItems[Len(handed') + 1] ELSE <<>>

AtomicNext ==
  \/ (FilterPartition \/ HandOver) /\ UNCHANGED broken
  \/ broken'

AtomicSpec == AtomicInit /\ [][AtomicNext]_atomicVars
=============================================================================
