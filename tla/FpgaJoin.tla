------------------------------ MODULE FpgaJoin ------------------------------
(***************************************************************************)
(* The semi-join a query offloads: FPGAHandler::joinAtATime with           *)
(* afu_handler.cpp on one side of the bus, the accelerator of JoinAfu on   *)
(* the other, and the platform of FpgaScan between them.  The join has two *)
(* phases on one accelerator: the bitmap of the date scan is loaded, then  *)
(* the pages of the foreign-key column are looked up in it, and the host   *)
(* polls the same CSR for the end of either.                               *)
(*                                                                         *)
(* run() and base_afu.sv have the join commented out at this commit; this  *)
(* is the protocol of the code that is there, switched on.                 *)
(***************************************************************************)
EXTENDS JoinAfu, SequencesExt

CONSTANTS
  BitMapSize,    \* rows of the date column: bits of the bitmap
  CL_SIZE,       \* bits in a cache line (512)
  Partitions,    \* TotalPartitions() of the foreign-key column
  PageLines,     \* cache lines in a page (PAGE_SIZE / 64)
  MinGap,        \* AFU cycles between two MMIO requests
  WriteCredits   \* unacknowledged writes at which c1TxAlmFull goes up

VARIABLES
  hpc,           \* the host's next MMIO access
  queue, part,   \* fpga_queue, and part_id of the work unit taken last
  mmio, gap, answer, reading, writing, memory,    \* the bus, as in FpgaScan
  kept,          \* history: no result was dropped, misplaced or overtaken
  early,         \* history: a poll came before the new address took effect
  result         \* what copyFPGAWriteBuffer has handed on

hostVars == <<hpc, queue, part, result>>
busVars == <<mmio, gap, answer, reading, writing, memory, kept, early>>
vars == <<afuVars, hostVars, busVars>>

\* bitmap_cls, as joinAtATime computes it.
BitMapCls == BitMapSize \div CL_SIZE + 1

PartId == 0 .. Partitions - 1
LineNo == 0 .. PageLines - 1

ASSUME FpgaJoinAssumption ==
  /\ {BitMapSize, CL_SIZE, Partitions, PageLines, MinGap, WriteCredits, MapLines}
       \subseteq Nat \ {0}
  /\ PageLines < 128 /\ BitMapCls <= PageLines /\ BitMapCls <= MapLines

\* What is written for a line of partition p by the join the query asks for.
LoadedMap == [i \in 0 .. MapLines - 1 |-> IF i < BitMapCls THEN <<0, i>> ELSE None]
Joined(p, l) == [keys |-> <<p + 1, l>>, map |-> LoadedMap]

\* None is nothing the bus carries.
ASSUME NoneAssumption ==
  /\ None \notin BOOLEAN /\ None # ReadCSR(JOIN_PROCESSED)
  /\ \A k \in 0 .. 7, n \in 0 .. 127 \cup PartId \cup {Partitions} : None # WriteCSR(k, n)
  /\ \A p \in PartId \cup {Partitions}, l \in LineNo :
       None \notin {<<p, l>>, ReadRsp(<<p, l>>), [line |-> <<p, l>>, bits |-> Joined(p, l)]}

TypeOK ==
  /\ hpc \in {"notify", "job_type", "bitmap_cls", "reading_bitmap",
              "bitmap_address", "poll_bitmap", "answer_bitmap", "fk_cls",
              "bitmap_ready", "loop", "result_address", "poll", "answer",
              "copy", "done"}
  /\ queue \in Seq(PartId) /\ part \in PartId
  /\ Len(mmio) <= 6 /\ gap \in 0 .. MinGap - 1
  /\ {answer, c2} \subseteq BOOLEAN \cup {None}
  /\ query_state \in {SCAN_PROCESSING, JOIN_PROCESSING}
  /\ state \in {"waiting", "idle", "req", "rsp", "processing"}
  /\ {new_partition_ready, reading_bitmap, bitmap_ready, cl_req_allowed,
      cl_req_issued, cl_received, cl_processed, partition_processed, kept, early}
       \subseteq BOOLEAN
  /\ cls_to_process \in {0, BitMapCls, PageLines}
  /\ cls_processed \in 0 .. PageLines
  /\ {c0} \cup reading \subseteq {None} \cup ((0 .. Partitions) \X LineNo)
-----------------------------------------------------------------------------
\* addWorkItems
WorkItems == [i \in 1 .. Partitions |-> i - 1]

JoinInit ==
  /\ AfuInit
  /\ hpc = "notify" /\ part = 0 /\ queue = WorkItems
  /\ mmio = <<>> /\ gap = 0 /\ answer = None
  /\ reading = {} /\ writing = {}
  /\ memory = [l \in PartId \X LineNo |-> None]
  /\ kept = TRUE /\ early = FALSE
  /\ result = None

\* One MMIO access, in program order: from one host location to the next.
Access(from, to, req) ==
  /\ hpc = from
  /\ hpc' = to
  /\ mmio' = Append(mmio, req)
  /\ UNCHANGED <<afuVars, gap, answer, reading, writing, memory, kept, early,
                 result>>

Store(from, to, csr, data) ==
  Access(from, to, WriteCSR(csr, data)) /\ UNCHANGED <<queue, part>>

\* The parameters of the two phases; bitmap_address starts the first.
SendParameters ==
  \/ Store("notify", "job_type", QUERY_STATE, JOIN_PROCESSING)
  \/ Store("job_type", "bitmap_cls", JOB_TYPE, 4)
  \/ Store("bitmap_cls", "reading_bitmap", TOTAL_CLS, BitMapCls)
  \/ Store("reading_bitmap", "bitmap_address", BITMAP_STATE, 1)
  \/ Store("bitmap_address", "poll_bitmap", COLUMN_ADDRESS, 0)
  \/ Store("fk_cls", "bitmap_ready", TOTAL_CLS, PageLines)
  \/ Store("bitmap_ready", "loop", BITMAP_STATE, 0)

\* The loop of joinAtATime: nextElement() and the two addresses.
WriteColumnAddress ==
  /\ queue # <<>>
  /\ Access("loop", "result_address", WriteCSR(COLUMN_ADDRESS, Head(queue) + 1))
  /\ part' = Head(queue) /\ queue' = Tail(queue)

WriteResultAddress == Store("result_address", "poll", RESULT_ADDRESS, part)

LoopEnds ==
  /\ hpc = "loop" /\ queue = <<>>
  /\ hpc' = "copy"
  /\ UNCHANGED <<afuVars, queue, part, result, busVars>>

\* waitForBitMapProcessing and waitForJoinProcessing: while (!readCSR(5)) { }
Poll ==
  /\ \/ Access("poll_bitmap", "answer_bitmap", ReadCSR(JOIN_PROCESSED))
     \/ Access("poll", "answer", ReadCSR(JOIN_PROCESSED))
  /\ UNCHANGED <<queue, part>>

Answer ==
  /\ answer # None
  /\ \/ hpc = "answer_bitmap" /\ hpc' = IF answer THEN "fk_cls" ELSE "poll_bitmap"
     \/ hpc = "answer" /\ hpc' = IF answer THEN "loop" ELSE "poll"
  /\ answer' = None
  /\ kept' = (kept /\ (answer => writing = {}))
  /\ UNCHANGED <<afuVars, queue, part, result, mmio, gap, reading, writing,
                 memory, early>>

\* copyFPGAWriteBuffer for every partition; the next scan takes the ports back.
CopyResults ==
  /\ hpc = "copy"
  /\ result' = memory
  /\ hpc' = "done"
  /\ mmio' = Append(mmio, WriteCSR(QUERY_STATE, SCAN_PROCESSING))
  /\ UNCHANGED <<afuVars, queue, part, gap, answer, reading, writing, memory,
                 kept, early>>

Host == SendParameters \/ WriteColumnAddress \/ WriteResultAddress \/ LoopEnds
          \/ Poll \/ Answer \/ CopyResults
-----------------------------------------------------------------------------
(***************************************************************************)
(* The platform.  What the code relies on and nothing in the repository    *)
(* provides is recorded in kept, as in FpgaScan, and in early: the CSR     *)
(* manager answers a read of CSR 5 while a COLUMN_ADDRESS store is between *)
(* it and the state machine that clears the flag.                          *)
(***************************************************************************)
c1TxAlmFull == Cardinality(writing) >= WriteCredits

Dropped == Offered /\ c1TxAlmFull

EarlyPoll == /\ csr_rx # None /\ csr_rx.op = "read"
             /\ Written(COLUMN_ADDRESS) \/ new_partition_ready

ResultAddressPending ==
  LET store == WriteCSR(RESULT_ADDRESS, part) IN
    hpc = "result_address" \/ store \in ToSet(mmio) \cup {csr_rx}

\* What an edge does on the bus, besides what it takes from it.
Ports ==
  /\ answer' = IF c2 # None THEN c2 ELSE answer
  /\ writing' = IF Bus.c1 # None THEN writing \cup {Bus.c1} ELSE writing
  /\ early' = (early \/ EarlyPoll)
  /\ UNCHANGED <<hostVars, memory>>

Requested == IF Bus.c0 # None THEN {Bus.c0} ELSE {}

Tick(c0TxAlmFull) ==
  /\ Clock(None, c0TxAlmFull, c1TxAlmFull) /\ Ports
  /\ gap' = IF gap > 0 THEN gap - 1 ELSE 0
  /\ reading' = reading \cup Requested
  /\ kept' = (kept /\ ~Dropped)
  /\ UNCHANGED mmio

TickRequest(c0TxAlmFull) ==
  /\ mmio # <<>> /\ gap = 0
  /\ Clock(Head(mmio), c0TxAlmFull, c1TxAlmFull) /\ Ports
  /\ mmio' = Tail(mmio)
  /\ gap' = MinGap - 1
  /\ reading' = reading \cup Requested
  /\ kept' = (kept /\ ~Dropped)

TickResponse(line, c0TxAlmFull) ==
  /\ line \in reading
  /\ Clock(ReadRsp(line), c0TxAlmFull, c1TxAlmFull) /\ Ports
  /\ reading' = (reading \ {line}) \cup Requested
  /\ kept' = (kept /\ ~Dropped /\ ~ResultAddressPending)
  /\ gap' = IF gap > 0 THEN gap - 1 ELSE 0
  /\ UNCHANGED mmio

\* Writes reach memory in any order.
WriteLands(w) ==
  /\ w \in writing
  /\ writing' = writing \ {w}
  /\ memory' = [l \in DOMAIN memory |-> IF l = w.line THEN w.bits ELSE memory[l]]
  /\ UNCHANGED <<afuVars, hostVars, mmio, gap, answer, reading, kept, early>>

Next ==
  \/ Host
  \/ \E full \in BOOLEAN : \/ Tick(full)
                          \/ TickRequest(full)
                          \/ \E line \in reading : TickResponse(line, full)
  \/ \E w \in writing : WriteLands(w)

Spec == JoinInit /\ [][Next]_vars

\* As in FpgaScan: the clock runs, the bus delivers, memory answers.
Fairness ==
  /\ WF_vars(Host)
  /\ WF_vars(Tick(FALSE))
  /\ WF_vars(\E full \in BOOLEAN : TickRequest(full))
  /\ WF_vars(\E line \in reading, full \in BOOLEAN : TickResponse(line, full))
  /\ WF_vars(\E w \in writing : WriteLands(w))

FairSpec == Spec /\ Fairness
-----------------------------------------------------------------------------
\* What copyFPGAWriteBuffer hands on for each partition is, line by line, the
\* lookup of the partition's own keys in the complete bitmap of this query: no
\* line of keys was loaded as bitmap, none was looked up in a bitmap half
\* loaded or left over, none was lost, written elsewhere or still under way.
JoinComplete ==
  kept /\ ~early /\ result # None =>
    \A p \in PartId, l \in LineNo : result[<<p, l>>] = Joined(p, l)

\* What AtomicScan sees of a state, with the join for its only scan.
PartPC == {"result_address", "poll", "answer"}
Finished == Partitions - Len(queue) - (IF hpc \in PartPC THEN 1 ELSE 0)

Unfinished == IF hpc \in PartPC THEN <<part>> \o queue ELSE queue
PagesFinished ==
  [p \in IF hpc = "done" THEN {} ELSE 0 .. Finished - 1 |->
     [l \in LineNo |-> memory[<<p, l>>]]]
HandedOver ==
  IF hpc = "done" THEN <<[p \in PartId |-> [l \in LineNo |-> result[<<p, l>>]]]>> ELSE <<>>

Atomic == INSTANCE AtomicScan WITH
  WorkItems <- <<WorkItems>>,
  Filtered <- <<[p \in PartId |-> [l \in LineNo |-> Joined(p, l)]]>>,
  left <- Unfinished, filtered <- PagesFinished, handed <- HandedOver,
  broken <- early \/ ~kept

\* joinAtATime and join_afu do what AtomicScan does with one scan whose filter is
\* the lookup in the complete bitmap: a partition is looked up at once when the
\* host sees it completed, its page stays as it is until it is copied, and the
\* bitmap phase does not show.  So it is until a poll comes early or the platform
\* fails to do its part.
ImplementsAtomicScan == Atomic!AtomicSpec

\* A completion the host has not looked at yet is about the phase and the
\* partition it polls for, never the flag of the phase before: the accelerator
\* has that partition's addresses and has read its last line.
CompletionIsCurrent ==
  ~early /\ answer = TRUE =>
    /\ partition_processed /\ reading = {} /\ c0 = None /\ mmio = <<>>
    /\ hpc = "answer_bitmap" => cl_address = 0 /\ bit_map = LoadedMap
    /\ hpc = "answer" => cl_address = part + 1 /\ result_address = part

\* The join ends, whatever the platform drops or reorders and however early the
\* host polls: no phase waits for a line, a response or a flag that does not come.
JoinEnds == <>(hpc = "done")
=============================================================================
