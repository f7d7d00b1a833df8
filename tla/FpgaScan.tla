------------------------------ MODULE FpgaScan ------------------------------
(***************************************************************************)
(* The filter scans a query offloads: the FPGA thread (FPGAHandler::run    *)
(* and scanAtATime, with afu_handler.cpp) on one side of the bus, the      *)
(* accelerator of ScanAfu on the other, and between them the platform:     *)
(* posted MMIO writes, cache-line reads and writes in memory.              *)
(*                                                                         *)
(* The host is a program counter over its MMIO accesses; the AFU takes a   *)
(* clock edge at any moment; memory answers when it likes.                 *)
(***************************************************************************)
EXTENDS ScanAfu, SequencesExt

CONSTANTS
  ScanType,      \* the JOB_TYPE of each scan, in the order run() starts them
  Partitions,    \* TotalPartitions() of each scan
  Elements,      \* TotalElements() of each scan
  BitEncoding,   \* bits per compressed value of each scan
  CL_SIZE,       \* bits in a cache line (512)
  PageLines,     \* cache lines in a partition's page (PAGE_SIZE / 64)
  MinGap,        \* AFU cycles between two MMIO requests
  WriteCredits   \* unacknowledged writes at which c1TxAlmFull goes up

Scan == 1 .. Len(ScanType)

ASSUME FpgaScanAssumption ==
  /\ ScanType \in Seq(FilterUnit) \ {<<>>}
  /\ \A f \in {Partitions, Elements, BitEncoding} : f \in [Scan -> Nat \ {0}]
  /\ \A s \in Scan : BitEncoding[s] <= CL_SIZE
  /\ {CL_SIZE, PageLines, MinGap, WriteCredits} \subseteq Nat \ {0}
  /\ PageLines < 128

\* Or the first poll of a partition would be decoded before its address.
ASSUME MmioGapAssumption == MinGap >= 2

VARIABLES
  hpc, scan,     \* the host's next MMIO access, and the scan it is in
  queue, part,   \* fpga_queue, and part_id of the work unit taken last
  mmio,          \* posted MMIO requests on their way to the AFU, in order
  gap,           \* cycles until the AFU may see the next of them
  answer,        \* the answer to the host's MMIO read, on its way back
  reading,       \* cache lines requested from memory, not answered yet
  writing,       \* cache lines written by the AFU, not in memory yet
  memory,        \* the write buffers: a function from lines to bit vectors
  kept,          \* history: has the platform kept what the code relies on?
  lied,          \* history: has an MMIO read failed?
  result         \* what copyFPGAWriteBuffer has handed to each scan

hostVars == <<hpc, scan, queue, part, lied, result>>
busVars == <<mmio, gap, answer, reading, writing, memory, kept>>
vars == <<afuVars, hostVars, busVars>>

HostPC == {"notify", "total_cls", "filter_predicate", "job_type", "loop",
           "result_address", "poll", "answer", "copy", "done"}

PartId(s) == 0 .. Partitions[s] - 1
Line == UNION {({ScanType[s]} \X PartId(s)) \X (0 .. PageLines - 1) : s \in Scan}
Bits == SUBSET (FilterUnit \X Line \X Scan)

\* ceil(a / b), as the code computes it in doubles.
CeilDiv(a, b) == (a + b - 1) \div b

\* Mutant: the page limit is forgotten.
TotalClsOfColumn(s) == CeilDiv(Elements[s], CL_SIZE \div BitEncoding[s])

\* scanAtATime: cache lines of one partition, at most a page of them.
TotalCls(s) ==
  LET items_per_read == CL_SIZE \div BitEncoding[s] IN
    Min({CeilDiv(Elements[s], items_per_read), PageLines})

\* A queue with the work units 0 .. n-1, and the two loops that fill it: the
\* main thread's for the first scan stops one short of the column's partitions.
Units(n) == [i \in 1 .. n |-> i - 1]
MainWorkItems == Units(Partitions[1] - 1)
HandlerWorkItems(s) == Units(Partitions[s])

Buffer == <<ScanType[scan], part>>

TypeOK ==
  /\ hpc \in HostPC
  /\ scan \in Scan
  /\ queue \in Seq(Nat) /\ Len(queue) <= Partitions[scan]
  /\ part \in Nat
  /\ ~lied => Len(mmio) <= IF Partitions[1] = 1 THEN 11 ELSE 7
  /\ gap \in 0 .. MinGap - 1
  /\ answer \in BOOLEAN \cup {None}
  /\ c2 \in BOOLEAN \cup {None}
  /\ query_state \in {SCAN_PROCESSING, QUERY_DONE}
  /\ state \in {"waiting", "idle", "req", "rsp", "processing"}
  /\ {new_partition_ready, cl_req_allowed, cl_req_issued, cl_received,
      partition_processed} \subseteq BOOLEAN
  /\ total_cls \in 0 .. 127 /\ total_cls_processed \in 0 .. 127
  /\ scan_column \in 0 .. 3 /\ filter_pred \in Scan \cup {None}
  /\ cl_processed \subseteq FilterUnit
  /\ rsp_data \in Line \cup {None}
  /\ c0 \in Line \cup {None}
  /\ {kept, lied} \subseteq BOOLEAN
  /\ kept /\ ~lied => /\ c1 = None \/ (c1.line \in Line /\ c1.bits \in Bits)
             /\ \A w \in writing : w.line \in Line /\ w.bits \in Bits
  /\ reading \subseteq Line
  /\ memory \in [Line -> Bits \cup {None}]
-----------------------------------------------------------------------------
(***************************************************************************)
(* The host.  The predicate of a scan is named by the scan.                *)
(***************************************************************************)
FpgaInit ==
  /\ AfuInit
  /\ hpc = "notify" /\ scan = 1 /\ part = 0
  /\ queue = MainWorkItems
  /\ mmio = <<>> /\ gap = 0 /\ answer = None
  /\ reading = {} /\ writing = {}
  /\ memory = [l \in Line |-> None] /\ kept = TRUE /\ lied = FALSE
  /\ result = [s \in Scan |-> None]

\* One MMIO access, in program order: from one host location to the next.
Access(from, to, req) ==
  /\ hpc = from
  /\ hpc' = to
  /\ mmio' = Append(mmio, req)

Other == UNCHANGED <<afuVars, gap, answer, reading, writing, memory, kept, lied, result>>

Notify ==
  /\ Access("notify", "total_cls", WriteCSR(QUERY_STATE, SCAN_PROCESSING))
  /\ UNCHANGED <<scan, queue, part>> /\ Other

WriteTotalCls ==
  /\ Access("total_cls", "filter_predicate", WriteCSR(TOTAL_CLS, TotalCls(scan)))
  /\ UNCHANGED <<scan, queue, part>> /\ Other

WriteFilterPredicate ==
  /\ Access("filter_predicate", "job_type", WriteCSR(FILTER_PREDICATE, scan))
  /\ UNCHANGED <<scan, queue, part>> /\ Other

WriteJobType ==
  /\ Access("job_type", "loop", WriteCSR(JOB_TYPE, ScanType[scan]))
  /\ UNCHANGED <<scan, queue, part>> /\ Other

\* The loop of scanAtATime: nextElement() and the first address.
WriteColumnAddress ==
  /\ queue # <<>>
  /\ Access("loop", "result_address",
            WriteCSR(COLUMN_ADDRESS, <<ScanType[scan], Head(queue)>>))
  /\ part' = Head(queue)
  /\ queue' = Tail(queue)
  /\ UNCHANGED scan /\ Other

WriteResultAddress ==
  /\ Access("result_address", "poll", WriteCSR(RESULT_ADDRESS, Buffer))
  /\ UNCHANGED <<scan, queue, part>> /\ Other

LoopEnds ==
  /\ hpc = "loop" /\ queue = <<>>
  /\ hpc' = "copy"
  /\ UNCHANGED <<scan, queue, part, mmio>> /\ Other

\* waitForProcessing: while (!csrs->readCSR(1)) { }
Poll ==
  /\ Access("poll", "answer", ReadCSR(PARTITION_PROCESSED))
  /\ UNCHANGED <<scan, queue, part>> /\ Other

\* mmioRead64 returns -1 if the driver fails, and that is not 0.  At most one
\* read of a query fails here.
PollFails ==
  /\ hpc = "poll" /\ ~lied
  /\ hpc' = "loop"
  /\ lied' = TRUE
  /\ UNCHANGED <<afuVars, scan, queue, part, result, busVars>>

\* Mutant: one poll, whatever it answers.
AnswerOnce ==
  /\ hpc = "answer" /\ answer # None
  /\ hpc' = "loop"
  /\ answer' = None
  /\ kept' = (kept /\ (answer => writing = {}))
  /\ UNCHANGED <<afuVars, scan, queue, part, lied, result, mmio, gap, reading,
                 writing, memory>>

Answer ==
  /\ hpc = "answer" /\ answer # None
  /\ hpc' = IF answer THEN "loop" ELSE "poll"
  /\ answer' = None
  /\ kept' = (kept /\ (answer => writing = {}))
  /\ UNCHANGED <<afuVars, scan, queue, part, lied, result, mmio, gap, reading,
                 writing, memory>>

\* copyFPGAWriteBuffer for every partition; then run() starts the next scan
\* (addWorkItems, notifyFPGA) or reports QUERY_DONE.
CopyResults ==
  /\ hpc = "copy"
  /\ result' = [result EXCEPT ![scan] =
       [p \in PartId(scan) |->
          [l \in 0 .. TotalCls(scan) - 1 |-> memory[<<<<ScanType[scan], p>>, l>>]]]]
  /\ IF scan < Len(ScanType)
     THEN /\ scan' = scan + 1
          /\ queue' = HandlerWorkItems(scan + 1)
          /\ hpc' = "notify"
          /\ UNCHANGED mmio
     ELSE /\ mmio' = Append(mmio, WriteCSR(QUERY_STATE, QUERY_DONE))
          /\ hpc' = "done"
          /\ UNCHANGED <<scan, queue>>
  /\ UNCHANGED <<afuVars, part, lied, gap, answer, reading, writing, memory, kept>>

Host == \/ Notify \/ WriteTotalCls \/ WriteFilterPredicate \/ WriteJobType
        \/ WriteColumnAddress \/ WriteResultAddress \/ LoopEnds
        \/ Poll \/ PollFails \/ Answer \/ CopyResults
-----------------------------------------------------------------------------
(***************************************************************************)
(* The platform.  c0Rx brings the AFU at most one thing per cycle: an MMIO *)
(* request or a cache line.                                                *)
(***************************************************************************)
ResultAddressPending ==
  \/ hpc = "result_address"
  \/ \E i \in 1 .. Len(mmio) : mmio[i] = WriteCSR(RESULT_ADDRESS, Buffer)
  \/ csr_rx = WriteCSR(RESULT_ADDRESS, Buffer)

c1TxAlmFull == Cardinality(writing) >= WriteCredits

(***************************************************************************)
(* What the code relies on and the repository does not provide.  kept goes *)
(* down when memory answers a read before the host's RESULT_ADDRESS store, *)
(* the one after the store that started it, has arrived; when a result is  *)
(* offered to an almost full port; and (in Answer) when the answer to an   *)
(* MMIO read overtakes an earlier memory write.                            *)
(***************************************************************************)
Dropped == LineDone /\ c1TxAlmFull

\* What an edge does on the bus, besides what it takes from it.
Ports ==
  /\ answer' = IF c2 # None THEN c2 ELSE answer
  /\ writing' = IF Bus.c1 # None THEN writing \cup {Bus.c1} ELSE writing
  /\ UNCHANGED <<hostVars, memory>>

Requested == IF Bus.c0 # None THEN {Bus.c0} ELSE {}

Tick(c0TxAlmFull) ==
  /\ Clock(None, c0TxAlmFull, c1TxAlmFull) /\ Ports
  /\ gap' = IF gap > 0 THEN gap - 1 ELSE 0
  /\ reading' = reading \cup Requested
  /\ kept' = (kept /\ ~Dropped)
  /\ UNCHANGED mmio

TickRequest(c0TxAlmFull) ==
  /\ mmio # <<>> /\ gap = 0
  /\ Clock(Head(mmio), c0TxAlmFull, c1TxAlmFull) /\ Ports
  /\ mmio' = Tail(mmio)
  /\ gap' = MinGap - 1
  /\ reading' = reading \cup Requested
  /\ kept' = (kept /\ ~Dropped)

TickResponse(line, c0TxAlmFull) ==
  /\ line \in reading
  /\ Clock(ReadRsp(line), c0TxAlmFull, c1TxAlmFull) /\ Ports
  /\ reading' = (reading \ {line}) \cup Requested
  /\ kept' = (kept /\ ~Dropped /\ ~ResultAddressPending)
  /\ gap' = IF gap > 0 THEN gap - 1 ELSE 0
  /\ UNCHANGED mmio

\* Writes reach memory in any order.
WriteLands(w) ==
  /\ w \in writing
  /\ writing' = writing \ {w}
  /\ memory' = [memory EXCEPT ![w.line] = w.bits]
  /\ UNCHANGED <<afuVars, hostVars, mmio, gap, answer, reading, kept>>

Next ==
  \/ Host
  \/ \E full \in BOOLEAN : \/ Tick(full)
                          \/ TickRequest(full)
                          \/ \E line \in reading : TickResponse(line, full)
  \/ \E w \in writing : WriteLands(w)

Spec == FpgaInit /\ [][Next]_vars

(***************************************************************************)
(* The clock runs, the bus delivers, memory answers and accepts, and the   *)
(* host thread is scheduled.  c0TxAlmFull does not stay up for ever.       *)
(***************************************************************************)
Fairness ==
  /\ WF_vars(Host)
  /\ WF_vars(Tick(FALSE))
  /\ WF_vars(\E full \in BOOLEAN : TickRequest(full))
  /\ WF_vars(\E line \in reading, full \in BOOLEAN : TickResponse(line, full))
  /\ WF_vars(\E w \in writing : WriteLands(w))

FairSpec == Spec /\ Fairness
-----------------------------------------------------------------------------
\* The result of one line: the scan's own filter unit and predicate over the
\* line of the same number in the same partition.
Right(s, p, l) ==
  {<<ScanType[s], <<<<ScanType[s], p>>, l>>, s>>}

PartitionRight(s, p) ==
  \A l \in 0 .. TotalCls(s) - 1 : result[s][p][l] = Right(s, p, l)

\* None is nothing the bus carries.
ASSUME NoneAssumption ==
  /\ None \notin BOOLEAN \cup Line
  /\ \A k \in 0 .. 7 : None # ReadCSR(k)
  /\ \A k \in 0 .. 7, n \in 0 .. 127 \cup Scan : None # WriteCSR(k, n)
  /\ \A l \in Line :
       /\ None # ReadRsp(l)
       /\ \A k \in 0 .. 7 : None # WriteCSR(k, l[1])
       /\ \A s \in Scan : None # [line |-> l, bits |-> {<<ScanType[s], l, s>>}]

Queued(s) == IF s = 1 THEN ToSet(MainWorkItems) ELSE ToSet(HandlerWorkItems(s))

\* What copyFPGAWriteBuffer hands on is, for every partition that was queued,
\* the filter result of every line of that partition: no line was lost, written
\* over, mixed with another unit's bits, or still under way when it was copied.
\* So it is as long as the platform does its part.
ResultsComplete ==
  kept /\ ~lied =>
    \A s \in Scan : result[s] # None => \A p \in Queued(s) : PartitionRight(s, p)

\* What AtomicScan sees of a state: the partitions the host has not seen
\* completed, the result pages in memory of those it has, and the pages copied.
NumUnits(s) == IF s = 1 THEN Partitions[1] - 1 ELSE Partitions[s]
InPart == hpc \in {"result_address", "poll", "answer"}
Finished == NumUnits(scan) - Len(queue) - (IF InPart THEN 1 ELSE 0)

Unfinished == IF InPart THEN <<part>> \o queue ELSE queue
PagesFinished ==
  [p \in IF hpc = "done" THEN {} ELSE 0 .. Finished - 1 |->
     [l \in 0 .. TotalCls(scan) - 1 |-> memory[<<<<ScanType[scan], p>>, l>>]]]
HandedOver ==
  [s \in 1 .. (IF hpc = "done" THEN scan ELSE scan - 1) |->
     [p \in Queued(s) |-> result[s][p]]]

Atomic == INSTANCE AtomicScan WITH
  WorkItems <- [s \in Scan |-> Units(NumUnits(s))],
  Filtered <- [s \in Scan |-> [p \in Queued(s) |-> [l \in 0 .. TotalCls(s) - 1 |-> Right(s, p, l)]]],
  left <- Unfinished, filtered <- PagesFinished, handed <- HandedOver,
  broken <- lied \/ ~kept

\* The whole exchange of scanAtATime and scan_afu is that of AtomicScan: a
\* partition is filtered at once when the host sees it completed, its page in
\* memory is the right one then and is left alone until it is copied, and no
\* other step shows.  So it is until the platform fails to do its part.
ImplementsAtomicScan == Atomic!AtomicSpec

\* A completion on its way to waitForProcessing is about the partition whose
\* addresses the host wrote last, never the previous one's flag: the AFU has
\* those addresses, has nothing left to read and holds no other request.
CompletionIsCurrent ==
  answer = TRUE => /\ partition_processed
                   /\ read_buff_address = Buffer
                   /\ write_buff_address = Buffer
                   /\ total_cls_processed \in {0, TotalCls(scan)}
                   /\ c0 = None /\ reading = {} /\ mmio = <<>>

\* A cache line memory still owes the AFU finds it in STATE_RSP: a response at
\* any other moment would be lost, and the scan would hang.
ResponseHasReader ==
  ~lied /\ reading # {} => /\ Cardinality(reading) = 1
                  /\ state = "rsp" /\ ~cl_received

\* Once QUERY_DONE is sent, and whenever the memory ports latch, no request is
\* on the ports or in memory: releaseAllBuffers may free every buffer.  Only the
\* end of a write depends on the platform.
QuietWhenDone ==
  ~lied =>
    /\ hpc = "done" => /\ reading = {} /\ c0 = None /\ c1 = None
                       /\ kept => writing = {}
    /\ query_state = QUERY_DONE => Bus = [c0 |-> None, c1 |-> None]

\* No CSR store reaches a running scan: its parameters change only while it
\* waits, and the result address not once a line is being filtered, if the
\* platform does its part.
ParametersHeld ==
  [][/\ ~lied /\ state # "waiting" =>
          UNCHANGED <<read_buff_address, total_cls, filter_pred, scan_column,
                      query_state>>
     /\ kept' /\ ~lied /\ state = "processing" => UNCHANGED write_buff_address]_vars

\* Every query ends: no completion, response or work unit is waited for in vain.
ScanEnds == <>(hpc = "done" \/ lied)

\* FPGAHandler.h:85, in a print that is commented out: "All partitions processed
\* for the current column!"
AllPartitionsProcessed ==
  kept /\ ~lied =>
    \A s \in Scan : result[s] # None => \A p \in PartId(s) : PartitionRight(s, p)
=============================================================================
