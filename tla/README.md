# A verification model of sdb_fpga

sdb_fpga runs Star Schema Benchmark queries on compressed columns. A query is a
handful of threads: CPU cores and, in a build with `__FPGA__`, one thread that
offloads column scans to an Intel FPGA card over CCI-P. This directory holds
TLA+ modules for the parts of it where several actors meet, TLC configurations
that check them on small instances, and TLAPS proofs for every instance.

Paths below are relative to `src/src/`.

## 1. Inventory

| Part | Where | State it keeps | Operations |
|---|---|---|---|
| Work queue | `exec/util/WorkQueue.h` | atomics `head`, `tail`, each `Node::next` | `add`, `nextElement`, `isNotEmpty` |
| Node allocation | `sched/ProcessingUnit.h`, `thread/Thread.h`, `util/Query.h` | `node_pool`, `nextSlot` | `new Node` in `addWorkItems`; `returnNextNode`, `putFreeNode` (not called) |
| Query threads | `exec/Master.cpp`, `sched/ProcessingUnit.*`, `thread/*Handler.h`, `thread/Thread.h` | handlers, `running` flags, the shared queues | create, start, join, `run` of each handler |
| Barriers | `thread/Syncronizer.h`, `thread/util/PThreadBarrier.h` | three `pthread_barrier_t`; mutex, condition variable and count | init, wait, destroy |
| FPGA handler | `thread/FPGAHandler.h`, `fpga/processing/ssb/sw/` | buffers per job and partition, CSR manager | connect, prepare buffers, notify, write parameters, poll, copy results, release |
| CSR manager | `fpga/base/hw/rtl/csr_mgr.*`, `fpga/base/sw/csr_mgr.h` | MMIO request and response registers, counters | read and write of 16 application CSRs, read of common CSRs |
| Scan accelerator | `fpga/processing/ssb/hw/rtl/base_afu.sv`, `scan_afu.sv` | query state, scan parameters, state machine, line count, three filter units | one clock edge |
| Semi-join accelerator | `join_afu.sv`, `operators/ssb/semi_join/`, `api/JoinApi.h` | key bitmap, state machine | bitmap load, probe |
| Columns | `data/Column.h`, `Partition.h`, `Table.h`, `api/JobWrapper.h` | pages, partitions, result bit vectors | compress into pages, reserve and copy results |
| CPU operators | `api/ScanApi.*`, `thread/CoreHandler.h` | | SIMD scan (not called) |
| Raw reader | `data/RawTable.h`, `api/RawScan.h` | mapped chunk, cursor | split tuples, feed the compressors |
| Compressor | `data/compressor/` | dictionary, bit width | build the dictionary, write the metadata |
| Earlier accelerators | `fpga/processing/data_parallelism`, `block_rw` | block counters | blocked reads and writes |
| OPAE wrapper and shims | `fpga/base/sw/opae_svc_wrapper.*`, `cci_afu_with_mpf.sv` | tokens, accelerator and MPF handles, MMIO space, shared buffers | probe, enumerate, open, map, connect MPF, allocate, MMIO, close |
| TCP streams | `network/`, `exec/Client.cpp` | sockets | send, receive |

How they meet. `Master.cpp` builds a `ProcessingUnit`, which makes one handler
per compute unit (and the FPGA handler), fills the FPGA queue with the
partitions of the first column, starts the threads and joins them. The handlers
go through the start barrier, the FPGA barrier and the end barrier of
`Syncronizer`. Between the first two the FPGA handler connects; between the last
two it takes partitions from its `WorkQueue`, writes the parameters of each to
the AFU's CSRs, polls a CSR until the partition is done, and copies the results.
The AFU reads cache lines of the partition's page over CCI-P, filters each with
one of three units and writes a result line.

What is hard about it, and what has to be true:

- **Work queue.** Lock-free, several CASes per operation, a tail pointer that
  lags, helping. *No node lost, forked off or handed out twice; FIFO; a stopped
  thread blocks nobody; the FPGA handler's unchecked dereference of
  `nextElement()` is safe.*
- **Query threads.** Thread counts and barrier counts are set in different
  files and differ by one in an FPGA build; errors of `pthread_create` and of the
  connection are ignored. *A barrier lets the counted threads through together,
  and no other; the barriers outlive their users; no handler returns before the
  FPGA has scanned; the query ends.*
- **Barrier emulation.** A cyclic barrier out of a mutex and a condition
  variable without a wait loop. *It is a POSIX barrier; rounds do not mix.*
- **FPGA scan.** One completion flag, reused for every partition; a store that
  starts the scan followed by a store it depends on; posted writes; one-cycle
  requests that a full port swallows; result registers shared by three units.
  *Each partition's result is complete and its own; completions are never
  stale; no response is lost; the query ends; nothing is in flight when the
  buffers are freed.*
- **FPGA session.** A dozen driver calls that may each fail, most of them
  unchecked; buffers found by their place in vectors that a failure leaves short;
  a partition count that is a constant. *Whatever was opened is given back in
  order; a partition gets its own result or its failure was reported; without a
  failure the query ends.*
- **Semi-join.** Two phases on one accelerator that poll the same flag; a bitmap
  held in registers; one-cycle requests. *Every key is looked up in the complete
  bitmap of this query; a completion belongs to the phase polled for; the join
  ends.*
- **Columns, compressor, raw reader.** Sequential; boundary arithmetic (page
  sizes, widths that do not divide 64, the last chunk). *Every value is encoded
  once and is found where the scan looks for it.*

`PROJECT.json` lists each hazard at its line with the properties that cover it, and
says of those that do go wrong in the code, or that a property excepts, what is
left uncovered.

## 2. Modules

| Module | What it is |
|---|---|
| `FifoQueue` | abstract: a FIFO queue with atomic operations |
| `WorkQueue` | `WorkQueue.h`, one action per load, store or CAS |
| `MCWorkQueue` | symmetry |
| `MCWorkQueueProgress` | the threads that keep running, lock freedom, what a NULL means |
| `WorkQueueProofs` | proofs, about `MCWorkQueueProgress` too |
| `PosixBarrier` | abstract: the cyclic barrier of POSIX |
| `PThreadBarrier` | `PThreadBarrier.h` at the level of the mutex and condition variable |
| `PThreadBarrierProofs` | proofs |
| `QueryThreads` | main thread, handlers, the three barriers, both modes |
| `QueryThreadsProofs` | proofs |
| `FpgaSession` | OPAE wrapper, `afu_handler.cpp`, `FPGAHandler::run`: one driver call per step, each of which may fail |
| `FpgaSessionProofs` | proofs |
| `AtomicScan` | abstract: a unit that filters a partition in one step |
| `ScanAfu` | `csr_mgr.sv`, `base_afu.sv`, `scan_afu.sv`: the registers and one clock edge |
| `FpgaScan` | composes `ScanAfu` with the host thread and the platform between them |
| `FpgaScanProofs` | proofs |
| `MCFpgaScan` | constants for TLC |
| `JoinAfu` | `csr_mgr.sv`, `join_afu.sv`, `lineorder_date.sv`: the registers and one clock edge |
| `FpgaJoin` | composes `JoinAfu` with `joinAtATime` and the platform |
| `FpgaJoinProofs` | proofs |
| `RawReader` | `RawTable.h`, `RawScan.h`, `processRawData` |
| `ColumnScan` | where values and result bits lie: packing, pages, result lines, bit vectors |
| `ColumnScanProofs` | proofs |
| `MCColumnScan` | constants for TLC |
| `ScanPredicate` | from raw values and query constants to the comparison in the filter unit |
| `MCScanPredicate` | columns for TLC |
| `DataProofs` | proofs about `RawReader` and `ScanPredicate`, which share no state |

A definition that breaks the code in the way its comment says ("Mutant: ...")
stands before the definition it replaces. No module uses one; they serve to
show that each property can fail.

### WorkQueue

`head`, `tail`, `next` are the code's atomics; `first`, `last`, `nxt`, `node`
the locals of the loops; `pc` says between which two accesses a thread stands.
`chain` and `taken` are history: the nodes in the order they were linked and in
the order they were returned. A consumer runs the loop both handlers run
(`while (isNotEmpty()) nextElement()`), with its two loads in either order since
C++ does not sequence the operands of `!=`.

- Every `add()` brings a fresh node, `new Node` in `addWorkItems`. Nobody calls
  `returnNextNode`, whose recycled nodes could bring the ABA problem, at this
  commit.
- Loads take effect in program order. The code asks for relaxed loads in
  places; x86-64, which the card needs, does not reorder loads. Other hosts are
  not covered.
- `compare_exchange_weak` may fail spuriously when `WeakCasMayFail`.

`ListIsChain`, `TakenInOrder` and `TailNearEnd` say what the three pointers
always mean. `ImplementsFifo` is the refinement: the abstract queue is the part
of `chain` not yet taken, `AddLink` is `Add`, `TakeAdvance` is `Take`, every
other step is invisible. `TailLagsOnlyDuringAdd` holds only without spurious
failures: with them, an `add()` whose second CAS fails returns although
`isNotEmpty()` does not see its node until another call helps. `NullMeansRaced`
says when `nextElement()` may return NULL after a true `isNotEmpty()`: if another
consumer has taken a node since. `fpga_queue` has one consumer, so the FPGA
handler may dereference the result; with two consumers
`CoreHandler`'s loop gets a null unit, which `AfterNull` models.

### QueryThreads

`cur` is the handler the main thread is at in `startThreads` and `joinThreads`;
`running` is `Thread::running`, false if `pthread_create` failed; `pc[t]` is the
handler's place in `run`; `waiting[b]` are the threads inside barrier `b`, which
opens at `num_of_cus` arrivals; `raw` is the mode. `createProcessingUnit` makes
`NumOfCus` cores and, in an FPGA build, one handler more. What a handler computes
between two barriers is one step. A null dereference sets `crashed` and stops
everything.

An FPGA build thus has one thread more than its barriers count. The properties
say what becomes of it, as well as of builds and runs with fewer threads:

- `Rendezvous`: the start barrier opens once, for `num_of_cus` threads, which are
  in step from then on (`Passed`, `Stage`); any other stays at the start for ever.
  Excepted is one compute unit beside the FPGA handler, where barriers of one hold
  nobody (`BarriersHold`).
- `EndAfterScan`: in SSB mode a handler returns only after a created FPGA handler
  has scanned over a connection that was made. If the FPGA handler is the thread
  left over, core 0 is not, and does not survive `processRawData` (finding 1);
  every run of the ordinary FPGA build that ends its scans is one with core 0 left
  over. So it holds because of that fault: with it repaired, the cores could pass
  all barriers without the FPGA handler. In raw mode, which queues nothing for the
  FPGA, it is the one left whenever a handler returns.
- `MainReturns`: the process ends or, if more or fewer threads were created than
  counted, the main thread may wait for ever to join one at the start barrier, and
  nowhere else. A crash is an end here, be it that of finding 1 or the one after a
  failed connection.

### PThreadBarrier

`mutex` is the owner, `count` the count, `pc` the place in
`pthread_barrier_wait`. "sleep" is inside `pthread_cond_wait`, "woken" is after
the broadcast and before the mutex is back. The map to `PosixBarrier` puts the
linearization point of an arrival at `++count` and of the opening at the
broadcast; a woken thread is "go" until it unlocks. POSIX lets
`pthread_cond_wait` return without a broadcast, and the code does not wait in a
loop: the history flag `spurious` records that, and is `PosixBarrier`'s `broken`,
after which nothing is promised.

### FpgaSession

One query from the driver's point of view: the constructor of
`OPAE_SVC_WRAPPER` (two enumerations, the tokens, `fpgaOpen` token by token,
`fpgaMapMMIO`, MPF), the four buffer vectors of `FPGAHandler`, the two scans of
`run` with each partition one step (`FpgaScan` has it in detail), the copies, the
destructors. `buffers` is what has been allocated, with its contents;
`read_buffers` and `write_buffers` are the code's vectors, indices into it or
NULL. `faults` is history, the driver calls that failed; `reported` is the first
partition the program printed an allocation failure for.

`OwnResults` is the contract that comes out: a partition's result is the filter
of its own page up to the first one reported, and while no MMIO access has
failed. Behind a reported one every page is taken for its predecessor's.
`ForcedParts` is the 732 that `run` sets for lo_discount, whatever the column
has; `EnoughParts` names the precondition that makes harmless. `crashed` is a null
dereference or a read past the column; `hung` a poll that does not end.

### ScanAfu and FpgaScan

`ScanAfu!Clock` is one clock edge with the inputs `rx` (what c0Rx carries) and
the two almost-full signals; each conjunct is one `always_ff` block and reads
the unprimed registers only, as non-blocking assignment does. Latencies are
those of the code: a CSR write is registered, then decoded, then visible to the
parameter registers a cycle later.

`FpgaScan` adds the host as a program counter over its MMIO accesses, and the
platform: a FIFO of posted MMIO requests, the set of lines being read and the
set of lines being written. Data is abstract: a line is named by its buffer and
number; a result is the set of (unit, line, predicate) that went into it.

What the platform promises is not in the repository. Two promises are constants:
MMIO requests are at least `MinGap` AFU cycles apart, and `MinGap` is at least 2
(`MmioGapAssumption`: with 1 the poll sees the previous partition's flag and
`CompletionIsCurrent` fails); the write port takes `WriteCredits` unacknowledged writes. The others are history: `kept` stays
true as long as

- the RESULT_ADDRESS store arrives before memory answers the first read of the
  partition, whose COLUMN_ADDRESS store came first; otherwise its lines go to the
  previous partition's buffer;
- no result is offered to an almost-full write port, which drops it;
- no MMIO answer overtakes earlier writes to memory, or a stale line is copied.

`ResultsComplete` and `ImplementsAtomicScan` need all three, the other properties none of
them. `lied` records a failed MMIO read: `readCSR` then returns -1 and the handler takes the partition for
done. `CompletionIsCurrent` survives that; `ResponseHasReader`, `QuietWhenDone`,
`ParametersHeld` and `ScanEnds` do not, and say so: the next partition is started
under the running one, the query can hang, and buffers are freed while the AFU
still writes.

`ImplementsAtomicScan` is what the rest of the server may rely on. In `AtomicScan` a
unit takes the queued partitions one after another, filters each in one step and hands
the pages of a scan on together. The refinement mapping: `left` is the queue with the
partition under way in front, `filtered` the result pages in memory of the partitions
the host has seen completed, `handed` what `copyFPGAWriteBuffer` has copied, and
`broken` is `lied \/ ~kept`. `Answer` with TRUE is `FilterPartition`, `CopyResults` is
`HandOver`, all other steps are invisible. It implies `ResultsComplete` and says more: the page is
right already when the flag is seen, stays so while other partitions run, and
partitions are taken in the order of the queue. It is also why `FpgaSession` may take a
partition in one step as long as no MMIO access has failed.

The hardware starts either after configuration (`query_state` 0) or as the previous
query left it (5): base_afu has no reset for `query_state`, nor scan_afu for the
parameters, `cl_req_issued` and `cl_received`. A start from a query that was
killed in the middle is not covered.

### JoinAfu and FpgaJoin

The join as the code has it, switched on: `base_afu.sv` (lines 161-178) and
`FPGAHandler::run` (217-228) have it commented out. The host writes the number of
bitmap lines and the bitmap's address, polls CSR 5, then writes 64 lines per page
and takes the partitions of the foreign-key column one by one, polling CSR 5
again. `bit_map` in the model is a function from the register's lines to the line loaded
there (five in the code, `MapLines` here), so a lookup is named by the keys and
the bitmap it used. The platform is that of `FpgaScan`, with `kept` as there.

`early` is the one more thing the code relies on: the poll after a start must not
reach the CSR manager before the start has reached the state machine. If it does
on an accelerator that has done a join before, the flag of that join ends the bitmap phase
at once and keys are looked up in a bitmap half loaded; `JoinComplete`,
`ImplementsAtomicScan` and `CompletionIsCurrent` are stated for runs without it, `JoinEnds`
holds even then. The join implements `AtomicScan` with one scan whose filter is the lookup
in the complete bitmap, and with `broken` as `early \/ ~kept`; the bitmap phase is
invisible.

### RawReader

The file is a function from positions to `Bar`, `Newline` or `Other`; only the
first cache line of a chunk is ever split. `atts` collects the attributes written.
`ExtractsFields` compares them, one by one and in their order, with the fields of the
line defined without a loop. A bar that is the line's last byte is not looked at and its attribute is lost.
With more than one chunk the loop never begins (`moreChunks` compares for
equality with a count that starts at -1), so `Chunks` is 1, as in the code.

### ColumnScan and ScanPredicate

The two sequential data paths a filter needs, split by what can go wrong.

`ColumnScan` is about places. Values are symbolic (bit `k` of row `i` is
`<<i, k>>`), so that one check covers all data: `Partition::compress` ORs them
into words one line of the file at a time (`ReadItem`), a filter unit's result
bit is named by the row in the slot it compares, and `copyFPGAWriteBuffer`
moves the words of the result lines to the bit vector, whole words for a scan
(`CopiedWords`), half words for a join (`CopiedHalves`); `countBitResults` counts
the bits of the reserved words. A bit that answers for
no row is told apart: `Padding` (a slot nothing was put in), `Mixed` (bits that
are no one value, also uninitialised memory), `Off` (a bit of the result line
the unit does not set). That each queued page is scanned, line by line, is
`FpgaScan`'s business.

`ScanPredicate` is about values. A column is the set of raw values in it. The
compressor orders and counts them and writes a width (`ParseColumn`,
`WriteMetaData`), the server reads that back and encodes the constants of the
query (`InitializeColumn`, `CreateColumnScan`), the FPGA handler writes them to
the register (`WriteFilterPredicate`), and the unit compares (`Compare`), each
value taken to be packed with the unit's width. `Bits` computes `ceil(log2(n))`
exactly; for the conversion of -infinity to int, which is undefined in C++, any
number below 8 stands for the result. `Or` is C's `|` as far as the
register keeps it, bit by bit.

## 3. Runs

All runs but `QueryThreads_modes` check for deadlock.

| Run | Instance | What it shows |
|---|---|---|
| `WorkQueue_safety` | 2 producers, 2 consumers, 4 nodes, spurious CAS failures, 252,816 states | type, list, order, tail, refinement of `FifoQueue` |
| `WorkQueue_progress` | 2 producers, 2 consumers, 3 nodes, CAS exact, one thread of each role fair, 116,576 states | `TailLagsOnlyDuringAdd`, `NullMeansRaced`; a running thread completes its call wherever the others stopped |
| `PThreadBarrier` | 4 threads, barrier of 3, 1,206 states | refinement of `PosixBarrier` until a wakeup is spurious; always: no sleeper is forgotten, everyone let go returns |
| `QueryThreads_modes` | 3 compute units and the FPGA handler, both modes, any creation may fail, 2,447 states | rendezvous of the counted threads, with one thread too many, all counted, or fewer; barriers outlive their users; no return before the scans; the process ends, or hangs only where the counts differ |
| `FpgaSession_faults` | columns of up to 3 pages, a forced count of 2, up to 2 accelerators, every call may fail, 846,675 states | tokens returned; live handles only; partitions get their own results; the query ends without a fault |
| `FpgaScan_query` | 2 scans of 2 partitions, pages of 2 lines, 1 write credit, 365,018 states | refinement of `AtomicScan`; completions current; no response lost; parameters held; quiet at the end; the query ends |
| `FpgaJoin` | a bitmap of 2 lines, 2 partitions of 3 lines, 1 write credit, a fresh accelerator or a used one, 117,284 states | refinement of `AtomicScan`, with the lookup in the complete bitmap; completions current; the join ends |
| `RawReader` | every file of up to 6 bytes in lines of 6, 22,939 states | each field written once and in order; chunks released |
| `ColumnScan_layout` | 2-, 4- and 8-bit values, columns of 3 to 72 rows, 10,466 states | each stored row has one result bit, at its place, and is counted once |
| `ScanPredicate_query` | every d_year column with 1993, lo_discount column with 1 and 3, lo_quantity column of 8 values with 24; join columns of up to 258 values; 5,621 states | codes fit their width; the unit answers the query |
| `QueryThreads_ssb_mode` | violation | finding 1 |
| `FpgaScan_all_partitions` | violation | finding 2 |

`QueryThreads_modes` has `CHECK_DEADLOCK FALSE` because the program really stops
there: an FPGA build, or one whose threads could not all be created, is left hanging
at a barrier. Elsewhere a process that has ended stutters (`Ended`), and the
accelerator's clock never stops.

**Bounds.** Queue nodes are the only bound of `WorkQueue`: with three additions (two
in `WorkQueue_progress`) one producer adds a second node while the other stands
between its two CASes. Four barrier threads for a barrier of three is the smallest instance in which rounds can
overlap. In `FpgaSession` three pages let a failed allocation be the first, a middle
or the last one, and a forced count of 2 is below, at and above the number of pages;
two accelerators let an enumeration shrink, grow and find a busy one before a free one.
In `FpgaScan` two partitions of two lines exercise the first and the
last line, the flag left by the previous partition, and both values of `total_cls`
(column shorter than a page, page shorter than the column); two scans exercise
the bits one filter unit leaves for the next; one write credit fills the port whenever a
write is under way. `FpgaJoin` has a bitmap shorter than a page, so that the two phases count
to different ends, and a middle line. `RawReader`'s six bytes hold two attributes in
one tuple and one in the next. `ColumnScan` scales the machine
down (words of 8 bits, lines of 32, pages of 4 lines; the code has 64, 512 and
64) and keeps its ratios: values divide words, a result line has one result word
or two, or half of one, and lengths from a part of a line to five pages pass every boundary
between lines and between pages. `ScanPredicate` has the constants of the query
and the widths of the units as they are; years and discounts range over all the
benchmark has; 256 to 258 values are where the width goes from 8 to 16 bits (the
step to 32 bits is not reached). Counters need no bound:
`total_cls_processed` stops at `total_cls` and the MMIO queue at seven requests (eleven
if the first column has one partition, so that the stores of its empty scan are still
on their way), which `TypeOK` checks.

**Fairness.** `WorkQueue_progress` assumes only that the threads in `Fair` are
scheduled. `QueryThreads` assumes weak fairness of each thread: the operating
system schedules them. `PThreadBarrier` needs strong fairness to take the mutex
back, since a mutex need not be fair by itself and in the model the others come
back without end; in the program every thread calls each barrier once.
`FpgaSession` has one thread at a time, scheduled. `FpgaScan` and `FpgaJoin`
assume that the clock runs, the bus delivers, memory answers and accepts, the
host thread is scheduled, and the read port is not almost full for ever.

## 4. Findings

1. `QueryThreads_ssb_mode`: core 0 processes raw data in both modes, through
   the pointer `rawScan` that only raw mode sets (`CoreHandler.h:105`), although
   `Master.cpp:119` tells the modes apart.
2. `FpgaScan_all_partitions`: `addWorkItems` stops one partition short of the
   first column; its results are copied nevertheless, after "All partitions
   processed for the current column!" (`FPGAHandler.h:85`, a print that is
   commented out), by a loop over every partition (`FPGAHandler.h:87`). For a
   column of one partition nothing is scanned.

No run is kept for the following. Each is seen by making the property named the
only one in the cfg of its module's passing run.

- `MainReturns` without `WaitsForLeftOver` (`QueryThreads`): `createProcessingUnit`
  makes the FPGA handler and `num_of_cus` cores, the barriers count `num_of_cus`,
  and `Master.cpp:20` says the number includes the FPGA handler. The loop that
  starts at 1 in an FPGA build is commented out (`ProcessingUnit.cpp:44`). The
  barriers open with one thread missing, and joining that thread never ends. The
  same wait follows a creation that failed when nobody is left to make up for it.
- `BuffersReleased` (`FpgaSession`): "Buffers released!" (`FPGAHandler.h:254`) is
  printed, but `releaseAllBuffers` hands the driver the addresses of the vectors'
  storage, and no buffer is freed.
- `JoinComplete` without `~early`, in place of `ImplementsAtomicScan` (`FpgaJoin`): "AFU received the bitmap!"
  (`FPGAHandler.h:119`) can be printed before it has, on an accelerator that has
  done a join before.
- `EveryRowStored` (`ColumnScan`): `NumOfPagesRequired` (`Column.h:207`) truncates
  the size of the column to whole bytes before it rounds up to pages. A column of
  one 4-bit value more than fill its pages loses that value.
- `ResultsFit` (`ColumnScan`): a column shorter than a page reserves
  `elements / 64 + 1` result words, the copy at `JobWrapper.h:153` stores all
  result words of each line: one word too many if a 4-bit column ends in the first
  half of a line. The benchmark's d_year column, 2556 rows, does not.
- `MatchesQuery` (`ScanPredicate`, `Columns <- ColumnsOfYears`): `CompressValue`
  encodes a constant that does not occur in the column as 0, and rows of the
  smallest value match.
- `UnitReadsEncoding` (`ScanPredicate`, `Columns <- ColumnsOfYears`): the compressor
  rounds widths up to 8, 16 or 32 bits, d_year and lo_discount are 4-bit units. The
  comments in `JobWrapper.h` give d_year 4 bits, so the deployed columns were
  written by something else.

## 5. Proofs

TLAPS checks these for all values of the constants that satisfy the modules'
assumptions.

| Theorem | States |
|---|---|
| `TypeCorrect`, `ListCorrect`, `OrderCorrect`, `TailCorrect` | `WorkQueue`'s type invariant and its three safety invariants |
| `FifoRefinement` | `WorkQueue` implements `FifoQueue` |
| `TailLagCorrect` | unless a CAS fails spuriously, a node is invisible only while some `add()` is between its CASes |
| `NullCorrect` | `nextElement()` after a true `isNotEmpty()` returns NULL only to the loser of a race with another consumer |
| `BarrierTypeCorrect`, `SleepersCorrect`, `CountCorrect`, `PosixRefinement` | `PThreadBarrier`'s type invariant, that no thread sleeps uncounted, the meaning of its count, and that it implements `PosixBarrier` (the last two until a wakeup is spurious) |
| `ThreadTypeCorrect`, `WaitersGone` | `QueryThreads`' type invariant, and that the barriers are destroyed after their last user |
| `InStep`, `ScanBeforeEnd` | the barriers let as many threads through as they count and keep them in step, and no handler returns before the FPGA has scanned, in the ordinary FPGA build with its one thread too many as in every other |
| `SessionTypeCorrect`, `TokensCorrect`, `HandlesCorrect` | `FpgaSession`'s type invariant, that every token is given back, and that buffers change only through live handles |
| `OwnResultsCorrect` | a partition's result is the filter of its own page, up to the first failure reported |
| `Completion`, `Reader`, `Quiet`, `Held` | `FpgaScan`: completions are current (also after a failed MMIO read); no response is lost, nothing is in flight once the query is done, parameters do not change under a running partition (while none has failed) |
| `Results` | `FpgaScan`'s results are complete and right, on a platform that keeps what the code relies on |
| `ScanRefinement` | `FpgaScan` implements `AtomicScan`: partitions are filtered one at a time, each in one step, until the platform breaks what the code relies on |
| `ScanTypeCorrect` | `FpgaScan`'s type invariant, also after a failed MMIO read |
| `JoinTypeCorrect`, `JoinCompletionIsCurrent` | `FpgaJoin`'s type invariant, and that a completion is about the bitmap or the partition polled for, unless a poll came early |
| `JoinIsComplete` | every partition gets the join of each of its lines with the whole bitmap, unless a poll came early, on a platform that keeps what the code relies on |
| `JoinRefinement` | `FpgaJoin` implements `AtomicScan` with the lookup in the bitmap for its filter, under the same conditions |
| `FieldsExtracted` | `RawReader` writes each field of its line once and in order, releases the chunk, and faults only on an empty or unmapped file; for the one chunk the code maps |
| `CodesFitCorrect` | `ScanPredicate`: the width chosen for a column is enough for its codes and divides a word, whatever its values |
| `MatchesQueryCorrect` | `ScanPredicate`: the unit's answer for each value is the query's, on columns that hold the query's constants and no more values than the unit's codes can tell apart (`QueryColumns`) |
| `ColumnTypeCorrect`, `RowsAreInPlace` | `ColumnScan`'s type invariant, and that the answer for every stored row lies at the row's place in the bit vector and nowhere else |
| `RowsAreCountedOnce` | the count of a scan adds up each stored row once, and nothing else when the rows fill their pages |

*WorkQueue.* The three invariants are not inductive: a CAS is right only if the
locals read earlier still mean something. `IInv` adds `Ownership` (a node being
added is in nobody else's hands, outside the list and without a successor) and
`LocalsInv` (what each local of each loop still knows, in terms of `Before`, the
order of the list: `first` is no later than `head`, `last` no later than `tail`,
a successor once seen is still the successor). One lemma says that every step
moves `head`, `tail` and the end of the list forward only (`Progress`), which
carries `LocalsInv` of the other threads across a step; then there is one lemma
per action. The refinement follows from two steps: `AddLink` appends to the
contents, `TakeAdvance` removes their first element. `TailLagCorrect` adds that a
tail that lags is the node some `add()` is about to swing it from; `NullCorrect`
that a thread in the consumer loop knows the queue not empty as long as nobody has
taken a node since its first load, which every CAS of `tail` preserves.

*PThreadBarrier.* `IInv` says that the mutex's owner is the thread in the
critical section, that the count is the number of threads inside (at least that
number after a spurious wakeup), and that it
reaches `Trip` exactly while a thread is about to broadcast. With this the
branch `++count >= tripCount` is the abstract barrier's test.

*QueryThreads.* `IInv` adds what the main thread knows: a handler it has not
started is nowhere, one it has joined has returned. Neither is inside a barrier,
so no opening barrier moves it. It holds for every number of units, with or
without the FPGA, and whichever creations fail.

`StepInv` counts. The start barrier cannot open twice: that takes two disjoint sets
of `num_of_cus` threads, and there are at most `num_of_cus + 1` (`RendezvousOpening`;
this is where `BarriersHold` is needed). The other barriers are reached only by threads
that have passed the start, so one of them opens with all of these in it. For
`ScanBeforeEnd`, the end barrier in SSB mode takes `num_of_cus` threads that are not
core 0, hence all the others, the FPGA handler among them (`EndOpening`), and that
handler is there only over a connection; in raw mode the FPGA handler faults before it
comes to the end barrier, so one that has passed the start cannot be in step with a
handler that returned.

*FpgaSession.* The places of buffers in the vectors carry the argument. `PageInv`:
while the loops over jobs and partitions run, the write vectors are as long as the
loops have come, and so are the read vectors unless a failure was reported, before
which every read buffer holds the page of its place. `SeparateInv`: no two entries
name the same buffer, so a scan overwrites no page and no other result.
`QueueInv`: what is left of the queue is the last partitions of the job, in order.
From these `FilteredInv` follows the scan partition by partition: the write buffers
behind it hold their results. `TokenInv` and `HandleInv` do the same for the
constructor and the destructor. All hold for any number of pages, any forced count,
any number of accelerators and every combination of failures.

*FpgaScan.* Nothing in the host or the unit says which partition a completion flag is
about; it has to follow from how far the host's posted accesses have come.
`PipeInv` makes that explicit: the accesses of a scan and a partition are numbered
(`Prog`), the host's place in the code tells how many it has issued, the requests on the
bus how many of them have arrived, the two registers of the CSR manager how many have
taken effect. `QueueInv` reads the current partition off what is left of the queue, `ParamInv`
the parameter registers off the number of accesses that have taken effect. With that
`CtrlInv` can relate the state machine to the host: a unit that is not waiting is at the
partition the host polls for, a unit that waits has finished it or has not seen its address,
and an answer TRUE on its way means the former. `Completion`, `Reader`, `Quiet` and `Held`
follow. `DataInv` adds, while `kept`, where each line filtered so far is: in the result
register, on the write port, under way, or in its place in the buffer; an answer does not
overtake a write, so all lines of a partition taken for done are in memory, and `Results`
follows. The refinement needs nothing more: `FinishedInv`, the part of `DataInv` about
completed partitions, says their pages are right before and after each step, so a step changes
what `AtomicScan` sees only if it changes the host's place among the partitions, which
`Answer` and `CopyResults` do; the address of a partition moves it from the
queue to the front of `left`, where it was. All hold for any number of scans, partitions, lines in a page and write credits,
under `FpgaScanAssumption`, `MmioGapAssumption` and `NoneAssumption` (`None` is different
from everything the bus carries), and, apart from `Completion`, until an MMIO read fails.

After a failed read the host may be partitions and even scans ahead of the unit and `Prog` says
nothing about the pipe, but `ScanTypeCorrect` and `Completion` have to hold. Both rest
on what is left then, the order of the requests. `TypeInv` has the order of a scan's stores
(`OrderInv`): every parameter comes behind the QUERY_STATE store that makes the scan active,
COLUMN_ADDRESS behind FILTER_PREDICATE, QUERY_DONE last of all. So a unit that leaves
`waiting` has a predicate and a page, and since TOTAL_CLS is at most a page, whichever
scan's it is, no line beyond the page is asked for. `OnceInv` adds that a poll leaves the
bus after everything before it (`RequestInv`), that TOTAL_CLS is followed by
COLUMN_ADDRESS and that by RESULT_ADDRESS (`FollowInv`), and that the last store of each
register carries the host's current value (`LatestInv`): when the answer is on its way, the
registers have those values. The flag is down from the moment an address is
taken until the last line of its page (`FlagInv`), so a flag of a partition
the host gave up is never answered for the one it went on to.

*FpgaJoin.* The host's accesses are again a program (`Prog`) and the bus holds the
part of it not decoded yet, but a poll may come early here, before the address
it is about has taken effect, and the host then runs ahead of the unit. So the invariant
has three layers. `PipeInv`, `QueueInv`, `ParamInv` and `CountInv` hold whatever the
host has seen: accesses take effect in order (`Decoded` says how many have), the
parameter registers follow from their number, and a line is counted only within its
page. They carry `JoinTypeCorrect`. Until a poll comes early, `CtrlInv` and `MapInv`
say that the unit works exactly while the host waits for it, and that the bitmap
register holds the lines counted so far: none while the load's address is under way, all once the host has gone on to
the partitions. While also `kept`, `DataInv` follows each result line to its place, and
`JoinRefinement` follows as for the scan.
No assumption on `MinGap` is needed: a poll that comes early, which no gap of two or
less rules out, is recorded in `early`.

*RawReader.* `WrittenInv` relates what was written to a `Position`: the start of the
tuple being looked for, the byte being looked at in a tuple being split, or the line's
end; exactly the fields that end before it have been written. A step moves it over one byte of a
tuple, and then a bar adds one field (`OneFieldEnds`: it has to begin where the other
bytes before the bar do, which is what `AttributeInv` says of `att_start`), or over a tuple's
end, where no field ends (`NoFieldEnds`). For the latter `TupleInv` has that a tuple
holds no newline. The line may have any length and any bytes. `Chunks` is 1 in the
theorem, as in `initializeTable`; for more the property is false, as no chunk is read.

*ColumnScan.* The invariant follows a value on its way. A value is named by its page
and its slot there, then by its line and its place in the line, then by its
result word and its bit; packing, scan and copy each change one of these coordinates
for the next, and `RowsInPlace` is that no two values ever meet. `WordInv` says what
the word being packed holds, bit by bit, and `PagesInv`, `ScanInv` and `CopyInv` that the pages,
result lines and result words behind `part_id` hold what their coordinates say. The
arithmetic of the changes (`DivIs`, `Unique`, `Split`) stands in lemmas of its own. The
coordinates fit each other because the widths divide each other
(`ColumnScanAssumption`): the values of a word, the words of a line, and for the join, where a line
gives half a word of results, the lines of a page in pairs. The code has 64-bit words,
lines of 512 bits and 64 lines in a page. `RowsAreCountedOnce` then needs that
distinct rows lie at distinct places, so exactly one bit answers for a row.
Nothing else is assumed of the column; its rows need not fill its last word or page.

*ScanPredicate.* A code is the number of smaller values in the column (`Lower`), so
cardinalities carry the argument. Both orders of the compressor are strict and total
(`OrderIsTotal`), and a value is not smaller than itself: codes lie below the number of
values (`CodeIsSmall`), and ascend with them (`CodesAscend`). Hence equal codes mean
equal values, and for numbers the order of the codes is that of the values
(`CodesCompare`). `LoadInv` follows the column to the server; `WidthSuffices`
turns the two logarithms around: if the width comes out below 8, there are 129 codes at most.
`CompareInv` follows the constants: once they are in the register their two halves
do not disturb each other (`OrOfHalves`), and neither the unit's width nor the register's
cuts anything off. `QueryColumns` says what this takes of a column; a column without 1993 is how
`MatchesQuery` fails in section 4, and the benchmark's columns (7 years, 11 discounts,
50 quantities, all of them numbers) meet it.

Each safety property a passing run checks is stated by one of the theorems, under the
conditions given above. Only model-checked: liveness (`AddReturns`, `TakeReturns`, `LetGoReturns`,
`MainReturns`, `EndsWithoutFault`, `ScanEnds`, `JoinEnds`), which the prover does not
reach.

## 6. Plan

Done, in this order: `WorkQueue` over `FifoQueue`; `QueryThreads` over
`PThreadBarrier` over `PosixBarrier`; `ScanAfu` and `FpgaScan`; `ColumnScan` and
`ScanPredicate`; `FpgaSession`; `JoinAfu` and `FpgaJoin`; `RawReader`; the proofs of
section 5; `AtomicScan` over the two accelerators.

What could come next:

1. A restart of the accelerator after a query killed in the middle of a request.
2. The blocked readers of `data_parallelism` and `block_rw`, as an instance of the
   platform in `FpgaScan`.

## 7. Not modelled

- The earlier accelerators (`data_parallelism`, `block_rw`) and their host programs:
  `src/exec` does not drive them.
- The aggregation, pipelined and wide-filter operators: no accelerator in the tree
  instantiates them.
- The CPU scan `simdScan8`: nothing calls it.
- Recycled work-queue nodes (`putFreeNode`): dead code, see `WorkQueue` above.
- `prepareBitMapBuffer` (`FPGAHandler.h:277`), which copies a page from a bit vector of
  40 words: only the join that is commented out would call it.
- `allocBuffer` without VTP and the wrapper's statistics: the accelerator is built
  with VTP (`mpf_conf.vh`). The common counters of `csr_mgr`: only commented-out
  code reads them.
- An accelerator left by a query killed in the middle of a request: `cl_req_issued`
  and `cl_received` have no reset, and nothing in the code recovers from that.
- The TCP streams (Master passes no stream), printing and timing.
