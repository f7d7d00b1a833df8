------------------------------- MODULE JoinAfu -------------------------------
(***************************************************************************)
(* The semi-join accelerator of fpga/processing/ssb: the CSR manager       *)
(* (csr_mgr.sv), the query-state mux (base_afu.sv), the join unit          *)
(* (join_afu.sv) and the lookup it drives (lineorder_date.sv).  Clock is   *)
(* one rising edge.  The scan unit shares the mux and is idle: its ports   *)
(* are None.                                                               *)
(*                                                                         *)
(* Buffers are numbered as the host numbers them: read buffer 0 is the     *)
(* bitmap, read buffer p+1 and write buffer p are those of partition p of  *)
(* the foreign-key column.  A line is <<buffer, number>> and stands for    *)
(* its 512 bits; a result line is what it was computed from, the keys and  *)
(* the bitmap register at that moment.                                     *)
(***************************************************************************)
EXTENDS Integers, FiniteSets

CONSTANTS None, MapLines    \* MapLines: cache lines bit_map has room for (5)

VARIABLES
  csr_rx, csr_wr, c2, query_state, held,    \* as in ScanAfu
  new_partition_ready, cl_address, result_address, cls_to_process,
  reading_bitmap, bitmap_ready,
  state, cl_req_allowed, cl_req_issued, cl_received,
  cl_processed, cls_processed, partition_processed,
  rsp_data,      \* the line last received
  bit_map,       \* lineorder_date: the lines the bitmap was loaded from
  bit_result,    \* lineorder_date: the lookups of the last line of keys
  c0, c1         \* af2cp_sTx.c0 (read request), af2cp_sTx.c1 (write request)

params == <<new_partition_ready, cl_address, result_address, cls_to_process,
            reading_bitmap, bitmap_ready>>
afuVars == <<csr_rx, csr_wr, c2, query_state, held, params, state,
             cl_req_allowed, cl_req_issued, cl_received, cl_processed,
             cls_processed, partition_processed, rsp_data, bit_map, bit_result,
             c0, c1>>

\* The CSRs the join uses (CSRS_TYPE of util/Types.h).
TOTAL_CLS == 0
JOB_TYPE == 2
COLUMN_ADDRESS == 4
RESULT_ADDRESS == 5
BITMAP_STATE == 6
QUERY_STATE == 7
JOIN_PROCESSED == 5    \* the one scan_afu answers reads of for the join

SCAN_PROCESSING == 0
JOIN_PROCESSING == 1

WriteCSR(k, d) == [op |-> "write", csr |-> k, data |-> d]
ReadCSR(k)     == [op |-> "read", csr |-> k]
ReadRsp(line)  == [op |-> "rsp", line |-> line]

(***************************************************************************)
(* After a filter scan: the first join since the FPGA was configured, or   *)
(* one after another, whose flags nothing has cleared.                     *)
(***************************************************************************)
AfuInit ==
  /\ csr_rx = None /\ csr_wr = None /\ c2 = None
  /\ query_state = SCAN_PROCESSING
  /\ held = [c0 |-> None, c1 |-> None]
  /\ new_partition_ready = FALSE
  /\ cl_address = None /\ result_address = None /\ cls_to_process = 0
  /\ reading_bitmap = FALSE /\ bitmap_ready \in BOOLEAN
  /\ partition_processed = bitmap_ready
  /\ state = "waiting"
  /\ cl_req_allowed = ~bitmap_ready
  /\ cl_req_issued = FALSE /\ cl_received = FALSE
  /\ cl_processed = FALSE /\ cls_processed = 0
  /\ rsp_data = None /\ bit_result = None
  /\ bit_map = [i \in 0 .. MapLines - 1 |-> None]
  /\ c0 = None /\ c1 = None
-----------------------------------------------------------------------------
\* csr_mgr: registered, decoded a cycle later, up for the cycle after that.
CsrMgr(rx) ==
  /\ csr_rx' = IF rx # None /\ rx.op # "rsp" THEN rx ELSE None
  /\ csr_wr' = IF csr_rx # None /\ csr_rx.op = "write" THEN csr_rx ELSE None
  /\ c2' = IF csr_rx # None /\ csr_rx.op = "read"
           THEN csr_rx.csr = JOIN_PROCESSED /\ partition_processed
           ELSE None

Written(k) == csr_wr # None /\ csr_wr.csr = k

QueryState == query_state' = IF Written(QUERY_STATE) THEN csr_wr.data
                                                     ELSE query_state

\* The memory ports belong to the join while query_state is 1.
Bus == CASE query_state = JOIN_PROCESSING -> [c0 |-> c0, c1 |-> c1]
         [] query_state = SCAN_PROCESSING -> [c0 |-> None, c1 |-> None]
         [] OTHER -> held

MemoryPorts == held' = Bus
-----------------------------------------------------------------------------
isActive == query_state = JOIN_PROCESSING

\* A CSR write reaches its parameter register only while the join is active.
Latch(k, reg, val) == IF Written(k) /\ isActive THEN val ELSE reg

Parameters ==
  /\ new_partition_ready' = IF isActive THEN Written(COLUMN_ADDRESS)
                                        ELSE new_partition_ready
  /\ cl_address' = Latch(COLUMN_ADDRESS, cl_address, csr_wr.data)
  /\ result_address' = Latch(RESULT_ADDRESS, result_address, csr_wr.data)
  /\ cls_to_process' = Latch(TOTAL_CLS, cls_to_process, csr_wr.data % 128)
  /\ reading_bitmap' = Latch(BITMAP_STATE, reading_bitmap, csr_wr.data = 1)
  /\ bitmap_ready' = Latch(BITMAP_STATE, bitmap_ready, csr_wr.data = 0)

StateMachine ==
  state' = CASE state = "waiting" /\ new_partition_ready -> "idle"
             [] state = "idle" /\ partition_processed -> "waiting"
             [] state = "idle" /\ ~partition_processed /\ cl_req_allowed -> "req"
             [] state = "req" /\ cl_req_issued -> "rsp"
             [] state = "rsp" /\ cl_received -> "processing"
             [] state = "processing" /\ cl_processed -> "idle"
             [] OTHER -> state

\* Mutant: a new partition does not clear the flag.
NewPartitionKeepsFlag ==
  /\ cl_req_allowed' = TRUE /\ cls_processed' = 0
  /\ UNCHANGED partition_processed

NewPartition ==
  /\ cl_req_allowed' = TRUE /\ cls_processed' = 0
  /\ partition_processed' = FALSE

\* Mutant: the last line is not recognised.
LineCountedLate ==
  /\ cls_processed' = cls_processed + 1
  /\ cl_req_allowed' = (cls_processed + 1 < cls_to_process)
  /\ partition_processed' = (cls_processed = cls_to_process)

\* Mutant: one line too many is read.
LineCountedBeyond ==
  /\ cls_processed' = cls_processed + 1
  /\ cl_req_allowed' = (cls_processed < cls_to_process)
  /\ partition_processed' = (cls_processed = cls_to_process)

LineCounted ==
  /\ cls_processed' = cls_processed + 1
  /\ cl_req_allowed' = (cls_processed + 1 < cls_to_process)
  /\ partition_processed' = (cls_processed + 1 = cls_to_process)

Progress ==
  CASE state = "waiting" /\ new_partition_ready -> NewPartition
    [] state = "processing" /\ cl_processed -> LineCounted
    [] state = "idle" /\ ~partition_processed ->
         cl_req_allowed' = FALSE /\ UNCHANGED <<cls_processed, partition_processed>>
    [] OTHER -> UNCHANGED <<cl_req_allowed, cls_processed, partition_processed>>

\* A line is looked at for two cycles: looked up, then offered and counted.
LineProcessed == cl_processed' = (IF state = "processing" THEN ~cl_processed
                                                          ELSE cl_processed)
-----------------------------------------------------------------------------
LineOf(buffer) == <<buffer, cls_processed>>

\* One read request per line, held back while the port is almost full.
ReadRequest(c0TxAlmFull) ==
  LET issue == ~c0TxAlmFull /\ ~cl_req_issued IN
    CASE state = "req" -> /\ c0' = IF issue THEN LineOf(cl_address) ELSE None
                          /\ cl_req_issued' = issue
      [] state = "rsp" -> cl_req_issued' = FALSE /\ c0' = c0
      [] OTHER -> UNCHANGED <<c0, cl_req_issued>>

\* A response that does not find the unit in STATE_RSP is lost.
ReadResponse(rx) ==
  LET isRsp == rx # None /\ rx.op = "rsp" IN
    /\ cl_received' = CASE state = "rsp" -> isRsp
                        [] state = "processing" -> FALSE
                        [] OTHER -> cl_received
    /\ rsp_data' = IF state = "rsp" /\ isRsp THEN rx.line ELSE rsp_data

LookUp == state = "processing" /\ ~cl_processed

\* Mutant: lines of keys go into the bitmap register as well.
LoadAlways ==
  bit_map' = IF LookUp /\ cls_processed \in DOMAIN bit_map
             THEN [bit_map EXCEPT ![cls_processed] = rsp_data]
             ELSE bit_map

\* lineorder_date: a part-select past the end of bit_map writes nothing.
LoadBitMap ==
  bit_map' = IF LookUp /\ reading_bitmap /\ cls_processed \in DOMAIN bit_map
             THEN [bit_map EXCEPT ![cls_processed] = rsp_data]
             ELSE bit_map

\* lineorder_date: the 32 lookups of a line of 16-bit keys.
Join ==
  bit_result' = IF LookUp /\ bitmap_ready
                THEN [keys |-> rsp_data, map |-> bit_map]
                ELSE bit_result

Offered == bitmap_ready /\ cl_processed /\ state = "processing"

\* The result line is offered for one cycle only: an almost full port drops it.
WriteRequest(c1TxAlmFull) ==
  c1' = IF Offered /\ ~c1TxAlmFull
        THEN [line |-> LineOf(result_address), bits |-> bit_result]
        ELSE None

Clock(rx, c0TxAlmFull, c1TxAlmFull) ==
  /\ CsrMgr(rx) /\ QueryState /\ MemoryPorts /\ Parameters
  /\ StateMachine /\ Progress /\ LineProcessed
  /\ ReadRequest(c0TxAlmFull) /\ ReadResponse(rx)
  /\ LoadBitMap /\ Join /\ WriteRequest(c1TxAlmFull)
=============================================================================
