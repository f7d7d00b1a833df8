------------------------------- MODULE ScanAfu -------------------------------
(***************************************************************************)
(* The scan accelerator of fpga/processing/ssb: the CSR manager            *)
(* (csr_mgr.sv), the query-state mux (base_afu.sv) and the scan unit       *)
(* (scan_afu.sv).  Clock is one rising edge: every always_ff block reads   *)
(* the registers before the edge and writes the ones after it.             *)
(*                                                                         *)
(* A register that holds a bus request is None when its valid bit is 0.  A *)
(* buffer address is <<scan type, partition>>: the host hands the AFU the  *)
(* page-aligned buffers read_buffers[type][part], write_buffers[type][part]*)
(* and nothing else, so byteAddrToClAddr loses nothing.  The 512 bits of a *)
(* line are named by the line they were read from, and a bit vector by the *)
(* set of <<filter unit, line, predicate>> that were ORed into it.         *)
(***************************************************************************)
EXTENDS Integers, FiniteSets

CONSTANT None

VARIABLES
  csr_rx,        \* csr_mgr: the registered MMIO request
  csr_wr,        \* csr_mgr: cpu_wr_csrs, the one CSR whose en is up
  c2,            \* csr_mgr: the local read response
  query_state,   \* base_afu: which operator owns the memory ports
  held,          \* base_afu: what the latches of fiu.c0Tx, fiu.c1Tx hold
  new_partition_ready, read_buff_address, write_buff_address,
  total_cls, filter_pred, scan_column,
  state, cl_req_allowed, cl_req_issued, cl_received,
  partition_processed, total_cls_processed,
  rsp_data,      \* the line last received
  cl_processed,  \* the filter units whose processing_done is up
  bit_result,    \* bit_result_1 | bit_result_2 | bit_result_3
  c0, c1         \* af2cp_sTx.c0 (read request), af2cp_sTx.c1 (write request)

params == <<new_partition_ready, read_buff_address, write_buff_address,
            total_cls, filter_pred, scan_column>>
afuVars == <<csr_rx, csr_wr, c2, query_state, held, params, state,
             cl_req_allowed, cl_req_issued, cl_received, partition_processed,
             total_cls_processed, rsp_data, cl_processed, bit_result, c0, c1>>

\* The CSRs the scan uses (CSRS_TYPE of util/Types.h).
TOTAL_CLS == 0
FILTER_PREDICATE == 1
JOB_TYPE == 2
COLUMN_ADDRESS == 4
RESULT_ADDRESS == 5
QUERY_STATE == 7
PARTITION_PROCESSED == 1    \* the one scan_afu answers reads of

SCAN_PROCESSING == 0
QUERY_DONE == 5

WriteCSR(k, d) == [op |-> "write", csr |-> k, data |-> d]
ReadCSR(k)     == [op |-> "read", csr |-> k]
ReadRsp(line)  == [op |-> "rsp", line |-> line]

FilterUnit == {0, 1, 2}     \* d_year, lo_discount, lo_quantity

(***************************************************************************)
(* Before a query.  scan_afu resets its state, base_afu the request ports; *)
(* query_state has no reset and is 5 after a query.  cl_req_issued and     *)
(* cl_received have none either, and are 0 again when a query has run to   *)
(* its end.  The parameters, without reset too, keep the values of the     *)
(* last scan; they are unset here, for every scan stores all of them       *)
(* before the address that lets the state machine read them.               *)
(***************************************************************************)
AfuInit ==
  /\ csr_rx = None /\ csr_wr = None /\ c2 = None
  /\ query_state \in {SCAN_PROCESSING, QUERY_DONE}
  /\ held = [c0 |-> None, c1 |-> None]
  /\ new_partition_ready = FALSE
  /\ read_buff_address = None /\ write_buff_address = None
  /\ total_cls = 0 /\ filter_pred = None /\ scan_column = 0
  /\ state = "waiting"
  /\ cl_req_allowed = TRUE /\ cl_req_issued = FALSE /\ cl_received = FALSE
  /\ partition_processed = FALSE /\ total_cls_processed = 0
  /\ rsp_data = None /\ cl_processed = {} /\ bit_result = {}
  /\ c0 = None /\ c1 = None
-----------------------------------------------------------------------------
(***************************************************************************)
(* csr_mgr: an MMIO request is registered, decoded a cycle later, and its  *)
(* en (or its read response) is up for the one cycle after that.           *)
(***************************************************************************)
CsrMgr(rx) ==
  /\ csr_rx' = IF rx # None /\ rx.op # "rsp" THEN rx ELSE None
  /\ csr_wr' = IF csr_rx # None /\ csr_rx.op = "write" THEN csr_rx ELSE None
  /\ c2' = IF csr_rx # None /\ csr_rx.op = "read"
           THEN csr_rx.csr = PARTITION_PROCESSED /\ partition_processed
           ELSE None

Written(k) == csr_wr # None /\ csr_wr.csr = k

QueryState == query_state' = IF Written(QUERY_STATE) THEN csr_wr.data
                                                     ELSE query_state

\* The memory ports.  Only values 0 and 1 drive the always_comb, so any other
\* query state leaves latches that repeat what was last on the port.
Bus == IF query_state = SCAN_PROCESSING THEN [c0 |-> c0, c1 |-> c1] ELSE held

MemoryPorts == held' = Bus
-----------------------------------------------------------------------------
isActive == query_state = SCAN_PROCESSING

\* A CSR write reaches its parameter register only while the scan is active.
Latch(k, reg, val) == IF Written(k) /\ isActive THEN val ELSE reg

Parameters ==
  /\ new_partition_ready' = IF isActive THEN Written(COLUMN_ADDRESS)
                                        ELSE new_partition_ready
  /\ read_buff_address' = Latch(COLUMN_ADDRESS, read_buff_address, csr_wr.data)
  /\ write_buff_address' = Latch(RESULT_ADDRESS, write_buff_address, csr_wr.data)
  /\ total_cls' = Latch(TOTAL_CLS, total_cls, csr_wr.data % 128)
  /\ filter_pred' = Latch(FILTER_PREDICATE, filter_pred, csr_wr.data)
  /\ scan_column' = Latch(JOB_TYPE, scan_column, csr_wr.data % 4)

LineDone == state = "processing" /\ cl_processed # {}

StateMachine ==
  state' = CASE state = "waiting" /\ new_partition_ready -> "idle"
             [] state = "idle" /\ cl_req_allowed -> "req"
             [] state = "idle" /\ ~cl_req_allowed /\ partition_processed
                  -> "waiting"
             [] state = "req" /\ cl_req_issued -> "rsp"
             [] state = "rsp" /\ cl_received -> "processing"
             [] LineDone -> "idle"
             [] OTHER -> state

\* Mutant: the new partition does not clear the flag.
ProgressStaleFlag ==
  CASE new_partition_ready ->
         /\ cl_req_allowed' = TRUE
         /\ total_cls_processed' = 0
         /\ UNCHANGED partition_processed
    [] ~new_partition_ready /\ LineDone ->
         /\ cl_req_allowed' = (total_cls_processed + 1 < total_cls)
         /\ partition_processed' = (total_cls_processed + 1 = total_cls)
         /\ total_cls_processed' = total_cls_processed + 1
    [] OTHER ->
         /\ total_cls_processed' = IF state = "waiting" THEN 0
                                   ELSE total_cls_processed
         /\ UNCHANGED <<cl_req_allowed, partition_processed>>

\* Mutant: the completion is raised one line early.
ProgressEarly ==
  CASE new_partition_ready ->
         /\ cl_req_allowed' = TRUE
         /\ partition_processed' = FALSE
         /\ total_cls_processed' = 0
    [] ~new_partition_ready /\ LineDone ->
         /\ cl_req_allowed' = (total_cls_processed + 1 < total_cls)
         /\ partition_processed' = (total_cls_processed + 2 >= total_cls)
         /\ total_cls_processed' = total_cls_processed + 1
    [] OTHER ->
         /\ total_cls_processed' = IF state = "waiting" THEN 0
                                   ELSE total_cls_processed
         /\ UNCHANGED <<cl_req_allowed, partition_processed>>

\* Mutant: the last line is not recognised.
ProgressOffByOne ==
  CASE new_partition_ready ->
         /\ cl_req_allowed' = TRUE
         /\ partition_processed' = FALSE
         /\ total_cls_processed' = 0
    [] ~new_partition_ready /\ LineDone ->
         /\ cl_req_allowed' = (total_cls_processed + 1 < total_cls)
         /\ partition_processed' = (total_cls_processed = total_cls)
         /\ total_cls_processed' = total_cls_processed + 1
    [] OTHER ->
         /\ total_cls_processed' = IF state = "waiting" THEN 0
                                   ELSE total_cls_processed
         /\ UNCHANGED <<cl_req_allowed, partition_processed>>

Progress ==
  CASE new_partition_ready ->
         /\ cl_req_allowed' = TRUE
         /\ partition_processed' = FALSE
         /\ total_cls_processed' = 0
    [] ~new_partition_ready /\ LineDone ->
         /\ cl_req_allowed' = (total_cls_processed + 1 < total_cls)
         /\ partition_processed' = (total_cls_processed + 1 = total_cls)
         /\ total_cls_processed' = total_cls_processed + 1
    [] OTHER ->
         /\ total_cls_processed' = IF state = "waiting" THEN 0
                                   ELSE total_cls_processed
         /\ UNCHANGED <<cl_req_allowed, partition_processed>>
-----------------------------------------------------------------------------
LineOf(buffer) == <<buffer, total_cls_processed>>

\* Mutant: the request is offered until it is seen, and once more.
ReadRequestTwice(c0TxAlmFull) ==
  CASE state = "req" -> /\ c0' = IF ~c0TxAlmFull THEN LineOf(read_buff_address)
                                                 ELSE None
                        /\ cl_req_issued' = ~c0TxAlmFull
    [] state = "rsp" -> cl_req_issued' = FALSE /\ c0' = c0
    [] OTHER -> UNCHANGED <<c0, cl_req_issued>>

\* One read request per line, held back while the port is almost full.
ReadRequest(c0TxAlmFull) ==
  LET issue == ~c0TxAlmFull /\ ~cl_req_issued IN
    CASE state = "req" -> /\ c0' = IF issue THEN LineOf(read_buff_address)
                                            ELSE None
                          /\ cl_req_issued' = issue
      [] state = "rsp" -> cl_req_issued' = FALSE /\ c0' = c0
      [] OTHER -> UNCHANGED <<c0, cl_req_issued>>

\* A response that does not find the unit in STATE_RSP is lost.
ReadResponse(rx) ==
  LET isRsp == rx # None /\ rx.op = "rsp" IN
    /\ cl_received' = CASE state = "rsp" -> isRsp
                        [] state = "processing" -> FALSE
                        [] OTHER -> cl_received
    /\ rsp_data' = IF state = "rsp" /\ isRsp THEN rx.line ELSE rsp_data

\* Mutant: idle resets processing_done but not the bit vectors.
FilterUnitsKeepBits ==
  LET en == {u \in FilterUnit : state = "processing" /\ scan_column = u} IN
    /\ cl_processed' = IF state = "idle" THEN {} ELSE cl_processed \cup en
    /\ bit_result' = {r \in bit_result : r[1] \notin en}
                       \cup {<<u, rsp_data, filter_pred>> : u \in en}

(***************************************************************************)
(* The three filter units: the one scan_column selects computes its bit    *)
(* vector and raises processing_done a cycle later; idle clears all three. *)
(***************************************************************************)
FilterUnits ==
  LET en == {u \in FilterUnit : state = "processing" /\ scan_column = u} IN
    IF state = "idle"
    THEN cl_processed' = {} /\ bit_result' = {}
    ELSE /\ cl_processed' = cl_processed \cup en
         /\ bit_result' = {r \in bit_result : r[1] \notin en}
                            \cup {<<u, rsp_data, filter_pred>> : u \in en}

\* The result line is offered for one cycle only: an almost full port drops it.
WriteRequest(c1TxAlmFull) ==
  c1' = IF LineDone /\ ~c1TxAlmFull
        THEN [line |-> LineOf(write_buff_address), bits |-> bit_result]
        ELSE None

Clock(rx, c0TxAlmFull, c1TxAlmFull) ==
  /\ CsrMgr(rx) /\ QueryState /\ MemoryPorts /\ Parameters
  /\ StateMachine /\ Progress
  /\ ReadRequest(c0TxAlmFull) /\ ReadResponse(rx)
  /\ FilterUnits /\ WriteRequest(c1TxAlmFull)
=============================================================================
