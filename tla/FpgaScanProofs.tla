--------------------------- MODULE FpgaScanProofs ---------------------------
(***************************************************************************)
(* FpgaScan's safety properties hold for any number of scans, partitions   *)
(* and cache lines, any number of write credits, and however the clock,    *)
(* the bus, memory and the host interleave.                                *)
(*                                                                         *)
(* The inductive invariant, while no MMIO read has failed: the host's      *)
(* MMIO accesses form a program (Prog), and the requests in the pipe are   *)
(* the part of it the AFU has not taken (PipeInv: Issued counts the        *)
(* accesses made, Arrived those that came out of the bus, Applied those    *)
(* that were decoded, Rel those of the current scan and partition);        *)
(* what is left of the queue gives the partition (QueueInv), and what was  *)
(* decoded gives the parameter registers (ParamInv); unit and host agree   *)
(* on the partition and the line they are at (CtrlInv); and as long as the *)
(* platform keeps what the code relies on, every line filtered so far is   *)
(* in a register, under way or in its place in memory (DataInv).           *)
(*                                                                         *)
(* After a failed read host and unit are not in step any more.  What holds *)
(* all the same are the types (TypeInv) and that a completion is current   *)
(* (OnceInv); both rest on the order of the requests in the pipe.          *)
(***************************************************************************)
EXTENDS FpgaScan, FiniteSetTheorems, TLAPS

\* A first scan without units leaves its four stores in the pipe.
Base == IF scan = 2 /\ Partitions[1] = 1 THEN 4 ELSE 0

Place(l) == CASE l = "notify" -> 0 [] l = "total_cls" -> 1 [] l = "filter_predicate" -> 2
              [] l = "job_type" -> 3 [] l \in {"loop", "copy"} -> 4
              [] l \in {"result_address", "done"} -> 5 [] l = "poll" -> 6 [] l = "answer" -> 7

Setup(s, k) ==
  CASE k = 1 -> WriteCSR(QUERY_STATE, SCAN_PROCESSING)
    [] k = 2 -> WriteCSR(TOTAL_CLS, TotalCls(s))
    [] k = 3 -> WriteCSR(FILTER_PREDICATE, s)
    [] k = 4 -> WriteCSR(JOB_TYPE, ScanType[s])

Prog(i) ==
  IF i <= Base THEN Setup(1, i)
  ELSE CASE i - Base \in 1 .. 4 -> Setup(scan, i - Base)
         [] i - Base = 5 -> IF hpc = "done" THEN WriteCSR(QUERY_STATE, QUERY_DONE)
                            ELSE WriteCSR(COLUMN_ADDRESS, Buffer)
         [] i - Base = 6 -> WriteCSR(RESULT_ADDRESS, Buffer)
         [] i - Base = 7 -> ReadCSR(PARTITION_PROCESSED)

Issued == Base + Place(hpc)
Arrived == Issued - Len(mmio)
Applied == IF csr_rx = None /\ csr_wr = None THEN Arrived ELSE Arrived - 1
Rel == Applied - Base
PipeEmpty == mmio = <<>> /\ csr_rx = None /\ csr_wr = None

Request == {ReadCSR(k) : k \in Nat}
             \cup {WriteCSR(k, d) : k \in Nat, d \in Nat \cup (Nat \X Nat)}

PipeInv ==
  /\ hpc \in HostPC /\ scan \in Scan
  /\ gap \in 0 .. MinGap - 1
  /\ mmio \in Seq(Request) /\ Len(mmio) <= Issued
  /\ \A i \in 1 .. Len(mmio) : mmio[i] = Prog(Arrived + i)
  /\ csr_rx # None => Arrived >= 1 /\ csr_rx = Prog(Arrived) /\ csr_wr = None /\ gap = MinGap - 1
  /\ csr_wr # None => Arrived >= 1 /\ csr_wr = Prog(Arrived) /\ csr_wr.op = "write"
  /\ {c2, answer} \subseteq BOOLEAN \cup {None}
  /\ c2 # None \/ answer # None =>
       PipeEmpty /\ hpc = "answer" /\ (c2 = None \/ answer = None)

QueueInv ==
  /\ queue \in Seq(Nat) /\ Len(queue) <= NumUnits(scan)
  /\ \A i \in 1 .. Len(queue) : queue[i] = NumUnits(scan) - Len(queue) + i - 1
  /\ InPart => part = NumUnits(scan) - Len(queue) - 1 /\ part >= 0
  /\ hpc \in {"notify", "total_cls", "filter_predicate", "job_type"} =>
       Len(queue) = NumUnits(scan)
  /\ hpc \in {"copy", "done"} => queue = <<>>
  /\ hpc \in {"loop", "copy"} /\ Len(queue) < NumUnits(scan) => PipeEmpty

ParamInv ==
  /\ query_state \in {SCAN_PROCESSING, QUERY_DONE}
  /\ (Applied >= 1 \/ (scan > 1 /\ Base = 0)) /\ ~(hpc = "done" /\ Rel = 5)
       => query_state = SCAN_PROCESSING
  /\ Rel >= 2 => total_cls = TotalCls(scan)
  /\ Rel >= 3 => filter_pred = scan
  /\ Rel >= 4 => scan_column = ScanType[scan]
  /\ Rel >= 5 /\ hpc # "done" => read_buff_address = Buffer
  /\ Rel >= 6 => write_buff_address = Buffer
  /\ query_state = QUERY_DONE => held = [c0 |-> None, c1 |-> None]

Fetched == LineOf(read_buff_address)

UnitInv ==
  /\ state \in {"waiting", "idle", "req", "rsp", "processing"}
  /\ {new_partition_ready, cl_req_issued, cl_received, partition_processed, cl_req_allowed}
       \subseteq BOOLEAN
  /\ total_cls_processed \in Nat

\* What is offered on the ports, and what memory owes.
PortInv ==
  /\ c1 # None => state = "idle"
  /\ cl_received => state = "rsp"
  /\ cl_req_issued => state = "req"
  /\ c0 # None => cl_req_issued /\ c0 = Fetched
  /\ reading # {} => state = "rsp" /\ ~cl_received /\ reading = {Fetched}
  /\ state \in {"waiting", "req", "rsp"} => cl_processed = {}
  /\ cl_processed \subseteq {scan_column}

\* How the unit counts the lines of a partition.
CountInv ==
  /\ state # "waiting" => total_cls_processed <= total_cls
  /\ state = "idle" => /\ partition_processed <=> total_cls_processed = total_cls
                       /\ cl_req_allowed <=> total_cls_processed < total_cls
  /\ state \in {"req", "rsp", "processing"} =>
       total_cls_processed < total_cls /\ ~partition_processed

\* How the unit and the host agree on which partition it is.
ReadyInv ==
  /\ new_partition_ready => state = "waiting" /\ Rel = 5 /\ csr_wr = None /\ InPart
  /\ state # "waiting" => InPart /\ Rel >= 5
  /\ state = "waiting" /\ Rel >= 5 /\ hpc # "done" /\ ~new_partition_ready =>
       partition_processed /\ (total_cls_processed = 0 \/ total_cls_processed = total_cls)
  /\ c2 = TRUE \/ answer = TRUE =>
       state = "waiting" /\ partition_processed /\ ~new_partition_ready

CtrlInv == UnitInv /\ PortInv /\ CountInv /\ ReadyInv

\* Lines of the current partition that are done.
LinesDone == IF ~InPart \/ Rel < 5 \/ new_partition_ready THEN 0
             ELSE IF state = "waiting" THEN total_cls ELSE total_cls_processed

RightWrite(l) == [line |-> <<Buffer, l>>, bits |-> Right(scan, part, l)]

\* What the unit holds of the line it is at.
UnitData ==
  /\ state = "processing" \/ cl_received => Rel >= 6 /\ rsp_data = Fetched
  /\ state \in {"req", "rsp"} => bit_result = {}
  /\ state = "processing" => bit_result = {<<u, Fetched, filter_pred>> : u \in cl_processed}
  /\ c1 # None => total_cls_processed >= 1 /\ c1 = RightWrite(total_cls_processed - 1)

\* Where the results of the current partition are.
WritesInv ==
  /\ writing \subseteq {RightWrite(l) : l \in 0 .. LinesDone - 1}
  /\ DOMAIN memory = Line
  /\ \A l \in 0 .. LinesDone - 1 :
       memory[<<Buffer, l>>] = Right(scan, part, l) \/ RightWrite(l) \in writing \cup {c1}

\* The partitions the host has seen completed are in memory.
FinishedInv ==
  hpc # "done" =>
    \A p \in 0 .. Finished - 1, l \in 0 .. TotalCls(scan) - 1 :
      memory[<<<<ScanType[scan], p>>, l>>] = Right(scan, p, l)

DataInv ==
  /\ DOMAIN result = Scan
  /\ kept => UnitData /\ WritesInv /\ FinishedInv /\ ResultsComplete

J == PipeInv /\ QueueInv /\ ParamInv /\ CtrlInv /\ DataInv
IInv == ~lied => J

-----------------------------------------------------------------------------
LEMMA MinOfTwo == ASSUME NEW a \in Int, NEW b \in Int
                  PROVE  Min({a, b}) = IF a <= b THEN a ELSE b
<1> DEFINE m == IF a <= b THEN a ELSE b
<1>1. m \in {a, b} /\ \A y \in {a, b} : m <= y
  OBVIOUS
<1>2. \A x \in {a, b} : (\A y \in {a, b} : x <= y) => x = m
  OBVIOUS
<1> QED
  BY <1>1, <1>2 DEF Min

LEMMA DivAtLeastOne ==
  ASSUME NEW a \in Nat, NEW b \in Nat \ {0}, a >= b
  PROVE  a \div b \in Nat \ {0}
OBVIOUS

LEMMA TotalClsRange ==
  ASSUME NEW s \in Scan
  PROVE  TotalCls(s) \in 1 .. PageLines /\ TotalCls(s) \in 1 .. 127
<1> DEFINE items == CL_SIZE \div BitEncoding[s]
           cls == CeilDiv(Elements[s], items)
<1>1. /\ BitEncoding[s] \in Nat \ {0} /\ Elements[s] \in Nat \ {0} /\ BitEncoding[s] <= CL_SIZE
      /\ CL_SIZE \in Nat \ {0} /\ PageLines \in Nat \ {0} /\ PageLines < 128
  BY FpgaScanAssumption
<1>2. items \in Nat \ {0}
  BY <1>1, DivAtLeastOne
<1> HIDE DEF items
<1>3. cls \in Nat \ {0}
  <2>1. Elements[s] + items - 1 \in Nat /\ Elements[s] + items - 1 >= items
    BY <1>1, <1>2
  <2> QED
    BY <1>2, <2>1, DivAtLeastOne DEF CeilDiv
<1>4. TotalCls(s) = Min({cls, PageLines})
  BY DEF TotalCls, items
<1> HIDE DEF cls
<1>5. TotalCls(s) = IF cls <= PageLines THEN cls ELSE PageLines
  BY <1>1, <1>3, <1>4, MinOfTwo
<1> QED
  BY <1>1, <1>3, <1>5

LEMMA Constants ==
  /\ 1 \in Scan /\ Scan \subseteq Nat /\ MinGap \in Nat
  /\ \A s \in Scan : /\ ScanType[s] \in {0, 1, 2} /\ Partitions[s] \in Nat \ {0}
                     /\ NumUnits(s) \in Nat /\ NumUnits(s) <= Partitions[s]
                     /\ s > 1 => NumUnits(s) >= 1
BY FpgaScanAssumption DEF Scan, NumUnits, FilterUnit

LEMMA LinesAre ==
  ASSUME NEW s \in Scan, NEW p \in PartId(s), NEW l \in 0 .. PageLines - 1
  PROVE  <<<<ScanType[s], p>>, l>> \in Line
BY DEF Line

-----------------------------------------------------------------------------
(* The stores of a query, in the order they are issued. *)

LEMMA PlaceIs ==
  /\ Place("notify") = 0 /\ Place("total_cls") = 1 /\ Place("filter_predicate") = 2
  /\ Place("job_type") = 3 /\ Place("loop") = 4 /\ Place("copy") = 4
  /\ Place("result_address") = 5 /\ Place("done") = 5 /\ Place("poll") = 6
  /\ Place("answer") = 7
BY DEF Place

LEMMA BaseIs == Base \in {0, 4} /\ (Base = 4 => scan = 2 /\ 1 \in Scan)
BY Constants DEF Base

\* What the i-th store of the current scan is.
Store(i) ==
  IF i <= Base THEN Setup(1, i)
  ELSE IF i - Base <= 4 THEN Setup(scan, i - Base)
  ELSE IF i - Base = 5 THEN IF hpc = "done" THEN WriteCSR(QUERY_STATE, QUERY_DONE)
                            ELSE WriteCSR(COLUMN_ADDRESS, Buffer)
  ELSE IF i - Base = 6 THEN WriteCSR(RESULT_ADDRESS, Buffer)
  ELSE ReadCSR(PARTITION_PROCESSED)

LEMMA ProgIs ==
  ASSUME NEW i \in 1 .. Base + 7
  PROVE  Prog(i) = Store(i)
<1>1. Base \in {0, 4}
  BY BaseIs
<1>2. CASE i <= Base
  BY <1>2 DEF Prog, Store
<1>3. CASE i - Base \in 1 .. 4
  BY <1>1, <1>3 DEF Prog, Store
<1>4. CASE i - Base \in 5 .. 7
  <2>1. i - Base \notin 1 .. 4 /\ ~(i <= Base)
    BY <1>1, <1>4
  <2>2. i - Base = 5 \/ i - Base = 6 \/ i - Base = 7
    BY <1>1, <1>4
  <2>3. CASE i - Base = 5
    BY <2>1, <2>3 DEF Prog, Store
  <2>4. CASE i - Base = 6
    BY <2>1, <2>4 DEF Prog, Store
  <2>5. CASE i - Base = 7
    BY <2>1, <2>5 DEF Prog, Store
  <2> QED
    BY <2>2, <2>3, <2>4, <2>5
<1> QED
  BY <1>1, <1>2, <1>3, <1>4

LEMMA SetupIs ==
  ASSUME NEW s \in Scan
  PROVE  /\ Setup(s, 1) = WriteCSR(QUERY_STATE, SCAN_PROCESSING)
         /\ Setup(s, 2) = WriteCSR(TOTAL_CLS, TotalCls(s))
         /\ Setup(s, 3) = WriteCSR(FILTER_PREDICATE, s)
         /\ Setup(s, 4) = WriteCSR(JOB_TYPE, ScanType[s])
BY DEF Setup

\* What a request is, and that it is there.
LEMMA CsrIs ==
  /\ \A k, d : /\ WriteCSR(k, d).op = "write" /\ WriteCSR(k, d).csr = k
               /\ WriteCSR(k, d).data = d
  /\ \A k : ReadCSR(k).op = "read" /\ ReadCSR(k).csr = k
  /\ \A l : ReadRsp(l).op = "rsp" /\ ReadRsp(l).line = l
BY DEF WriteCSR, ReadCSR, ReadRsp

LEMMA Present == None # ReadCSR(PARTITION_PROCESSED) /\ None # WriteCSR(QUERY_STATE, QUERY_DONE)
BY NoneAssumption DEF PARTITION_PROCESSED, QUERY_STATE, QUERY_DONE

LEMMA SetupPresent ==
  ASSUME NEW s \in Scan, NEW i \in 1 .. 4
  PROVE  Setup(s, i) # None /\ Setup(s, i).op = "write"
<1>1. \A k \in 0 .. 7 : /\ \A n \in 0 .. 127 : None # WriteCSR(k, n)
                       /\ \A n \in Scan : None # WriteCSR(k, n)
  BY NoneAssumption
<1>2. ScanType[s] \in 0 .. 127 /\ TotalCls(s) \in 0 .. 127
  BY Constants, TotalClsRange
<1>3. /\ None # WriteCSR(7, 0) /\ None # WriteCSR(0, TotalCls(s)) /\ None # WriteCSR(1, s)
      /\ None # WriteCSR(2, ScanType[s])
  BY <1>1, <1>2
<1>4. \E k, d : Setup(s, i) = WriteCSR(k, d) /\ None # WriteCSR(k, d)
  <2>1. i = 1 \/ i = 2 \/ i = 3 \/ i = 4
    OBVIOUS
  <2>2. /\ Setup(s, 1) = WriteCSR(7, 0) /\ Setup(s, 2) = WriteCSR(0, TotalCls(s))
        /\ Setup(s, 3) = WriteCSR(1, s) /\ Setup(s, 4) = WriteCSR(2, ScanType[s])
    BY SetupIs DEF QUERY_STATE, SCAN_PROCESSING, TOTAL_CLS, FILTER_PREDICATE, JOB_TYPE
  <2> QED
    BY <1>3, <2>1, <2>2, Zenon
<1> QED
  BY <1>4, CsrIs

LEMMA AddressPresent ==
  ASSUME NEW s \in Scan, NEW p \in PartId(s)
  PROVE  /\ None # WriteCSR(COLUMN_ADDRESS, <<ScanType[s], p>>)
         /\ None # WriteCSR(RESULT_ADDRESS, <<ScanType[s], p>>)
<1>1. <<<<ScanType[s], p>>, 0>> \in Line
  BY LinesAre, FpgaScanAssumption
<1>2. \A k \in 0 .. 7 : None # WriteCSR(k, <<<<ScanType[s], p>>, 0>>[1])
  BY <1>1, NoneAssumption
<1> QED
  BY <1>2 DEF COLUMN_ADDRESS, RESULT_ADDRESS

LEMMA BufferIs ==
  ASSUME QueueInv, PipeInv, InPart
  PROVE  part \in PartId(scan) /\ part < NumUnits(scan)
<1>1. Len(queue) \in Nat /\ NumUnits(scan) \in Nat /\ NumUnits(scan) <= Partitions[scan]
      /\ Partitions[scan] \in Nat
  BY Constants DEF QueueInv, PipeInv
<1>2. part = NumUnits(scan) - Len(queue) - 1 /\ part >= 0
  BY DEF QueueInv
<1> QED
  BY <1>1, <1>2 DEF PartId

\* What every step needs of the i-th store.
LEMMA StoreIs ==
  ASSUME PipeInv, QueueInv, NEW i \in 1 .. Issued
  PROVE  /\ Prog(i) # None
         /\ Prog(i).op = IF i - Base = 7 THEN "read" ELSE "write"
         /\ i - Base = 7 => Prog(i).csr = PARTITION_PROCESSED
         /\ i - Base = 6 => Prog(i) = WriteCSR(RESULT_ADDRESS, Buffer)
         /\ i - Base = 5 => Prog(i) = IF hpc = "done" THEN WriteCSR(QUERY_STATE, QUERY_DONE)
                                     ELSE WriteCSR(COLUMN_ADDRESS, Buffer)
         /\ i - Base \in 1 .. 4 => Prog(i) = Setup(scan, i - Base)
         /\ i <= Base => Prog(i) = Setup(1, i)
         /\ i - Base \in Int /\ i - Base <= 7 /\ (i - Base <= 0 <=> i <= Base)
         /\ i - Base >= 6 => InPart
         /\ i - Base = 5 /\ hpc # "done" => InPart
<1>1. /\ Base \in {0, 4} /\ (Base = 4 => scan = 2 /\ 1 \in Scan)
      /\ hpc \in HostPC /\ scan \in Scan
  BY BaseIs DEF PipeInv
<1>2. Place(hpc) \in 0 .. 7 /\ (Place(hpc) >= 6 => hpc \in {"poll", "answer"})
      /\ (Place(hpc) >= 5 /\ hpc # "done" => InPart)
  BY <1>1, PlaceIs DEF HostPC, InPart
<1>3. /\ i \in Int /\ i - Base \in Int /\ i - Base <= 7 /\ i \in 1 .. Base + 7 /\ i - Base <= Place(hpc)
      /\ (i - Base <= 0 <=> i <= Base)
      /\ (i - Base >= 6 => InPart) /\ (i - Base = 5 /\ hpc # "done" => InPart)
  BY <1>1, <1>2 DEF Issued
<1>4. Prog(i) = Store(i)
  BY <1>3, ProgIs
<1>5. InPart => part \in PartId(scan)
  BY BufferIs
<1>7. CASE i <= Base
  <2>1. Prog(i) = Setup(1, i) /\ i \in 1 .. 4 /\ 1 \in Scan
    BY <1>1, <1>3, <1>4, <1>7 DEF Store
  <2>2. Setup(1, i) # None /\ Setup(1, i).op = "write"
    BY <2>1, SetupPresent
  <2> QED
    BY <1>1, <1>3, <1>7, <2>1, <2>2
<1>8. CASE i - Base \in 1 .. 4
  <2>1. Prog(i) = Setup(scan, i - Base) /\ ~(i <= Base)
    BY <1>1, <1>3, <1>4, <1>8 DEF Store
  <2>2. \A k \in 1 .. 4 : Setup(scan, k) # None /\ Setup(scan, k).op = "write"
    BY <1>1, SetupPresent
  <2> QED
    BY <1>1, <1>3, <1>8, <2>1, <2>2
<1>9. CASE i - Base = 5
  <2>1. Prog(i) = IF hpc = "done" THEN WriteCSR(QUERY_STATE, QUERY_DONE)
                                  ELSE WriteCSR(COLUMN_ADDRESS, Buffer)
    BY <1>3, <1>4, <1>9 DEF Store
  <2>2. Prog(i) # None /\ Prog(i).op = "write"
    BY <2>1, <1>1, <1>3, <1>5, <1>9, CsrIs, Present, AddressPresent DEF Buffer
  <2> QED
    BY <1>3, <1>9, <2>1, <2>2
<1>10. CASE i - Base = 6
  <2>1. Prog(i) = WriteCSR(RESULT_ADDRESS, Buffer)
    BY <1>3, <1>4, <1>10 DEF Store
  <2>2. Prog(i) # None /\ Prog(i).op = "write"
    BY <2>1, <1>1, <1>3, <1>5, <1>10, CsrIs, AddressPresent DEF Buffer
  <2> QED
    BY <1>3, <1>10, <2>1, <2>2
<1>11. CASE i - Base = 7
  <2>1. Prog(i) = ReadCSR(PARTITION_PROCESSED)
    BY <1>3, <1>4, <1>11 DEF Store
  <2> QED
    BY <2>1, <1>3, <1>11, CsrIs, Present
<1> QED
  BY <1>3, <1>7, <1>8, <1>9, <1>10, <1>11

-----------------------------------------------------------------------------
(* A clock edge: Tick, TickRequest and TickResponse by what they bring. *)

NextGap == IF gap > 0 THEN gap - 1 ELSE 0

Delivers(rx) ==
  \/ /\ rx = None /\ mmio' = mmio /\ gap' = NextGap
     /\ reading' = reading \cup Requested
  \/ /\ mmio # <<>> /\ gap = 0
     /\ rx = Head(mmio) /\ mmio' = Tail(mmio) /\ gap' = MinGap - 1
     /\ reading' = reading \cup Requested
  \/ \E line \in reading :
       /\ rx = ReadRsp(line) /\ mmio' = mmio /\ gap' = NextGap
       /\ reading' = (reading \ {line}) \cup Requested
       /\ kept' => ~ResultAddressPending

Edge(rx, full) ==
  /\ Clock(rx, full, c1TxAlmFull) /\ Ports /\ Delivers(rx)
  /\ kept' => kept /\ ~Dropped

LEMMA EdgeIs ==
  ASSUME NEW full,
         Tick(full) \/ TickRequest(full) \/ \E line \in reading : TickResponse(line, full)
  PROVE  \E rx : Edge(rx, full)
<1>1. CASE Tick(full)
  <2>1. Edge(None, full)
    BY <1>1 DEF Tick, Edge, Delivers, NextGap
  <2> QED
    BY <2>1
<1>2. CASE TickRequest(full)
  <2>1. Edge(Head(mmio), full)
    BY <1>2 DEF TickRequest, Edge, Delivers, NextGap
  <2> QED
    BY <2>1
<1>3. ASSUME NEW line \in reading, TickResponse(line, full)
      PROVE  \E rx : Edge(rx, full)
  <2>1. Edge(ReadRsp(line), full)
    BY <1>3 DEF TickResponse, Edge, Delivers, NextGap
  <2> QED
    BY <2>1
<1> QED
  BY <1>1, <1>2, <1>3

LEMMA SamePipe ==
  ASSUME UNCHANGED <<scan, hpc, part>>
  PROVE  /\ Base' = Base /\ Buffer' = Buffer /\ Issued' = Issued /\ (InPart' <=> InPart)
         /\ \A i : Prog(i)' = Prog(i)
<1>1. Base' = Base /\ Buffer' = Buffer /\ (InPart' <=> InPart)
  BY DEF Base, Buffer, InPart
<1>2. Place(hpc)' = Place(hpc)
  OBVIOUS
<1>3. ASSUME NEW i PROVE Prog(i)' = Prog(i)
  BY <1>1 DEF Prog
<1> QED
  BY <1>1, <1>2, <1>3 DEF Issued

\* What an edge applies: nothing, the store in csr_wr, or the host's read.
Advance ==
  /\ UNCHANGED hostVars /\ Base' = Base /\ Issued' = Issued
  /\ Buffer' = Buffer /\ (InPart' <=> InPart)
  /\ Applied \in Nat /\ Applied' \in Nat /\ Applied' <= Issued
  /\ csr_wr # None => /\ Applied' = Applied + 1 /\ csr_rx = None
                      /\ csr_wr = Prog(Applied') /\ csr_wr.op = "write"
  /\ csr_wr = None => \/ Applied' = Applied
                      \/ Applied' = Applied + 1 /\ Rel' = 7

LEMMA IssuedIs ==
  ASSUME PipeInv
  PROVE  /\ Base \in {0, 4} /\ Place(hpc) \in 0 .. 7 /\ Issued \in Nat
         /\ Issued = Base + Place(hpc) /\ (Place(hpc) = 7 <=> hpc = "answer")
         /\ Len(mmio) \in Nat /\ Arrived = Issued - Len(mmio) /\ Arrived \in Nat
BY BaseIs, PlaceIs DEF PipeInv, HostPC, Issued, Arrived

LEMMA GapIs == MinGap \in Nat /\ MinGap - 1 >= 1 /\ MinGap - 1 \in 0 .. MinGap - 1
BY Constants, MmioGapAssumption

LEMMA PipeEdge ==
  ASSUME PipeInv, QueueInv, NEW rx, NEW full, Edge(rx, full)
  PROVE  PipeInv' /\ QueueInv' /\ Advance
<1> USE DEF PipeInv
<1>1. UNCHANGED hostVars /\ UNCHANGED <<scan, hpc, part, queue>>
  BY DEF Edge, Ports, hostVars
<1>2. Base' = Base /\ Buffer' = Buffer /\ Issued' = Issued /\ (InPart' <=> InPart)
  BY <1>1, SamePipe
<1>12. \A i : Prog(i)' = Prog(i)
  BY <1>1, SamePipe
<1>3. /\ Base \in {0, 4} /\ Place(hpc) \in 0 .. 7 /\ Issued \in Nat
      /\ Issued = Base + Place(hpc) /\ (Place(hpc) = 7 <=> hpc = "answer")
      /\ Len(mmio) \in Nat /\ Arrived = Issued - Len(mmio) /\ Arrived \in Nat
  BY IssuedIs
<1>13. Issued \in Nat /\ Arrived \in Nat /\ Base \in Nat
  BY <1>3
<1>4. \A i \in 1 .. Issued :
        /\ Prog(i) # None
        /\ Prog(i).op = IF i - Base = 7 THEN "read" ELSE "write"
        /\ i - Base = 7 => Prog(i).csr = PARTITION_PROCESSED
  BY StoreIs
<1>5. /\ csr_rx' = IF rx # None /\ rx.op # "rsp" THEN rx ELSE None
      /\ csr_wr' = IF csr_rx # None /\ csr_rx.op = "write" THEN csr_rx ELSE None
      /\ c2' = IF csr_rx # None /\ csr_rx.op = "read"
               THEN csr_rx.csr = PARTITION_PROCESSED /\ partition_processed ELSE None
      /\ answer' = IF c2 # None THEN c2 ELSE answer
  BY DEF Edge, Clock, CsrMgr, Ports
\* Where the host's requests are after the edge.
<1>6. \/ mmio' = mmio /\ csr_rx' = None /\ gap' = NextGap
      \/ /\ mmio # <<>> /\ gap = 0 /\ csr_rx = None /\ gap' = MinGap - 1
         /\ mmio' = Tail(mmio) /\ csr_rx' = Prog(Arrived + 1) /\ csr_rx' # None
  <2>1. CASE rx = None /\ mmio' = mmio /\ gap' = NextGap
    BY <1>5, <2>1
  <2>2. CASE mmio # <<>> /\ gap = 0 /\ rx = Head(mmio) /\ mmio' = Tail(mmio) /\ gap' = MinGap - 1
    <3>1. Len(mmio) >= 1 /\ rx = Prog(Arrived + 1) /\ Arrived + 1 \in 1 .. Issued
      BY <1>3, <2>2
    <3>2. rx # None /\ rx.op # "rsp"
      BY <3>1, <1>4
    <3>3. csr_rx = None
      BY <2>2, GapIs
    <3> QED
      BY <1>5, <2>2, <3>1, <3>2, <3>3
  <2>3. CASE \E line \in reading : rx = ReadRsp(line) /\ mmio' = mmio /\ gap' = NextGap
    BY <1>5, <2>3, CsrIs
  <2> QED
    BY <2>1, <2>2, <2>3 DEF Edge, Delivers
<1>7. csr_rx # None => /\ csr_rx = Prog(Arrived) /\ Arrived \in 1 .. Issued /\ csr_wr = None
                       /\ csr_rx.op = IF Arrived - Base = 7 THEN "read" ELSE "write"
                       /\ Arrived - Base = 7 => csr_rx.csr = PARTITION_PROCESSED /\ mmio = <<>>
                            /\ hpc = "answer"
  <2>1. csr_rx # None => csr_rx = Prog(Arrived) /\ Arrived \in 1 .. Issued /\ csr_wr = None
    BY <1>3
  <2>2. Arrived - Base = 7 => Len(mmio) = 0 /\ hpc = "answer"
    BY <1>3
  <2>3. Len(mmio) = 0 => mmio = <<>>
    OBVIOUS
  <2> QED
    BY <2>1, <2>2, <2>3, <1>4
<1>8. csr_wr # None => csr_rx = None /\ csr_wr = Prog(Arrived) /\ Arrived \in 1 .. Issued
                       /\ csr_wr.op = "write"
  BY <1>3
<1>9. {c2, answer, c2', answer'} \subseteq BOOLEAN \cup {None}
  BY <1>5
<1>10. CASE mmio' = mmio /\ csr_rx' = None /\ gap' = NextGap
  <2>1. Arrived' = Arrived /\ Len(mmio') = Len(mmio)
    BY <1>2, <1>10 DEF Arrived
  <2>8. gap' \in 0 .. MinGap - 1
    BY <1>10, GapIs DEF NextGap
  <2>2. PipeEmpty => PipeEmpty' /\ c2' = None
    BY <1>5, <1>10 DEF PipeEmpty
  <2>3. c2' # None \/ answer' # None =>
          PipeEmpty' /\ hpc' = "answer" /\ (c2' = None \/ answer' = None)
    <3>1. CASE csr_rx # None /\ csr_rx.op = "read"
      BY <1>1, <1>5, <1>7, <1>10, <3>1 DEF PipeEmpty
    <3>2. CASE ~(csr_rx # None /\ csr_rx.op = "read")
      BY <1>1, <1>5, <2>2, <3>2
    <3> QED
      BY <3>1, <3>2
  <2>4. csr_wr' # None => Arrived' >= 1 /\ csr_wr' = Prog(Arrived') /\ csr_wr'.op = "write"
    BY <1>5, <1>7, <2>1
  <2>5. PipeInv'
    BY <1>1, <1>2, <1>12, <1>3, <1>9, <1>10, <2>1, <2>3, <2>4, <2>8 DEF PipeInv
  <2>6. Advance
    <3> HIDE DEF PipeInv
    <3>1. /\ Applied = (IF csr_rx = None /\ csr_wr = None THEN Arrived ELSE Arrived - 1)
          /\ Applied' = (IF csr_rx' = None /\ csr_wr' = None THEN Arrived' ELSE Arrived' - 1)
          /\ Rel' = Applied' - Base'
      BY DEF Applied, Rel
    <3>2. csr_wr' # None <=> csr_rx # None /\ Arrived - Base # 7
      BY <1>5, <1>7
    <3>4. /\ Applied \in Nat /\ Applied' \in Nat /\ Applied' <= Issued
          /\ csr_wr # None => Applied' = Applied + 1 /\ csr_rx = None /\ Applied' = Arrived
          /\ csr_wr = None => \/ Applied' = Applied
                              \/ Applied' = Applied + 1 /\ Rel' = 7
      <4>1. CASE csr_wr # None
        <5>1. Applied = Arrived - 1 /\ Applied' = Arrived' /\ csr_rx = None
          BY <4>1, <1>8, <1>10, <3>1, <3>2
        <5>2. Arrived \in 1 .. Issued
          BY <4>1, <1>8
        <5> QED
          BY <4>1, <1>13, <2>1, <5>1, <5>2
      <4>2. CASE csr_wr = None /\ csr_rx = None
        BY <4>2, <1>3, <1>10, <2>1, <3>1, <3>2
      <4>3. CASE csr_wr = None /\ csr_rx # None
        <5>1. CASE Arrived - Base = 7
          <6>1. Applied = Arrived - 1 /\ Applied' = Arrived' /\ Arrived \in 1 .. Issued
            BY <4>3, <5>1, <1>7, <1>10, <3>1, <3>2
          <6>2. Rel' = Arrived' - Base
            BY <1>2, <3>1, <6>1
          <6> QED
            BY <4>3, <5>1, <1>13, <2>1, <6>1, <6>2
        <5>2. CASE Arrived - Base # 7
          <6>1. Applied = Arrived - 1 /\ Applied' = Arrived' - 1 /\ Arrived \in 1 .. Issued
            BY <4>3, <5>2, <1>7, <3>1, <3>2
          <6> QED
            BY <4>3, <1>13, <2>1, <6>1
        <5> QED
          BY <5>1, <5>2
      <4> QED
        BY <4>1, <4>2, <4>3
    <3> QED
      BY <1>1, <1>2, <1>12, <1>8, <3>4 DEF Advance
  <2>7. QueueInv'
    BY <1>1, <1>2, <2>2 DEF QueueInv
  <2> QED
    BY <2>5, <2>6, <2>7
<1>11. CASE /\ mmio # <<>> /\ gap = 0 /\ csr_rx = None /\ gap' = MinGap - 1
            /\ mmio' = Tail(mmio) /\ csr_rx' = Prog(Arrived + 1) /\ csr_rx' # None
  <2>1. Len(mmio') = Len(mmio) - 1 /\ mmio' \in Seq(Request) /\ Len(mmio) >= 1
    BY <1>3, <1>11
  <2>7. Arrived' = Issued' - Len(mmio')
    BY <1>11 DEF Arrived
  <2>9. gap' \in 0 .. MinGap - 1
    BY <1>11, GapIs
  <2>8. Arrived' = Arrived + 1 /\ Arrived + 1 \in 1 .. Issued
    <3>1. Arrived' = Arrived + 1
      BY <1>2, <1>3, <2>1, <2>7
    <3>2. Arrived + 1 <= Issued
      BY <1>3, <2>1
    <3> QED
      BY <1>3, <3>1, <3>2
  <2>2. ASSUME NEW i \in 1 .. Len(mmio') PROVE mmio'[i] = Prog(Arrived' + i)
    <3>1. i \in Int /\ i + 1 \in 1 .. Len(mmio)
      BY <1>3, <2>1
    <3>2. mmio'[i] = mmio[i + 1]
      BY <1>3, <1>11, <2>1
    <3>3. mmio[i + 1] = Prog(Arrived + (i + 1))
      BY <1>3, <3>1
    <3>4. Arrived + (i + 1) = Arrived' + i
      BY <1>3, <2>8, <3>1
    <3> QED
      BY <3>2, <3>3, <3>4
  <2>3. ~PipeEmpty /\ c2 = None /\ answer = None /\ c2' = None /\ answer' = None /\ csr_wr' = None
    BY <1>5, <1>11 DEF PipeEmpty
  <2>4. PipeInv'
    <3>1. hpc' \in HostPC /\ scan' \in Scan
      BY <1>1 DEF PipeInv
    <3>2. Len(mmio') <= Issued' /\ Arrived' >= 1
      BY <1>2, <1>3, <2>1, <2>8
    <3>3. \A i \in 1 .. Len(mmio') : mmio'[i] = Prog(Arrived + i)'
      BY <1>2, <1>12, <2>2
    <3>4. csr_rx' = Prog(Arrived)' /\ gap' = MinGap - 1
      BY <1>2, <1>12, <1>11, <2>8
    <3> QED
      BY <1>9, <2>1, <2>3, <2>9, <3>1, <3>2, <3>3, <3>4 DEF PipeInv
  <2>5. Advance
    <3> HIDE DEF PipeInv
    <3>1. /\ Applied = (IF csr_rx = None /\ csr_wr = None THEN Arrived ELSE Arrived - 1)
          /\ Applied' = (IF csr_rx' = None /\ csr_wr' = None THEN Arrived' ELSE Arrived' - 1)
      BY DEF Applied
    <3>2. /\ Applied \in Nat /\ Applied' \in Nat /\ Applied' <= Issued
          /\ csr_wr # None => Applied' = Applied + 1 /\ Applied' = Arrived
          /\ csr_wr = None => Applied' = Applied
      <4>1. CASE csr_wr = None
        BY <4>1, <1>3, <1>11, <2>8, <3>1
      <4>2. CASE csr_wr # None
        <5>1. Applied = Arrived - 1 /\ Applied' = Arrived' - 1
          BY <4>2, <1>11, <3>1
        <5>2. Arrived \in 1 .. Issued
          BY <4>2, <1>8
        <5> QED
          BY <4>2, <1>13, <2>8, <5>1, <5>2
      <4> QED
        BY <4>1, <4>2
    <3> QED
      BY <1>1, <1>2, <1>12, <1>8, <1>11, <3>2 DEF Advance
  <2>6. QueueInv'
    BY <1>1, <1>2, <2>3 DEF QueueInv
  <2> QED
    BY <2>4, <2>5, <2>6
<1> QED
  BY <1>6, <1>10, <1>11

-----------------------------------------------------------------------------
(* What a clock edge does to the AFU's parameters. *)

LEMMA ScanIs ==
  ASSUME PipeInv
  PROVE  /\ scan \in Scan /\ hpc \in HostPC /\ TotalCls(scan) \in 1 .. PageLines
         /\ TotalCls(scan) \in 1 .. 127 /\ TotalCls(scan) % 128 = TotalCls(scan)
         /\ ScanType[scan] \in {0, 1, 2} /\ ScanType[scan] % 4 = ScanType[scan]
<1>1. scan \in Scan /\ hpc \in HostPC
  BY DEF PipeInv
<1>2. TotalCls(scan) \in 1 .. PageLines /\ TotalCls(scan) \in 1 .. 127
  BY <1>1, TotalClsRange
<1>3. ScanType[scan] \in {0, 1, 2}
  BY <1>1, Constants
<1> QED
  BY <1>1, <1>2, <1>3

LEMMA RelIs ==
  ASSUME PipeInv
  PROVE  Base \in Nat /\ (Base = 0 \/ Base = 4) /\ (Base = 4 => scan = 2)
BY BaseIs

\* The store an edge applies, by its place in the scan.
Applies(k, d) == csr_wr # None /\ csr_wr.csr = k /\ csr_wr.data = d

LEMMA WriteIs ==
  ASSUME PipeInv, QueueInv, Advance, csr_wr # None
  PROVE  /\ Applied' = Applied + 1 /\ Rel' = Rel + 1 /\ Rel' <= 6 /\ Rel' \in Int /\ Rel \in Int
         /\ \/ Rel' <= 0 /\ \E k \in {TOTAL_CLS, FILTER_PREDICATE, JOB_TYPE} : csr_wr.csr = k
            \/ Rel' <= 0 /\ Applies(QUERY_STATE, SCAN_PROCESSING)
            \/ Rel' = 1 /\ Applies(QUERY_STATE, SCAN_PROCESSING)
            \/ Rel' = 2 /\ Applies(TOTAL_CLS, TotalCls(scan))
            \/ Rel' = 3 /\ Applies(FILTER_PREDICATE, scan)
            \/ Rel' = 4 /\ Applies(JOB_TYPE, ScanType[scan])
            \/ Rel' = 5 /\ hpc = "done" /\ Applies(QUERY_STATE, QUERY_DONE)
            \/ Rel' = 5 /\ hpc # "done" /\ InPart /\ Applies(COLUMN_ADDRESS, Buffer)
            \/ Rel' = 6 /\ InPart /\ Applies(RESULT_ADDRESS, Buffer)
         /\ Applied' = 1 => Applies(QUERY_STATE, SCAN_PROCESSING)
<1>1. /\ Base \in Nat /\ Base' = Base /\ Applied \in Nat /\ Applied' = Applied + 1
      /\ Applied' <= Issued /\ Rel = Applied - Base /\ Rel' = Applied' - Base
      /\ (Base = 0 \/ Base = 4) /\ Issued \in Nat /\ scan \in Scan /\ (Base = 4 => 1 \in Scan)
  BY RelIs, IssuedIs, Constants DEF Advance, Rel, PipeInv
<1> DEFINE i == Applied'
<1>2. i \in 1 .. Issued /\ csr_wr = Prog(i) /\ csr_wr.op = "write" /\ Rel' = i - Base
  BY <1>1 DEF Advance
<1> HIDE DEF i
<1>3. /\ Prog(i).op = IF i - Base = 7 THEN "read" ELSE "write"
      /\ i - Base = 6 => Prog(i) = WriteCSR(RESULT_ADDRESS, Buffer)
      /\ i - Base = 5 => Prog(i) = IF hpc = "done" THEN WriteCSR(QUERY_STATE, QUERY_DONE)
                                  ELSE WriteCSR(COLUMN_ADDRESS, Buffer)
      /\ i - Base \in 1 .. 4 => Prog(i) = Setup(scan, i - Base)
      /\ i <= Base => Prog(i) = Setup(1, i)
      /\ i - Base \in Int /\ i - Base <= 7 /\ (i - Base >= 6 => InPart)
      /\ i - Base = 5 /\ hpc # "done" => InPart
  BY <1>2, StoreIs
<1>4. Rel' <= 6
  BY <1>2, <1>3
<1>5. CASE i <= Base
  <2>1. csr_wr = Setup(1, i) /\ i \in 1 .. 4 /\ 1 \in Scan /\ Rel' <= 0
    BY <1>1, <1>2, <1>3, <1>5
  <2>2. i = 1 \/ i = 2 \/ i = 3 \/ i = 4
    BY <2>1
  <2>3. CASE i = 1
    BY <1>1, <1>2, <1>4, <2>1, <2>3, SetupIs, CsrIs DEF Applies, i
  <2>4. CASE i # 1
    <3>1. \E k \in {TOTAL_CLS, FILTER_PREDICATE, JOB_TYPE} : csr_wr.csr = k
      BY <2>1, <2>2, <2>4, SetupIs, CsrIs
    <3> QED
      BY <1>1, <1>4, <2>1, <2>4, <3>1 DEF i
  <2> QED
    BY <2>3, <2>4
<1>6. CASE i - Base \in 1 .. 4
  <2>1. csr_wr = Setup(scan, Rel') /\ (i = 1 => Rel' = 1)
    BY <1>1, <1>2, <1>3, <1>6
  <2>2. Rel' = 1 \/ Rel' = 2 \/ Rel' = 3 \/ Rel' = 4
    BY <1>2, <1>6
  <2>3. \/ Rel' = 1 /\ Applies(QUERY_STATE, SCAN_PROCESSING)
        \/ Rel' = 2 /\ Applies(TOTAL_CLS, TotalCls(scan))
        \/ Rel' = 3 /\ Applies(FILTER_PREDICATE, scan)
        \/ Rel' = 4 /\ Applies(JOB_TYPE, ScanType[scan])
    BY <1>1, <2>1, <2>2, SetupIs, CsrIs DEF Applies
  <2> QED
    BY <1>1, <1>4, <2>1, <2>2, <2>3 DEF i
<1>7. CASE i - Base = 5 \/ i - Base = 6
  <2>1. \/ Rel' = 5 /\ hpc = "done" /\ Applies(QUERY_STATE, QUERY_DONE)
        \/ Rel' = 5 /\ hpc # "done" /\ InPart /\ Applies(COLUMN_ADDRESS, Buffer)
        \/ Rel' = 6 /\ InPart /\ Applies(RESULT_ADDRESS, Buffer)
    BY <1>2, <1>3, <1>7, CsrIs DEF Applies
  <2>2. i # 1
    BY <1>1, <1>2, <1>7
  <2> QED
    BY <1>1, <1>4, <2>1, <2>2 DEF i
<1> QED
  BY <1>1, <1>2, <1>3, <1>4, <1>5, <1>6, <1>7

LEMMA ActiveIs ==
  ASSUME ParamInv, Applied >= 1, ~(hpc = "done" /\ Rel = 5)
  PROVE  query_state = SCAN_PROCESSING /\ isActive
BY DEF ParamInv, isActive

LEMMA ParamEdge ==
  ASSUME PipeInv, QueueInv, ParamInv, CtrlInv, Advance, NEW rx, NEW full, Edge(rx, full)
  PROVE  ParamInv'
<1>1. /\ Base \in Nat /\ Base' = Base /\ Applied \in Nat /\ Applied' \in Nat
      /\ Rel = Applied - Base /\ Rel' = Applied' - Base
  BY RelIs DEF Advance, Rel
<1>2. /\ query_state' = IF Written(QUERY_STATE) THEN csr_wr.data ELSE query_state
      /\ held' = Bus
      /\ read_buff_address' = Latch(COLUMN_ADDRESS, read_buff_address, csr_wr.data)
      /\ write_buff_address' = Latch(RESULT_ADDRESS, write_buff_address, csr_wr.data)
      /\ total_cls' = Latch(TOTAL_CLS, total_cls, csr_wr.data % 128)
      /\ filter_pred' = Latch(FILTER_PREDICATE, filter_pred, csr_wr.data)
      /\ scan_column' = Latch(JOB_TYPE, scan_column, csr_wr.data % 4)
  BY DEF Edge, Clock, QueryState, MemoryPorts, Parameters
<1>3. hpc' = hpc /\ scan' = scan /\ Buffer' = Buffer /\ (InPart' <=> InPart)
  BY DEF Advance, hostVars
<1>4. query_state' \in {SCAN_PROCESSING, QUERY_DONE} /\ QUERY_DONE # SCAN_PROCESSING
  <2>1. CASE csr_wr = None
    BY <1>2, <2>1 DEF Written, ParamInv, QUERY_DONE, SCAN_PROCESSING
  <2>2. CASE csr_wr # None
    BY <1>2, <2>2, WriteIs DEF Written, Applies, ParamInv, QUERY_DONE, SCAN_PROCESSING,
       QUERY_STATE, TOTAL_CLS, FILTER_PREDICATE, JOB_TYPE, COLUMN_ADDRESS, RESULT_ADDRESS
  <2> QED
    BY <2>1, <2>2
\* The latches hold nothing when they close.
<1>5. query_state' = QUERY_DONE => held' = [c0 |-> None, c1 |-> None]
  <2> SUFFICES ASSUME query_state' = QUERY_DONE PROVE Bus = [c0 |-> None, c1 |-> None]
    BY <1>2
  <2>1. CASE query_state = QUERY_DONE
    BY <2>1, <1>4 DEF ParamInv, Bus
  <2>2. CASE query_state = SCAN_PROCESSING
    <3>1. csr_wr # None /\ hpc = "done"
      BY <1>2, <1>4, <2>2, WriteIs DEF Written, Applies, QUERY_DONE, SCAN_PROCESSING,
         QUERY_STATE, TOTAL_CLS, FILTER_PREDICATE, JOB_TYPE, COLUMN_ADDRESS, RESULT_ADDRESS
    <3>2. state = "waiting"
      BY <3>1 DEF CtrlInv, ReadyInv, InPart
    <3>3. c0 = None /\ c1 = None
      BY <3>2 DEF CtrlInv, PortInv, UnitInv
    <3> QED
      BY <2>2, <3>3 DEF Bus
  <2> QED
    BY <2>1, <2>2 DEF ParamInv
<1>6. CASE csr_wr = None
  <2>1. UNCHANGED <<query_state, read_buff_address, write_buff_address, total_cls,
                    filter_pred, scan_column>>
    BY <1>2, <1>6 DEF Latch, Written
  <2>2. \/ Rel' = Rel /\ Applied' = Applied
        \/ Rel' = 7 /\ Rel = 6 /\ Applied >= 1
    <3>1. Applied' = Applied \/ (Applied' = Applied + 1 /\ Rel' = 7)
      BY <1>6 DEF Advance
    <3>2. ASSUME NEW a \in Nat, NEW b \in Nat, a + 1 - b = 7
          PROVE  a - b = 6 /\ a >= 1
      BY <3>2
    <3>3. CASE Applied' = Applied
      BY <1>1, <3>3
    <3>4. CASE Applied' = Applied + 1 /\ Rel' = 7
      <4>1. Applied + 1 - Base = 7
        BY <1>1, <3>4
      <4> QED
        BY <1>1, <3>2, <3>4, <4>1
    <3> QED
      BY <3>1, <3>3, <3>4
  <2>3. (Applied' >= 1 \/ (scan > 1 /\ Base = 0)) /\ ~(hpc = "done" /\ Rel' = 5)
          => query_state = SCAN_PROCESSING
    BY <1>1, <2>2 DEF ParamInv
  <2>4. /\ Rel' >= 2 => total_cls = TotalCls(scan)
        /\ Rel' >= 3 => filter_pred = scan
        /\ Rel' >= 4 => scan_column = ScanType[scan]
        /\ Rel' >= 5 /\ hpc # "done" => read_buff_address = Buffer
        /\ Rel' >= 6 => write_buff_address = Buffer
    BY <2>2 DEF ParamInv
  <2> QED
    BY <1>1, <1>3, <1>4, <1>5, <2>1, <2>3, <2>4 DEF ParamInv
<1>7. CASE csr_wr # None
  <2> USE <1>7
  <2>2. TotalCls(scan) % 128 = TotalCls(scan) /\ ScanType[scan] % 4 = ScanType[scan]
    BY ScanIs
  <2>3. Rel' >= 2 => isActive
    <3>1. Rel' >= 2 => Rel' = Rel + 1 /\ Applied >= 1 /\ ~(hpc = "done" /\ Rel = 5)
      BY <1>1, WriteIs DEF InPart
    <3> QED
      BY <3>1, ActiveIs
  <2>4. Rel' >= 2 => total_cls' = TotalCls(scan)
    BY <1>1, <1>2, <1>3, <2>2, <2>3, WriteIs DEF Latch, Written, Applies, ParamInv,
       QUERY_STATE, TOTAL_CLS, FILTER_PREDICATE, JOB_TYPE, COLUMN_ADDRESS, RESULT_ADDRESS
  <2>5. Rel' >= 3 => filter_pred' = scan
    BY <1>1, <1>2, <1>3, <2>2, <2>3, WriteIs DEF Latch, Written, Applies, ParamInv,
       QUERY_STATE, TOTAL_CLS, FILTER_PREDICATE, JOB_TYPE, COLUMN_ADDRESS, RESULT_ADDRESS
  <2>6. Rel' >= 4 => scan_column' = ScanType[scan]
    BY <1>1, <1>2, <1>3, <2>2, <2>3, WriteIs DEF Latch, Written, Applies, ParamInv,
       QUERY_STATE, TOTAL_CLS, FILTER_PREDICATE, JOB_TYPE, COLUMN_ADDRESS, RESULT_ADDRESS
  <2>7. Rel' >= 5 /\ hpc # "done" => read_buff_address' = Buffer
    BY <1>1, <1>2, <1>3, <2>2, <2>3, WriteIs DEF Latch, Written, Applies, ParamInv,
       QUERY_STATE, TOTAL_CLS, FILTER_PREDICATE, JOB_TYPE, COLUMN_ADDRESS, RESULT_ADDRESS
  <2>8. Rel' >= 6 => write_buff_address' = Buffer
    BY <1>1, <1>2, <1>3, <2>2, <2>3, WriteIs DEF Latch, Written, Applies, ParamInv,
       QUERY_STATE, TOTAL_CLS, FILTER_PREDICATE, JOB_TYPE, COLUMN_ADDRESS, RESULT_ADDRESS
  <2>9. (Applied' >= 1 \/ (scan > 1 /\ Base = 0)) /\ ~(hpc = "done" /\ Rel' = 5)
          => query_state' = SCAN_PROCESSING
    BY <1>1, <1>2, <1>3, WriteIs DEF Written, Applies, ParamInv, InPart,
       QUERY_STATE, TOTAL_CLS, FILTER_PREDICATE, JOB_TYPE, COLUMN_ADDRESS, RESULT_ADDRESS
  <2> QED
    BY <1>1, <1>3, <1>4, <1>5, <2>4, <2>5, <2>6, <2>7, <2>8, <2>9 DEF ParamInv
<1> QED
  BY <1>6, <1>7

-----------------------------------------------------------------------------
(* What a clock edge does to the scan unit. *)

LEMMA AdvanceIs ==
  ASSUME PipeInv, QueueInv, Advance
  PROVE  /\ Rel \in Int /\ Rel' \in Int /\ Applied \in Nat /\ (Rel >= 1 => Applied >= 1)
         /\ csr_wr = None => Rel' = Rel \/ (Rel = 6 /\ Rel' = 7)
         /\ csr_wr # None => Rel' = Rel + 1
<1>1. /\ Base \in Nat /\ Base' = Base /\ Applied \in Nat /\ Applied' \in Nat
      /\ csr_wr = None => Applied' = Applied \/ (Applied' = Applied + 1 /\ Rel' = 7)
  BY RelIs DEF Advance
<1>2. Rel = Applied - Base /\ Rel' = Applied' - Base
  BY <1>1 DEF Rel
<1>3. ASSUME NEW a \in Nat, NEW b \in Nat
      PROVE  a - b \in Int /\ (a - b >= 1 => a >= 1) /\ (a + 1 - b = 7 => a - b = 6)
  OBVIOUS
<1>4. Rel \in Int /\ Rel' \in Int /\ (Rel >= 1 => Applied >= 1)
  BY <1>1, <1>2, <1>3
<1>5. ASSUME csr_wr = None PROVE Rel' = Rel \/ (Rel = 6 /\ Rel' = 7)
  <2>1. CASE Applied' = Applied
    BY <1>2, <2>1
  <2>2. CASE Applied' = Applied + 1 /\ Rel' = 7
    <3>1. Applied' - Base = 7
      BY <1>1, <1>2, <2>2
    <3>2. Applied + 1 - Base = 7
      BY <1>1, <2>2, <3>1
    <3> QED
      BY <1>1, <1>2, <1>3, <2>2, <3>2
  <2> QED
    BY <1>1, <1>5, <2>1, <2>2
<1>6. csr_wr # None => Rel' = Rel + 1
  BY WriteIs
<1> QED
  BY <1>1, <1>4, <1>5, <1>6

\* While it is at work its parameters are the host's, and stay.
LEMMA BusyIs ==
  ASSUME PipeInv, QueueInv, ParamInv, CtrlInv, state # "waiting"
  PROVE  /\ InPart /\ Rel >= 5 /\ hpc # "done" /\ Rel \in Int /\ Applied >= 1
         /\ isActive /\ query_state = SCAN_PROCESSING
         /\ total_cls = TotalCls(scan) /\ scan_column = ScanType[scan]
         /\ read_buff_address = Buffer /\ part \in PartId(scan)
<1>1. InPart /\ Rel >= 5 /\ hpc # "done"
  BY DEF CtrlInv, ReadyInv, InPart
<1>2. Applied \in Int /\ Base \in Nat /\ Rel = Applied - Base
  <2>1. Arrived \in Nat
    BY IssuedIs
  <2> QED
    BY <2>1, RelIs DEF Applied, Rel
<1>3. Applied >= 1
  BY <1>1, <1>2
<1>4. isActive /\ query_state = SCAN_PROCESSING
  BY <1>1, <1>3, ActiveIs
<1>5. total_cls = TotalCls(scan) /\ scan_column = ScanType[scan] /\ read_buff_address = Buffer
  BY <1>1, <1>2 DEF ParamInv
<1>6. part \in PartId(scan)
  BY <1>1, BufferIs
<1> QED
  BY <1>1, <1>2, <1>3, <1>4, <1>5, <1>6

\* The bus carries what the unit offers, whatever the query state.
LEMMA BusIs ==
  ASSUME PipeInv, QueueInv, ParamInv, CtrlInv
  PROVE  Bus = [c0 |-> c0, c1 |-> c1]
<1>1. CASE query_state = SCAN_PROCESSING
  BY <1>1 DEF Bus
<1>2. CASE query_state = QUERY_DONE
  <2>1. state = "waiting"
    BY <1>2, BusyIs DEF QUERY_DONE, SCAN_PROCESSING
  <2>2. c0 = None /\ c1 = None
    BY <2>1 DEF CtrlInv, PortInv, UnitInv
  <2>3. held = [c0 |-> None, c1 |-> None]
    BY <1>2 DEF ParamInv
  <2> QED
    BY <1>2, <2>2, <2>3 DEF Bus, QUERY_DONE, SCAN_PROCESSING
<1> QED
  BY <1>1, <1>2 DEF ParamInv

LEMMA FetchedIs ==
  ASSUME PipeInv, QueueInv, ParamInv, CtrlInv, state \in {"req", "rsp", "processing"}
  PROVE  /\ Fetched = <<Buffer, total_cls_processed>> /\ Fetched \in Line
         /\ total_cls_processed \in 0 .. TotalCls(scan) - 1
<1>1. /\ total_cls = TotalCls(scan) /\ read_buff_address = Buffer /\ part \in PartId(scan)
      /\ scan \in Scan /\ TotalCls(scan) \in 1 .. PageLines
  BY BusyIs, ScanIs
<1>2. total_cls_processed \in Nat /\ total_cls_processed < total_cls
  BY DEF CtrlInv, CountInv, UnitInv
<1>3. PageLines \in Nat
  BY FpgaScanAssumption
<1>4. total_cls_processed \in 0 .. PageLines - 1 /\ total_cls_processed \in 0 .. TotalCls(scan) - 1
  BY <1>1, <1>2, <1>3
<1>5. <<Buffer, total_cls_processed>> \in Line
  BY <1>1, <1>4, LinesAre DEF Buffer
<1> QED
  BY <1>1, <1>4, <1>5 DEF Fetched, LineOf

IsRsp(rx) == rx # None /\ rx.op = "rsp"

\* Memory answers only what was asked for last.
LEMMA DeliveredIs ==
  ASSUME PipeInv, QueueInv, ParamInv, CtrlInv, NEW rx, NEW full, Edge(rx, full)
  PROVE  /\ \/ ~IsRsp(rx) /\ reading' = reading \cup Requested
            \/ /\ IsRsp(rx) /\ reading = {Fetched} /\ rx.line = Fetched /\ reading' = Requested
               /\ kept' => ~ResultAddressPending
         /\ Requested = IF c0 # None THEN {c0} ELSE {}
<1>1. Requested = IF c0 # None THEN {c0} ELSE {}
  BY BusIs DEF Requested
<1>2. CASE rx = None /\ reading' = reading \cup Requested
  BY <1>1, <1>2 DEF IsRsp
<1>3. CASE mmio # <<>> /\ rx = Head(mmio) /\ reading' = reading \cup Requested
  <2>1. Len(mmio) \in Nat /\ Arrived = Issued - Len(mmio) /\ Issued \in Nat /\ Arrived \in Nat
    BY IssuedIs
  <2>2. Len(mmio) >= 1 /\ Head(mmio) = mmio[1]
    BY <1>3 DEF PipeInv
  <2>3. mmio[1] = Prog(Arrived + 1)
    BY <2>1, <2>2 DEF PipeInv
  <2>4. Arrived + 1 \in 1 .. Issued
    BY <2>1, <2>2
  <2>5. rx.op \in {"read", "write"}
    BY <1>3, <2>2, <2>3, <2>4, StoreIs
  <2> QED
    BY <1>1, <1>3, <2>5 DEF IsRsp
<1>4. CASE \E line \in reading :
             /\ rx = ReadRsp(line) /\ reading' = (reading \ {line}) \cup Requested
             /\ kept' => ~ResultAddressPending
  <2>1. PICK line \in reading :
             /\ rx = ReadRsp(line) /\ reading' = (reading \ {line}) \cup Requested
             /\ kept' => ~ResultAddressPending
    BY <1>4
  <2>2. reading = {Fetched} /\ line = Fetched /\ state = "rsp"
    BY DEF CtrlInv, PortInv
  <2>3. ReadRsp(Fetched) # None
    BY <2>2, FetchedIs, NoneAssumption
  <2>4. rx # None /\ rx.op = "rsp" /\ rx.line = Fetched
    BY <2>1, <2>2, <2>3, CsrIs
  <2> QED
    BY <1>1, <2>1, <2>2, <2>4 DEF IsRsp
<1> QED
  BY <1>2, <1>3, <1>4 DEF Edge, Delivers

\* The answer to the host's poll passes the CSR manager.
LEMMA AnswerIs ==
  ASSUME PipeInv', Advance, NEW rx, NEW full, Edge(rx, full), c2' = TRUE \/ answer' = TRUE
  PROVE  Rel' = 7 /\ (partition_processed = TRUE \/ c2 = TRUE \/ answer = TRUE)
<1>1. TRUE # None
  BY NoneAssumption
<1>2. mmio' = <<>> /\ csr_rx' = None /\ csr_wr' = None /\ hpc' = "answer"
  BY <1>1 DEF PipeInv, PipeEmpty
<1>3. Base' = Base /\ Issued' = Base + 7 /\ Base \in Nat
  BY <1>2, BaseIs, PlaceIs DEF Advance, Issued
<1>4. Arrived' = Issued' - 0
  BY <1>2 DEF Arrived
<1>5. Applied' = Arrived' /\ Rel' = Applied' - Base'
  BY <1>2 DEF Applied, Rel
<1>6. Rel' = 7
  BY <1>3, <1>4, <1>5
<1>7. /\ c2' = IF csr_rx # None /\ csr_rx.op = "read"
               THEN csr_rx.csr = PARTITION_PROCESSED /\ partition_processed ELSE None
      /\ answer' = IF c2 # None THEN c2 ELSE answer
  BY DEF Edge, Clock, CsrMgr, Ports
<1> QED
  BY <1>1, <1>6, <1>7

LEMMA WaitingEdge ==
  ASSUME PipeInv, QueueInv, ParamInv, CtrlInv, Advance, PipeInv', ParamInv',
         NEW rx, NEW full, Edge(rx, full), state = "waiting"
  PROVE  CtrlInv'
<1>1. /\ c0 = None /\ c1 = None /\ ~cl_received /\ ~cl_req_issued /\ cl_received \in BOOLEAN
      /\ cl_req_issued \in BOOLEAN /\ reading = {} /\ cl_processed = {}
      /\ new_partition_ready \in BOOLEAN /\ partition_processed \in BOOLEAN
      /\ cl_req_allowed \in BOOLEAN /\ total_cls_processed \in Nat
      /\ new_partition_ready => Rel = 5 /\ csr_wr = None /\ InPart
      /\ c2 = TRUE \/ answer = TRUE => partition_processed
  BY DEF CtrlInv, UnitInv, PortInv, ReadyInv
<1>2. ~LineDone /\ c1' = None /\ UNCHANGED <<c0, cl_req_issued, cl_received>> /\ cl_processed' = {}
  BY <1>1 DEF LineDone, Edge, Clock, WriteRequest, ReadRequest, ReadResponse, FilterUnits
<1>3. reading' = {}
  BY <1>1, DeliveredIs
<1>4. new_partition_ready' = IF isActive THEN Written(COLUMN_ADDRESS) ELSE new_partition_ready
  BY DEF Edge, Clock, Parameters
<1>5. hpc' = hpc /\ (InPart' <=> InPart) /\ scan' = scan
  BY DEF Advance, hostVars
<1>6. /\ Rel \in Int /\ Rel' \in Int /\ Applied \in Nat /\ (Rel >= 1 => Applied >= 1)
      /\ csr_wr = None => Rel' = Rel \/ (Rel = 6 /\ Rel' = 7)
      /\ csr_wr # None => Rel' = Rel + 1
  BY AdvanceIs
\* A new address makes the unit ready, and is the only thing that does.
<1>7. Written(COLUMN_ADDRESS) =>
        Rel' = 5 /\ Rel = 4 /\ InPart /\ csr_wr' = None /\ ~new_partition_ready /\ isActive
  <2> SUFFICES ASSUME csr_wr # None, csr_wr.csr = COLUMN_ADDRESS
               PROVE  Rel' = 5 /\ Rel = 4 /\ InPart /\ csr_wr' = None /\ ~new_partition_ready
                      /\ isActive
    BY DEF Written
  <2>1. Rel' = 5 /\ InPart
    BY WriteIs DEF Applies, QUERY_STATE, TOTAL_CLS, FILTER_PREDICATE, JOB_TYPE, COLUMN_ADDRESS,
                   RESULT_ADDRESS
  <2>2. csr_wr' = None
    BY DEF Advance, Edge, Clock, CsrMgr
  <2>3. Rel = 4 /\ Applied >= 1
    BY <1>6, <2>1
  <2> QED
    BY <1>1, <2>1, <2>2, <2>3, ActiveIs
<1>8. c2' = TRUE \/ answer' = TRUE => Rel' = 7 /\ partition_processed
  BY <1>1, AnswerIs
<1>9. CASE new_partition_ready
  <2>1. cl_req_allowed' = TRUE /\ partition_processed' = FALSE /\ total_cls_processed' = 0
    BY <1>9 DEF Edge, Clock, Progress
  <2>8. state' = "idle"
    BY <1>9 DEF Edge, Clock, StateMachine
  <2>2. Rel = 5 /\ Rel' = 5 /\ InPart /\ isActive /\ new_partition_ready' = FALSE
    <3>1. Rel = 5 /\ Rel' = 5 /\ InPart /\ csr_wr = None
      BY <1>1, <1>6, <1>9
    <3>2. isActive
      BY <1>6, <3>1, ActiveIs DEF InPart
    <3> QED
      BY <1>4, <3>1, <3>2 DEF Written
  <2>3. total_cls' = TotalCls(scan) /\ TotalCls(scan) \in 1 .. 127
    BY <1>5, <2>2, ScanIs DEF ParamInv
  <2>4. UnitInv'
    BY <1>1, <1>2, <2>1, <2>2, <2>8 DEF UnitInv
  <2>5. PortInv'
    BY <1>1, <1>2, <1>3, <2>8 DEF PortInv
  <2>6. CountInv'
    BY <2>1, <2>3, <2>8 DEF CountInv
  <2>7. ReadyInv'
    BY <1>5, <1>8, <2>1, <2>2, <2>8 DEF ReadyInv
  <2> QED
    BY <2>4, <2>5, <2>6, <2>7 DEF CtrlInv
<1>10. CASE ~new_partition_ready
  <2>1. /\ state' = "waiting" /\ total_cls_processed' = 0
        /\ UNCHANGED <<cl_req_allowed, partition_processed>>
    BY <1>2, <1>10 DEF Edge, Clock, StateMachine, Progress, LineDone
  <2>2. new_partition_ready' \in BOOLEAN
        /\ (new_partition_ready' => Rel' = 5 /\ InPart /\ csr_wr' = None)
    BY <1>1, <1>4, <1>7, <1>10 DEF Written
  <2>3. Rel' >= 5 /\ hpc # "done" /\ ~new_partition_ready' => partition_processed
    <3> SUFFICES ASSUME Rel' >= 5, hpc # "done", ~new_partition_ready' PROVE partition_processed
      OBVIOUS
    <3>1. ~Written(COLUMN_ADDRESS)
      BY <1>4, <1>7
    <3>2. Rel' # 5 \/ Rel = 5
      <4>1. CASE csr_wr = None
        BY <1>6, <4>1
      <4>2. CASE csr_wr # None
        BY <1>6, <3>1, <4>2, WriteIs DEF Written, Applies
      <4> QED
        BY <4>1, <4>2
    <3>3. Rel >= 5
      BY <1>6, <3>2
    <3> QED
      BY <1>10, <3>3 DEF CtrlInv, ReadyInv
  <2>4. UnitInv'
    BY <1>1, <1>2, <2>1, <2>2 DEF UnitInv
  <2>5. PortInv'
    BY <1>1, <1>2, <1>3, <2>1 DEF PortInv
  <2>6. CountInv'
    BY <2>1 DEF CountInv
  <2>7. ReadyInv'
    BY <1>5, <1>8, <2>1, <2>2, <2>3 DEF ReadyInv
  <2> QED
    BY <2>4, <2>5, <2>6, <2>7 DEF CtrlInv
<1> QED
  BY <1>1, <1>9, <1>10

LEMMA BusyEdge ==
  ASSUME PipeInv, QueueInv, ParamInv, CtrlInv, Advance, PipeInv', ParamInv',
         NEW rx, NEW full, Edge(rx, full), state # "waiting"
  PROVE  /\ InPart' /\ Rel' >= 5 /\ Rel' \in Int
         /\ new_partition_ready = FALSE /\ new_partition_ready' = FALSE
         /\ UNCHANGED <<total_cls, scan_column, read_buff_address, filter_pred, scan, hpc>>
         /\ Buffer' = Buffer
         /\ c2' = TRUE \/ answer' = TRUE => partition_processed = TRUE
<1>1. /\ InPart /\ Rel >= 5 /\ Rel \in Int /\ isActive
      /\ total_cls = TotalCls(scan) /\ scan_column = ScanType[scan] /\ read_buff_address = Buffer
  BY BusyIs
<1>2. /\ Rel' \in Int
      /\ csr_wr = None => Rel' = Rel \/ (Rel = 6 /\ Rel' = 7)
      /\ csr_wr # None => Rel' = Rel + 1
  BY AdvanceIs
<1>3. Rel' >= 5
  BY <1>1, <1>2
<1>4. hpc' = hpc /\ scan' = scan /\ Buffer' = Buffer /\ (InPart' <=> InPart)
  BY DEF Advance, hostVars
<1>5. /\ total_cls' = TotalCls(scan) /\ scan_column' = ScanType[scan]
      /\ filter_pred = scan /\ filter_pred' = scan
  BY <1>1, <1>2, <1>3, <1>4 DEF ParamInv
<1>6. read_buff_address' = Buffer
  BY <1>1, <1>3, <1>4 DEF ParamInv, InPart
<1>7. ~Written(COLUMN_ADDRESS)
  <2>1. CASE csr_wr # None
    <3>1. Rel' = Rel + 1
      BY <1>2, <2>1
    <3>2. Rel' = 6
      BY <1>1, <3>1, <2>1, WriteIs
    <3> QED
      BY <3>2, <2>1, WriteIs DEF Written, Applies, COLUMN_ADDRESS, RESULT_ADDRESS
  <2> QED
    BY <2>1 DEF Written
<1>8. new_partition_ready = FALSE /\ new_partition_ready' = FALSE
  <2>1. new_partition_ready \in BOOLEAN /\ ~new_partition_ready
    BY DEF CtrlInv, UnitInv, ReadyInv
  <2>2. new_partition_ready' = IF isActive THEN Written(COLUMN_ADDRESS) ELSE new_partition_ready
    BY DEF Edge, Clock, Parameters
  <2> QED
    BY <1>1, <1>7, <2>1, <2>2
<1>9. c2' = TRUE \/ answer' = TRUE => partition_processed = TRUE
  BY AnswerIs DEF CtrlInv, ReadyInv
<1> QED
  BY <1>1, <1>2, <1>3, <1>4, <1>5, <1>6, <1>8, <1>9

\* The unit's own registers, as the edge sees them when the unit is at work.
LEMMA UnitEdge ==
  ASSUME PipeInv, QueueInv, ParamInv, CtrlInv, Advance, PipeInv', ParamInv',
         NEW rx, NEW full, Edge(rx, full), state # "waiting"
  PROVE  CtrlInv'
<1>1. /\ InPart' /\ Rel' >= 5 /\ Rel' \in Int
      /\ new_partition_ready = FALSE /\ new_partition_ready' = FALSE
      /\ UNCHANGED <<total_cls, scan_column, read_buff_address, scan, hpc>>
      /\ c2' = TRUE \/ answer' = TRUE => partition_processed = TRUE
  BY BusyEdge
<1>2. /\ cl_req_issued \in BOOLEAN /\ cl_received \in BOOLEAN /\ partition_processed \in BOOLEAN
      /\ cl_req_allowed \in BOOLEAN /\ total_cls_processed \in Nat
      /\ state \in {"idle", "req", "rsp", "processing"}
  BY DEF CtrlInv, UnitInv
<1>3. total_cls \in Nat /\ scan_column \in FilterUnit
  BY BusyIs, ScanIs DEF FilterUnit
<1>4. hpc # "done" /\ hpc' # "done"
  BY <1>1 DEF InPart
\* ReadyInv needs only the flag, and that the unit stops with a full count.
<1>5. ASSUME state' = "waiting" => partition_processed' = TRUE /\ total_cls_processed' = total_cls,
             partition_processed = TRUE => state' = "waiting"
      PROVE  ReadyInv'
  BY <1>1, <1>5 DEF ReadyInv
<1>6. CASE state = "idle"
  <2>1. /\ c0 = None /\ ~cl_req_issued /\ ~cl_received /\ reading = {}
        /\ partition_processed <=> total_cls_processed = total_cls
        /\ cl_req_allowed <=> total_cls_processed < total_cls
        /\ total_cls_processed <= total_cls
    BY <1>6 DEF CtrlInv, PortInv, CountInv
  <2>2. /\ UNCHANGED <<cl_req_allowed, partition_processed, total_cls_processed>>
        /\ UNCHANGED <<c0, cl_req_issued, cl_received>>
        /\ cl_processed' = {} /\ c1' = None
    <3>1. UNCHANGED <<cl_req_allowed, partition_processed, total_cls_processed>>
      BY <1>1, <1>6 DEF Edge, Clock, Progress, LineDone
    <3>2. UNCHANGED <<c0, cl_req_issued, cl_received>>
      BY <1>6 DEF Edge, Clock, ReadRequest, ReadResponse
    <3>3. cl_processed' = {} /\ c1' = None
      BY <1>6 DEF Edge, Clock, FilterUnits, WriteRequest, LineDone
    <3> QED
      BY <3>1, <3>2, <3>3
  <2>3. state' = IF cl_req_allowed THEN "req" ELSE "waiting"
    <3>1. /\ cl_req_allowed <=> partition_processed = FALSE
          /\ partition_processed = TRUE <=> total_cls_processed = total_cls
      BY <1>2, <1>3, <2>1
    <3>2. state' = CASE cl_req_allowed -> "req"
                     [] ~cl_req_allowed /\ partition_processed -> "waiting"
                     [] OTHER -> state
      BY <1>6 DEF Edge, Clock, StateMachine, LineDone
    <3> QED
      BY <1>2, <3>1, <3>2
  <2>9. /\ cl_req_allowed <=> partition_processed = FALSE
        /\ partition_processed = TRUE <=> total_cls_processed = total_cls
    BY <1>2, <1>3, <2>1
  <2>4. reading' = {}
    BY <2>1, DeliveredIs
  <2>5. UnitInv'
    BY <1>1, <1>2, <2>2, <2>3 DEF UnitInv
  <2>6. PortInv'
    BY <2>1, <2>2, <2>3, <2>4 DEF PortInv
  <2>7. CountInv'
    BY <1>1, <1>2, <1>3, <2>1, <2>2, <2>3 DEF CountInv
  <2>8. ReadyInv'
    <3>1. state' = "waiting" => partition_processed' = TRUE /\ total_cls_processed' = total_cls
      BY <1>2, <2>2, <2>3, <2>9
    <3>2. partition_processed = TRUE => state' = "waiting"
      BY <2>3, <2>9
    <3> QED
      BY <1>5, <3>1, <3>2
  <2> QED
    BY <2>5, <2>6, <2>7, <2>8 DEF CtrlInv
<1>10. ASSUME state \in {"req", "rsp", "processing"}
       PROVE  total_cls_processed < total_cls /\ partition_processed = FALSE
  BY <1>2, <1>10 DEF CtrlInv, CountInv
<1>11. ASSUME state \in {"req", "rsp", "processing"}, ~LineDone
       PROVE  UNCHANGED <<cl_req_allowed, partition_processed, total_cls_processed>> /\ c1' = None
  <2>1. UNCHANGED <<cl_req_allowed, partition_processed, total_cls_processed>>
    BY <1>1, <1>11 DEF Edge, Clock, Progress
  <2> QED
    BY <1>11, <2>1 DEF Edge, Clock, WriteRequest
<1>12. ASSUME state \in {"req", "rsp", "processing"}, ~LineDone,
              state' \in {"req", "rsp", "processing"}
       PROVE  CountInv' /\ ReadyInv'
  <2>1. total_cls_processed < total_cls /\ partition_processed = FALSE
    BY <1>10, <1>12
  <2>2. partition_processed' = partition_processed /\ total_cls_processed' = total_cls_processed
    BY <1>11, <1>12
  <2>3. partition_processed' = FALSE /\ total_cls_processed' < total_cls' /\ total_cls_processed' \in Nat
    BY <1>1, <1>2, <2>1, <2>2
  <2>4. total_cls' \in Nat
    BY <1>1, <1>3
  <2>5. CountInv'
    BY <1>12, <2>3, <2>4 DEF CountInv
  <2> QED
    BY <1>5, <1>12, <2>1, <2>5
<1>7. CASE state = "req"
  <2>1. /\ ~cl_received /\ reading = {} /\ cl_processed = {} /\ ~LineDone
        /\ c0 # None => cl_req_issued /\ c0 = Fetched
    BY <1>7 DEF CtrlInv, PortInv, LineDone
  <2>2. /\ cl_processed' = {} /\ c1' = None /\ Fetched' = Fetched
        /\ UNCHANGED <<cl_req_allowed, partition_processed, total_cls_processed, cl_received>>
    <3>1. cl_processed' = {}
      BY <1>7, <2>1 DEF Edge, Clock, FilterUnits
    <3>2. cl_received' = cl_received
      BY <1>7 DEF Edge, Clock, ReadResponse
    <3> QED
      BY <1>1, <1>7, <1>11, <2>1, <3>1, <3>2 DEF Fetched, LineOf
  <2>3. /\ cl_req_issued' = (~full /\ ~cl_req_issued)
        /\ c0' = IF ~full /\ ~cl_req_issued THEN Fetched ELSE None
    BY <1>7 DEF Edge, Clock, ReadRequest, Fetched
  <2>4. state' = IF cl_req_issued THEN "rsp" ELSE "req"
    BY <1>7, <2>1 DEF Edge, Clock, StateMachine
  <2>5. reading' \subseteq {Fetched} /\ (reading' # {} => cl_req_issued /\ reading' = {Fetched})
    <3>1. reading' = IF c0 # None THEN {c0} ELSE {}
      BY <2>1, DeliveredIs
    <3> QED
      BY <2>1, <3>1
  <2>6. UnitInv'
    BY <1>1, <1>2, <2>2, <2>3, <2>4 DEF UnitInv
  <2>7. PortInv'
    BY <2>1, <2>2, <2>3, <2>4, <2>5 DEF PortInv
  <2> QED
    BY <1>7, <1>12, <2>1, <2>4, <2>6, <2>7 DEF CtrlInv
<1>8. CASE state = "rsp"
  <2>1. /\ c0 = None /\ cl_processed = {} /\ ~LineDone
        /\ reading # {} => ~cl_received /\ reading = {Fetched}
    BY <1>8 DEF CtrlInv, PortInv, LineDone
  <2>2. /\ cl_processed' = {} /\ c1' = None /\ Fetched' = Fetched
        /\ c0' = None /\ cl_req_issued' = FALSE /\ cl_received' = IsRsp(rx)
        /\ UNCHANGED <<cl_req_allowed, partition_processed, total_cls_processed>>
    <3>1. cl_processed' = {}
      BY <1>8, <2>1 DEF Edge, Clock, FilterUnits
    <3>2. cl_received' = IsRsp(rx)
      BY <1>8 DEF Edge, Clock, ReadResponse, IsRsp
    <3>3. c0' = None /\ cl_req_issued' = FALSE
      BY <1>8, <2>1 DEF Edge, Clock, ReadRequest
    <3> QED
      BY <1>1, <1>8, <1>11, <2>1, <3>1, <3>2, <3>3 DEF Fetched, LineOf
  <2>3. state' = IF cl_received THEN "processing" ELSE "rsp"
    BY <1>8, <2>1 DEF Edge, Clock, StateMachine
  <2>4. \/ ~IsRsp(rx) /\ reading' = reading
        \/ IsRsp(rx) /\ reading # {} /\ reading' = {}
    BY <2>1, DeliveredIs
  <2>5. cl_received' \in BOOLEAN /\ (cl_received' => state' = "rsp" /\ reading' = {})
    BY <2>1, <2>2, <2>3, <2>4 DEF IsRsp
  <2>6. UnitInv'
    BY <1>1, <1>2, <2>2, <2>3, <2>5 DEF UnitInv
  <2>7. PortInv'
    BY <2>1, <2>2, <2>3, <2>4, <2>5 DEF PortInv
  <2> QED
    BY <1>8, <1>12, <2>1, <2>3, <2>6, <2>7 DEF CtrlInv
<1>9. CASE state = "processing"
  <2>1. /\ c0 = None /\ ~cl_req_issued /\ reading = {} /\ cl_processed \subseteq {scan_column}
    BY <1>9 DEF CtrlInv, PortInv
  <2>2. /\ cl_processed' = {scan_column} /\ c0' = None /\ cl_received' = FALSE
        /\ cl_req_issued' = cl_req_issued
    <3>1. cl_processed' = cl_processed \cup {scan_column}
      BY <1>3, <1>9 DEF Edge, Clock, FilterUnits
    <3>2. cl_received' = FALSE /\ c0' = c0 /\ cl_req_issued' = cl_req_issued
      BY <1>9 DEF Edge, Clock, ReadResponse, ReadRequest
    <3> QED
      BY <2>1, <3>1, <3>2
  <2>3. reading' = {}
    BY <2>1, DeliveredIs
  <2>4. state' = IF LineDone THEN "idle" ELSE "processing"
    BY <1>9 DEF Edge, Clock, StateMachine, LineDone
  <2>5. CASE LineDone
    <3>1. /\ cl_req_allowed' = (total_cls_processed + 1 < total_cls)
          /\ partition_processed' = (total_cls_processed + 1 = total_cls)
          /\ total_cls_processed' = total_cls_processed + 1
      BY <1>1, <2>5 DEF Edge, Clock, Progress
    <3>6. state' = "idle" /\ total_cls_processed' \in Nat /\ total_cls' = total_cls
      BY <1>1, <1>2, <2>4, <2>5, <3>1
    <3>7. cl_req_allowed' \in BOOLEAN /\ partition_processed' \in BOOLEAN
      BY <3>1
    <3>8. cl_req_issued' \in BOOLEAN /\ cl_received' \in BOOLEAN /\ new_partition_ready' \in BOOLEAN
      BY <1>1, <1>2, <2>2
    <3>2. UnitInv'
      BY <3>6, <3>7, <3>8 DEF UnitInv
    <3>3. PortInv'
      BY <1>1, <2>1, <2>2, <2>3, <2>4, <2>5 DEF PortInv
    <3>9. total_cls_processed < total_cls
      BY <1>9, <1>10
    <3>4. CountInv'
      <4>1. total_cls_processed + 1 <= total_cls
        BY <1>2, <1>3, <3>9
      <4>2. /\ partition_processed' <=> total_cls_processed' = total_cls'
            /\ cl_req_allowed' <=> total_cls_processed' < total_cls'
        BY <3>1, <3>6
      <4> QED
        BY <3>1, <3>6, <4>1, <4>2 DEF CountInv
    <3>5. ReadyInv'
      <4>1. partition_processed = FALSE /\ state' # "waiting"
        BY <1>9, <1>10, <3>6
      <4> QED
        BY <1>5, <4>1
    <3> QED
      BY <3>2, <3>3, <3>4, <3>5 DEF CtrlInv
  <2>6. CASE ~LineDone
    <3>1. UNCHANGED <<cl_req_allowed, partition_processed, total_cls_processed>> /\ c1' = None
      BY <1>9, <1>11, <2>6
    <3>2. UnitInv'
      BY <1>1, <1>2, <2>2, <2>4, <2>6, <3>1 DEF UnitInv
    <3>3. PortInv'
      BY <1>1, <2>1, <2>2, <2>3, <2>4, <2>6, <3>1 DEF PortInv
    <3> QED
      BY <1>9, <1>12, <2>4, <2>6, <3>2, <3>3 DEF CtrlInv
  <2> QED
    BY <2>5, <2>6
<1> QED
  BY <1>2, <1>6, <1>7, <1>8, <1>9

LEMMA CtrlEdge ==
  ASSUME PipeInv, QueueInv, ParamInv, CtrlInv, Advance, PipeInv', ParamInv',
         NEW rx, NEW full, Edge(rx, full)
  PROVE  CtrlInv'
BY WaitingEdge, UnitEdge

-----------------------------------------------------------------------------
(* What a clock edge does to the results. *)

\* Between its address and the result address a partition has a store under way.
LEMMA PendingIs ==
  ASSUME PipeInv, QueueInv, InPart, Rel = 5, csr_wr = None, ~ResultAddressPending
  PROVE  FALSE
<1>1. /\ Base \in Nat /\ Place(hpc) \in 0 .. 7 /\ Issued \in Nat /\ Issued = Base + Place(hpc)
      /\ Len(mmio) \in Nat /\ Arrived = Issued - Len(mmio) /\ Arrived \in Nat
  BY IssuedIs
<1>2. hpc \in {"poll", "answer"} /\ csr_rx # WriteCSR(RESULT_ADDRESS, Buffer)
      /\ \A i \in 1 .. Len(mmio) : mmio[i] # WriteCSR(RESULT_ADDRESS, Buffer)
  BY DEF ResultAddressPending, InPart
<1>3. Issued >= Base + 6
  BY <1>1, <1>2, PlaceIs
<1>4. Applied = Base + 5
  <2>1. Applied \in Int /\ Rel = Applied - Base
    BY <1>1 DEF Rel, Applied
  <2> QED
    BY <1>1, <2>1
<1>5. \A i \in 1 .. Issued : i - Base = 6 => Prog(i) = WriteCSR(RESULT_ADDRESS, Buffer)
  BY StoreIs
<1>6. CASE csr_rx = None
  <2>1. Arrived = Base + 5
    BY <1>4, <1>6 DEF Applied
  <2>2. PICK i \in 1 .. Issued : i = Arrived + 1 /\ i - Base = 6
    BY <1>1, <1>3, <2>1
  <2>3. 1 \in 1 .. Len(mmio)
    BY <1>1, <1>3, <2>1
  <2>4. mmio[1] = Prog(i)
    BY <2>2, <2>3 DEF PipeInv
  <2>5. Prog(i) = WriteCSR(RESULT_ADDRESS, Buffer)
    BY <1>5, <2>2
  <2> QED
    BY <1>2, <2>3, <2>4, <2>5
<1>7. CASE csr_rx # None
  <2>1. Applied = Arrived - 1
    BY <1>7 DEF Applied
  <2>2. Arrived = Base + 6
    BY <1>1, <1>4, <2>1
  <2>3. Arrived \in 1 .. Issued /\ Arrived - Base = 6 /\ csr_rx = Prog(Arrived)
    BY <1>1, <1>3, <1>7, <2>2 DEF PipeInv
  <2> QED
    BY <1>2, <1>5, <2>3
<1> QED
  BY <1>6, <1>7

\* The lines that are done are lines of the partition.
LEMMA LinesDoneIs ==
  ASSUME PipeInv, QueueInv, ParamInv, CtrlInv
  PROVE  /\ LinesDone \in 0 .. TotalCls(scan)
         /\ LinesDone # 0 => InPart
         /\ state # "waiting" => LinesDone = total_cls_processed
<1>1. TotalCls(scan) \in Nat
  BY ScanIs
<1>2. CASE ~InPart \/ Rel < 5 \/ new_partition_ready
  <2>1. LinesDone = 0
    BY <1>2 DEF LinesDone
  <2>2. state = "waiting"
    <3> SUFFICES ASSUME state # "waiting" PROVE FALSE
      OBVIOUS
    <3>1. InPart /\ Rel >= 5 /\ Rel \in Int /\ ~new_partition_ready
      BY BusyIs DEF CtrlInv, ReadyInv
    <3> QED
      BY <1>2, <3>1
  <2> QED
    BY <1>1, <2>1, <2>2
<1>3. CASE ~(~InPart \/ Rel < 5 \/ new_partition_ready)
  <2>1. InPart /\ hpc # "done" /\ LinesDone = IF state = "waiting" THEN total_cls ELSE total_cls_processed
    BY <1>3 DEF LinesDone, InPart
  <2>2. Rel \in Int /\ Rel >= 5
    <3>1. Rel \in Int
      BY IssuedIs DEF Rel, Applied
    <3> QED
      BY <1>3, <3>1
  <2>3. total_cls = TotalCls(scan)
    BY <2>2 DEF ParamInv
  <2>4. total_cls_processed \in Nat /\ (state # "waiting" => total_cls_processed <= total_cls)
    BY DEF CtrlInv, UnitInv, CountInv
  <2> QED
    BY <1>1, <2>1, <2>3, <2>4
<1> QED
  BY <1>2, <1>3

LEMMA WritePresent ==
  ASSUME PipeInv, QueueInv, ParamInv, CtrlInv, NEW l \in 0 .. LinesDone - 1
  PROVE  <<Buffer, l>> \in Line /\ RightWrite(l) # None
<1>1. /\ LinesDone \in 0 .. TotalCls(scan) /\ (LinesDone # 0 => InPart) /\ scan \in Scan
      /\ TotalCls(scan) \in 1 .. PageLines
  BY LinesDoneIs, ScanIs
<1>2. LinesDone \in Nat /\ TotalCls(scan) \in Nat /\ PageLines \in Nat
      /\ LinesDone <= TotalCls(scan) /\ TotalCls(scan) <= PageLines
  BY <1>1, FpgaScanAssumption
<1>3. l \in 0 .. PageLines - 1 /\ LinesDone # 0
  BY <1>2
<1>4. part \in PartId(scan)
  BY <1>1, <1>3, BufferIs
<1>5. <<Buffer, l>> \in Line
  BY <1>1, <1>3, <1>4, LinesAre DEF Buffer
<1>6. None # [line |-> <<Buffer, l>>, bits |-> {<<ScanType[scan], <<Buffer, l>>, scan>>}]
  BY <1>1, <1>5, NoneAssumption
<1> QED
  BY <1>5, <1>6 DEF RightWrite, Right, Buffer

LEMMA LaterIs ==
  ASSUME PipeInv, QueueInv, Advance, Rel >= 6
  PROVE  Rel' >= 6
<1>1. /\ Rel \in Int
      /\ csr_wr = None => Rel' = Rel \/ (Rel = 6 /\ Rel' = 7)
      /\ csr_wr # None => Rel' = Rel + 1
  BY AdvanceIs
<1> QED
  BY <1>1

LEMMA RightWriteIs ==
  ASSUME Buffer' = Buffer, UNCHANGED <<scan, part>>, NEW l
  PROVE  RightWrite(l)' = RightWrite(l) /\ Right(scan, part, l)' = Right(scan, part, l)
BY DEF RightWrite, Right

\* The result of the line that is done, as the write port offers it.
LEMMA OfferIs ==
  ASSUME PipeInv, QueueInv, ParamInv, CtrlInv, UnitData, LineDone
  PROVE  /\ [line |-> LineOf(write_buff_address), bits |-> bit_result]
              = RightWrite(total_cls_processed)
         /\ LineOf(write_buff_address) = <<Buffer, total_cls_processed>>
<1>1. state = "processing" /\ cl_processed # {}
  BY DEF LineDone
<1>2. /\ scan_column = ScanType[scan] /\ Fetched = <<Buffer, total_cls_processed>>
      /\ cl_processed = {scan_column}
  BY <1>1, BusyIs, FetchedIs DEF CtrlInv, PortInv
<1>3. Rel >= 6 /\ Rel \in Int /\ bit_result = {<<u, Fetched, filter_pred>> : u \in cl_processed}
  BY <1>1, BusyIs DEF UnitData
<1>4. filter_pred = scan /\ write_buff_address = Buffer
  BY <1>3 DEF ParamInv
<1>5. bit_result = {<<ScanType[scan], <<Buffer, total_cls_processed>>, scan>>}
  BY <1>2, <1>3, <1>4
<1> QED
  BY <1>4, <1>5 DEF RightWrite, Right, LineOf, Buffer

LEMMA UnitDataEdge ==
  ASSUME PipeInv, QueueInv, ParamInv, CtrlInv, UnitData, Advance, PipeInv', ParamInv', CtrlInv',
         NEW rx, NEW full, Edge(rx, full), kept'
  PROVE  UnitData'
<1>1. CASE state = "waiting"
  <2>1. state' \in {"waiting", "idle"}
    BY <1>1 DEF Edge, Clock, StateMachine, LineDone
  <2>2. ~cl_received' /\ c1' = None
    <3>1. c1' = None
      BY <1>1 DEF Edge, Clock, WriteRequest, LineDone
    <3>2. ~cl_received'
      BY <2>1 DEF CtrlInv, PortInv
    <3> QED
      BY <3>1, <3>2
  <2> QED
    BY <2>1, <2>2 DEF UnitData
<1>2. CASE state # "waiting"
  <2>1. /\ Rel \in Int /\ Rel >= 5 /\ Rel' \in Int /\ Rel' >= 5 /\ InPart
        /\ UNCHANGED <<total_cls, scan_column, read_buff_address, filter_pred, scan, hpc>>
        /\ Buffer' = Buffer /\ new_partition_ready = FALSE
    BY <1>2, BusyIs, BusyEdge
  <2>2. state \in {"idle", "req", "rsp", "processing"} /\ total_cls_processed \in Nat
    BY <1>2 DEF CtrlInv, UnitInv
  <2>3. ~LineDone => UNCHANGED total_cls_processed /\ c1' = None
    <3>1. ~LineDone => UNCHANGED total_cls_processed
      BY <1>2, <2>1 DEF Edge, Clock, Progress
    <3> QED
      BY <3>1 DEF Edge, Clock, WriteRequest
  <2>4. UNCHANGED total_cls_processed => Fetched' = Fetched
    BY <2>1 DEF Fetched, LineOf
  <2>5. rsp_data' = IF state = "rsp" /\ IsRsp(rx) THEN rx.line ELSE rsp_data
    BY DEF Edge, Clock, ReadResponse, IsRsp
  <2>6. CASE state = "idle"
    <3>1. bit_result' = {} /\ ~LineDone
      BY <2>6 DEF Edge, Clock, FilterUnits, LineDone
    <3>2. state' \in {"idle", "req", "waiting"}
      BY <2>6 DEF Edge, Clock, StateMachine, LineDone
    <3>3. ~cl_received'
      <4>1. cl_received' = cl_received /\ ~cl_received
        BY <2>6 DEF Edge, Clock, ReadResponse, CtrlInv, PortInv
      <4> QED
        BY <4>1
    <3> QED
      BY <2>3, <3>1, <3>2, <3>3 DEF UnitData
  <2>7. CASE state = "req"
    <3>1. bit_result' = {} /\ ~LineDone
      <4>1. bit_result = {}
        BY <2>7 DEF UnitData
      <4> QED
        BY <2>7, <4>1 DEF Edge, Clock, FilterUnits, LineDone
    <3>2. state' \in {"req", "rsp"}
      BY <2>7 DEF Edge, Clock, StateMachine, LineDone
    <3>3. ~cl_received'
      <4>1. cl_received' = cl_received /\ ~cl_received
        BY <2>7 DEF Edge, Clock, ReadResponse, CtrlInv, PortInv
      <4> QED
        BY <4>1
    <3> QED
      BY <2>3, <3>1, <3>2, <3>3 DEF UnitData
  <2>8. CASE state = "rsp"
    <3>1. bit_result' = {} /\ ~LineDone /\ cl_processed' = {}
      <4>1. bit_result = {} /\ cl_processed = {}
        BY <2>8 DEF UnitData, CtrlInv, PortInv
      <4> QED
        BY <2>8, <4>1 DEF Edge, Clock, FilterUnits, LineDone
    <3>2. state' = (IF cl_received THEN "processing" ELSE "rsp") /\ cl_received' = IsRsp(rx)
      BY <2>8 DEF Edge, Clock, StateMachine, LineDone, ReadResponse, IsRsp
    <3>3. IsRsp(rx) => rx.line = Fetched /\ ~ResultAddressPending /\ ~cl_received
      <4>1. IsRsp(rx) => rx.line = Fetched /\ ~ResultAddressPending /\ reading = {Fetched}
        BY DeliveredIs
      <4>2. reading # {} => ~cl_received
        BY DEF CtrlInv, PortInv
      <4> QED
        BY <4>1, <4>2
    <3>4. ASSUME IsRsp(rx) PROVE Rel' >= 6
      <4>1. csr_wr = None => Rel # 5
        BY <2>1, <3>3, <3>4, PendingIs
      <4>2. /\ csr_wr = None => Rel' = Rel \/ (Rel = 6 /\ Rel' = 7)
            /\ csr_wr # None => Rel' = Rel + 1
        BY AdvanceIs
      <4> QED
        BY <2>1, <4>1, <4>2
    <3>5. cl_received => Rel' >= 6 /\ rsp_data = Fetched
      BY LaterIs DEF UnitData
    <3>6. state' = "processing" \/ cl_received' => Rel' >= 6 /\ rsp_data' = Fetched'
      BY <2>3, <2>4, <2>5, <2>8, <3>1, <3>2, <3>3, <3>4, <3>5
    <3> QED
      BY <2>3, <3>1, <3>6 DEF UnitData
  <2>9. CASE state = "processing"
    <3>1. ~cl_received'
      BY <2>9 DEF Edge, Clock, ReadResponse
    <3>2. Rel' >= 6 /\ rsp_data = Fetched /\ rsp_data' = rsp_data
      BY <2>5, <2>9, LaterIs DEF UnitData
    <3>3. state' = IF LineDone THEN "idle" ELSE "processing"
      BY <2>9 DEF Edge, Clock, StateMachine, LineDone
    <3>4. CASE LineDone
      <4>1. total_cls_processed' = total_cls_processed + 1
        BY <1>2, <2>1, <3>4 DEF Edge, Clock, Progress
      <4>2. c1' = RightWrite(total_cls_processed) \/ c1' = None
        BY <3>4, OfferIs DEF Edge, Clock, WriteRequest
      <4>3. c1' # None => total_cls_processed' >= 1 /\ c1' = RightWrite(total_cls_processed - 1)'
        <5>1. total_cls_processed' >= 1 /\ total_cls_processed' - 1 = total_cls_processed
          BY <2>2, <4>1
        <5>2. UNCHANGED <<scan, part>> /\ Buffer' = Buffer
          BY <2>1 DEF Advance, hostVars
        <5>3. [line |-> <<Buffer, total_cls_processed>>, bits |-> Right(scan, part, total_cls_processed)]
                = [line |-> <<Buffer', total_cls_processed' - 1>>,
                   bits |-> Right(scan', part', total_cls_processed' - 1)]
          BY <5>1, <5>2
        <5> QED
          BY <4>2, <5>1, <5>2, <5>3 DEF RightWrite, Right, Buffer
      <4> QED
        BY <3>1, <3>3, <3>4, <4>3 DEF UnitData
    <3>5. CASE ~LineDone
      <4>1. cl_processed = {}
        BY <2>9, <3>5 DEF LineDone
      <4>2. scan_column \in FilterUnit
        BY <1>2, BusyIs, ScanIs DEF FilterUnit
      <4>3. cl_processed' = {scan_column} /\ bit_result = {}
        BY <2>9, <4>1, <4>2 DEF Edge, Clock, FilterUnits, UnitData
      <4>4. bit_result' = {<<scan_column, rsp_data, filter_pred>>}
        BY <2>9, <4>2, <4>3 DEF Edge, Clock, FilterUnits
      <4>5. Fetched' = Fetched /\ filter_pred' = filter_pred
        BY <2>1, <2>3, <2>4, <3>5
      <4>6. bit_result' = {<<u, Fetched', filter_pred'>> : u \in cl_processed'}
        BY <3>2, <4>3, <4>4, <4>5
      <4> QED
        BY <2>3, <3>1, <3>2, <3>3, <3>5, <4>5, <4>6 DEF UnitData
    <3> QED
      BY <3>4, <3>5
  <2> QED
    BY <2>2, <2>6, <2>7, <2>8, <2>9
<1> QED
  BY <1>1, <1>2

LEMMA LinesDoneEdge ==
  ASSUME PipeInv, QueueInv, ParamInv, CtrlInv, Advance, PipeInv', QueueInv', ParamInv', CtrlInv',
         NEW rx, NEW full, Edge(rx, full)
  PROVE  /\ LinesDone' = IF LineDone THEN LinesDone + 1 ELSE LinesDone
         /\ LineDone => LinesDone = total_cls_processed
<1>1. InPart' <=> InPart
  BY DEF Advance
<1>2. /\ Rel \in Int /\ Rel' \in Int /\ (Rel >= 1 => Applied >= 1)
      /\ csr_wr = None => Rel' = Rel \/ (Rel = 6 /\ Rel' = 7)
      /\ csr_wr # None => Rel' = Rel + 1
  BY AdvanceIs
<1>3. state' # "waiting" => LinesDone' = total_cls_processed'
  <2>1. state' # "waiting" => InPart' /\ Rel' >= 5 /\ ~new_partition_ready'
    BY DEF CtrlInv, ReadyInv
  <2> QED
    BY <1>2, <2>1 DEF LinesDone
<1>4. state # "waiting" => LinesDone = total_cls_processed
  BY LinesDoneIs
<1>5. CASE state = "waiting" /\ new_partition_ready
  <2>1. LinesDone = 0 /\ ~LineDone
    BY <1>5 DEF LinesDone, LineDone
  <2>2. state' = "idle" /\ total_cls_processed' = 0
    BY <1>5 DEF Edge, Clock, StateMachine, Progress
  <2> QED
    BY <1>3, <2>1, <2>2
<1>6. CASE state = "waiting" /\ ~new_partition_ready
  <2>1. state' = "waiting" /\ ~LineDone
    BY <1>6 DEF Edge, Clock, StateMachine, LineDone
  <2>2. new_partition_ready' = IF isActive THEN Written(COLUMN_ADDRESS) ELSE new_partition_ready
    BY DEF Edge, Clock, Parameters
  <2>3. CASE ~InPart
    BY <1>1, <2>1, <2>3 DEF LinesDone
  <2>4. CASE InPart /\ Rel < 5
    <3>1. LinesDone = 0
      BY <2>4 DEF LinesDone
    <3>2. Rel' >= 5 => Rel' = 5 /\ Rel = 4 /\ csr_wr # None
      BY <1>2, <2>4
    <3>3. Rel' >= 5 => csr_wr.csr = COLUMN_ADDRESS
      BY <2>4, <3>2, WriteIs DEF Applies, InPart
    <3>4. Rel' >= 5 => new_partition_ready'
      <4> SUFFICES ASSUME Rel' >= 5 PROVE new_partition_ready'
        OBVIOUS
      <4>1. Rel = 4 /\ csr_wr # None /\ csr_wr.csr = COLUMN_ADDRESS
        BY <3>2, <3>3
      <4>2. Applied >= 1 /\ hpc # "done"
        BY <1>2, <2>4, <4>1 DEF InPart
      <4>3. isActive
        BY <4>2, ActiveIs
      <4> QED
        BY <2>2, <4>1, <4>3 DEF Written
    <3>5. LinesDone' = 0
      BY <1>2, <3>4 DEF LinesDone
    <3> QED
      BY <2>1, <3>1, <3>5
  <2>5. CASE InPart /\ ~(Rel < 5)
    <3>1. Rel >= 5 /\ Rel' >= 5 /\ hpc # "done" /\ Applied >= 1
      BY <1>2, <2>5 DEF InPart
    <3>2. ~Written(COLUMN_ADDRESS)
      <4>1. CASE csr_wr # None
        <5>1. Rel' >= 6 /\ Rel' <= 6
          BY <1>2, <3>1, <4>1, WriteIs
        <5>2. csr_wr.csr = RESULT_ADDRESS
          BY <4>1, <5>1, WriteIs DEF Applies
        <5> QED
          BY <5>2 DEF Written, COLUMN_ADDRESS, RESULT_ADDRESS
      <4> QED
        BY <4>1 DEF Written
    <3>3. ~new_partition_ready'
      BY <2>2, <3>1, <3>2, ActiveIs
    <3>4. total_cls = TotalCls(scan) /\ total_cls' = TotalCls(scan')
      BY <1>2, <3>1 DEF ParamInv
    <3>5. scan' = scan
      BY DEF Advance, hostVars
    <3>6. total_cls' = total_cls
      BY <3>4, <3>5
    <3>7. LinesDone = total_cls
      BY <1>2, <1>6, <2>5 DEF LinesDone
    <3>8. LinesDone' = total_cls'
      BY <1>1, <1>2, <2>1, <2>5, <3>1, <3>3 DEF LinesDone
    <3> QED
      BY <2>1, <3>6, <3>7, <3>8
  <2> QED
    BY <2>3, <2>4, <2>5
<1>7. CASE state # "waiting"
  <2>1. /\ InPart' /\ Rel' >= 5 /\ new_partition_ready = FALSE /\ new_partition_ready' = FALSE
        /\ total_cls' = total_cls
    BY <1>7, BusyEdge
  <2>2. total_cls_processed' = IF LineDone THEN total_cls_processed + 1 ELSE total_cls_processed
    BY <1>7, <2>1 DEF Edge, Clock, Progress
  <2>3. CASE state' # "waiting"
    BY <1>3, <1>4, <1>7, <2>2, <2>3
  <2>4. CASE state' = "waiting"
    <3>1. state = "idle" /\ ~cl_req_allowed /\ ~LineDone
      BY <1>7, <2>4 DEF Edge, Clock, StateMachine, LineDone, CtrlInv, UnitInv
    <3>2. total_cls_processed = total_cls
      <4>1. total_cls_processed \in Nat /\ total_cls \in Nat /\ total_cls_processed <= total_cls
        BY <1>7, BusyIs, ScanIs DEF CtrlInv, UnitInv, CountInv
      <4>2. ~(total_cls_processed < total_cls)
        BY <3>1 DEF CtrlInv, CountInv
      <4> QED
        BY <4>1, <4>2
    <3>3. LinesDone' = total_cls'
      BY <1>2, <2>1, <2>4 DEF LinesDone
    <3> QED
      BY <1>4, <1>7, <2>1, <3>1, <3>2, <3>3
  <2> QED
    BY <2>3, <2>4
<1> QED
  BY <1>5, <1>6, <1>7

LEMMA WritesEdge ==
  ASSUME PipeInv, QueueInv, ParamInv, CtrlInv, UnitData, WritesInv, Advance,
         PipeInv', QueueInv', ParamInv', CtrlInv', UnitData',
         NEW rx, NEW full, Edge(rx, full), kept'
  PROVE  WritesInv'
<1>1. memory' = memory /\ writing' = IF c1 # None THEN writing \cup {c1} ELSE writing
  <2>1. Bus.c1 = c1
    BY BusIs
  <2> QED
    BY <2>1 DEF Edge, Ports
<1>2. /\ LinesDone' = IF LineDone THEN LinesDone + 1 ELSE LinesDone
      /\ LineDone => LinesDone = total_cls_processed
  BY LinesDoneEdge
<1>3. LinesDone \in Nat /\ (state # "waiting" => LinesDone = total_cls_processed)
  BY LinesDoneIs, ScanIs
<1>4. Buffer' = Buffer /\ UNCHANGED <<scan, part>>
  BY DEF Advance, hostVars
<1>5. \A l : RightWrite(l)' = RightWrite(l)
  BY <1>4, RightWriteIs
<1>6. \A l : Right(scan, part, l)' = Right(scan, part, l)
  BY <1>4, RightWriteIs
\* The line on the write port is one of those that are done.
<1>7. c1 # None => \E l \in 0 .. LinesDone - 1 : c1 = RightWrite(l)
  <2> SUFFICES ASSUME c1 # None PROVE \E l \in 0 .. LinesDone - 1 : c1 = RightWrite(l)
    OBVIOUS
  <2>1. LinesDone = total_cls_processed
    BY <1>3 DEF CtrlInv, PortInv
  <2>2. total_cls_processed >= 1 /\ c1 = RightWrite(total_cls_processed - 1)
    BY DEF UnitData
  <2>3. total_cls_processed - 1 \in 0 .. LinesDone - 1
    BY <1>3, <2>1, <2>2
  <2> QED
    BY <2>2, <2>3
<1>8. writing' \subseteq {RightWrite(l) : l \in 0 .. LinesDone - 1}
  BY <1>1, <1>7 DEF WritesInv
<1>9. \A l \in 0 .. LinesDone - 1 :
        memory'[<<Buffer, l>>] = Right(scan, part, l) \/ RightWrite(l) \in writing'
  BY <1>1, WritePresent DEF WritesInv
<1>10. 0 .. LinesDone - 1 \subseteq 0 .. LinesDone' - 1
  BY <1>2, <1>3
\* The line that is done is offered to the port, which takes it.
<1>11. \A l \in 0 .. LinesDone' - 1 : l \in 0 .. LinesDone - 1 \/ RightWrite(l) = c1'
  <2>1. CASE ~LineDone
    BY <1>2, <2>1
  <2>2. CASE LineDone
    <3>1. ~c1TxAlmFull
      BY <2>2 DEF Edge, Dropped
    <3>2. c1' = RightWrite(total_cls_processed)
      BY <2>2, <3>1, OfferIs DEF Edge, Clock, WriteRequest
    <3>3. LinesDone' = LinesDone + 1 /\ LinesDone = total_cls_processed
      BY <1>2, <2>2
    <3>4. \A l \in 0 .. LinesDone' - 1 : l \in 0 .. LinesDone - 1 \/ l = LinesDone
      BY <1>3, <3>3
    <3> QED
      BY <3>2, <3>3, <3>4
  <2> QED
    BY <2>1, <2>2
<1>12. DOMAIN memory' = Line
  BY <1>1 DEF WritesInv
<1>13. writing' \subseteq {RightWrite(l)' : l \in 0 .. LinesDone' - 1}
  BY <1>5, <1>8, <1>10
<1>14. ASSUME NEW l \in 0 .. LinesDone' - 1
       PROVE  memory'[<<Buffer', l>>] = Right(scan, part, l)' \/ RightWrite(l)' \in writing' \cup {c1'}
  BY <1>4, <1>5, <1>6, <1>9, <1>11, <1>14
<1> QED
  BY <1>12, <1>13, <1>14 DEF WritesInv

LEMMA DataEdge ==
  ASSUME PipeInv, QueueInv, ParamInv, CtrlInv, DataInv, Advance,
         PipeInv', QueueInv', ParamInv', CtrlInv', NEW rx, NEW full, Edge(rx, full)
  PROVE  DataInv'
<1>1. UNCHANGED <<scan, hpc, queue, result, lied>>
  BY DEF Advance, hostVars
<1>2. DOMAIN result' = Scan
  BY <1>1 DEF DataInv
<1> SUFFICES ASSUME kept' PROVE UnitData' /\ WritesInv' /\ FinishedInv' /\ ResultsComplete'
  BY <1>2 DEF DataInv
<1>3. kept
  BY DEF Edge
<1>4. UnitData'
  BY <1>3, UnitDataEdge DEF DataInv
<1>5. WritesInv'
  BY <1>3, <1>4, WritesEdge DEF DataInv
<1>6. FinishedInv'
  <2>1. memory' = memory
    BY DEF Edge, Ports
  <2>2. Finished' = Finished
    BY <1>1 DEF Finished, InPart
  <2> QED
    BY <1>1, <1>3, <2>1, <2>2 DEF DataInv, FinishedInv, Right
<1>7. ResultsComplete'
  BY <1>1, <1>3 DEF DataInv, ResultsComplete, PartitionRight, Right
<1> QED
  BY <1>4, <1>5, <1>6, <1>7

\* An edge of the clock keeps what the properties rest on.
LEMMA EdgeKeeps ==
  ASSUME J, NEW full,
         Tick(full) \/ TickRequest(full) \/ \E line \in reading : TickResponse(line, full)
  PROVE  J'
<1>1. PICK rx : Edge(rx, full)
  BY EdgeIs
<1>2. PipeInv' /\ QueueInv' /\ Advance
  BY <1>1, PipeEdge DEF J
<1>3. ParamInv'
  BY <1>1, <1>2, ParamEdge DEF J
<1>4. CtrlInv'
  BY <1>1, <1>2, <1>3, CtrlEdge DEF J
<1>5. DataInv'
  BY <1>1, <1>2, <1>3, <1>4, DataEdge DEF J
<1> QED
  BY <1>2, <1>3, <1>4, <1>5 DEF J

-----------------------------------------------------------------------------
(* The other steps of the platform, and the initial states. *)

LEMMA UnitsAre ==
  ASSUME NEW n \in Nat
  PROVE  /\ Units(n) \in Seq(Nat) /\ Len(Units(n)) = n
         /\ \A i \in 1 .. n : Units(n)[i] = i - 1
BY DEF Units

LEMMA InitInv == FpgaInit => J
<1> SUFFICES ASSUME FpgaInit PROVE J
  OBVIOUS
<1> USE DEF FpgaInit, AfuInit
<1>1. /\ Base = 0 /\ Issued = 0 /\ Arrived = 0 /\ Applied = 0 /\ Rel = 0 /\ Len(mmio) = 0
      /\ ~InPart /\ scan \in Scan
  <2>1. Base = 0 /\ scan \in Scan /\ ~InPart
    BY Constants DEF Base, InPart
  <2>2. Issued = 0
    BY <2>1, PlaceIs DEF Issued
  <2>3. Len(mmio) = 0
    OBVIOUS
  <2>4. Arrived = 0
    <3> HIDE DEF FpgaInit, AfuInit
    <3> QED
      BY <2>2, <2>3 DEF Arrived
  <2>5. Applied = 0
    BY <2>4 DEF Applied
  <2>6. Rel = 0
    BY <2>1, <2>5 DEF Rel
  <2> QED
    BY <2>1, <2>2, <2>3, <2>4, <2>5, <2>6
<1>2. PipeInv
  <2>1. 0 \in 0 .. MinGap - 1
    BY FpgaScanAssumption
  <2>2. <<>> \in Seq(Request)
    OBVIOUS
  <2> QED
    BY <1>1, <2>1, <2>2 DEF PipeInv, HostPC
<1>3. NumUnits(scan) \in Nat /\ NumUnits(scan) = Partitions[1] - 1
  BY Constants DEF NumUnits
<1>4. QueueInv
  <2>1. queue \in Seq(Nat) /\ Len(queue) = NumUnits(scan)
        /\ \A i \in 1 .. Len(queue) : queue[i] = i - 1
    BY <1>3, UnitsAre DEF MainWorkItems
  <2>2. \A i \in 1 .. Len(queue) : queue[i] = NumUnits(scan) - Len(queue) + i - 1
    BY <1>3, <2>1
  <2> QED
    BY <1>1, <1>3, <2>1, <2>2 DEF QueueInv
<1>5. ParamInv
  BY <1>1 DEF ParamInv
<1>6. CtrlInv
  <2>1. UnitInv
    BY DEF UnitInv
  <2>2. PortInv
    BY DEF PortInv
  <2>3. CountInv
    BY DEF CountInv
  <2>4. ReadyInv
    <3>1. ~(c2 = TRUE \/ answer = TRUE)
      BY NoneAssumption
    <3>2. state = "waiting" /\ ~new_partition_ready
      OBVIOUS
    <3> HIDE DEF FpgaInit, AfuInit
    <3>3. ~(Rel >= 5)
      BY <1>1
    <3> QED
      BY <3>1, <3>2, <3>3, Zenon DEF ReadyInv
  <2> QED
    BY <2>1, <2>2, <2>3, <2>4 DEF CtrlInv
<1>7. DataInv
  <2>1. LinesDone = 0
    BY <1>1 DEF LinesDone
  <2>2. UnitData
    BY DEF UnitData
  <2>3. WritesInv
    BY <2>1 DEF WritesInv
  <2>4. FinishedInv
    <3>1. Finished = 0
      <4>1. Len(queue) = NumUnits(scan)
        BY <1>3, UnitsAre DEF MainWorkItems
      <4> QED
        BY <1>1, <1>3, <4>1 DEF Finished
    <3> QED
      BY <3>1 DEF FinishedInv
  <2>5. ResultsComplete
    BY DEF ResultsComplete
  <2>6. DOMAIN result = Scan
    OBVIOUS
  <2> QED
    BY <2>2, <2>3, <2>4, <2>5, <2>6 DEF DataInv
<1> QED
  BY <1>2, <1>4, <1>5, <1>6, <1>7 DEF J

\* What does not look at memory is kept by a step that changes memory only.
LEMMA SameControl ==
  ASSUME PipeInv, QueueInv, ParamInv, CtrlInv,
         UNCHANGED <<afuVars, hostVars, mmio, gap, answer, reading>>
  PROVE  /\ PipeInv' /\ QueueInv' /\ ParamInv' /\ CtrlInv'
         /\ Base' = Base /\ Buffer' = Buffer /\ Rel' = Rel /\ (InPart' <=> InPart)
         /\ LinesDone' = LinesDone /\ Finished' = Finished /\ Fetched' = Fetched
<1> USE DEF afuVars, hostVars, params
<1>1. UNCHANGED <<scan, hpc, part>>
  OBVIOUS
<1>2. Base' = Base /\ Buffer' = Buffer /\ Issued' = Issued /\ (InPart' <=> InPart)
      /\ \A i : Prog(i)' = Prog(i)
  BY <1>1, SamePipe
<1>3. Arrived' = Arrived
  BY <1>2 DEF Arrived
<1>4. Applied' = Applied
  BY <1>3 DEF Applied
<1>5. Rel' = Rel
  BY <1>2, <1>4 DEF Rel
<1>6. PipeEmpty' <=> PipeEmpty
  BY DEF PipeEmpty
<1>7. PipeInv'
  BY <1>2, <1>3, <1>6 DEF PipeInv
<1>8. QueueInv'
  BY <1>2, <1>6 DEF QueueInv
<1>9. ParamInv'
  BY <1>2, <1>4, <1>5 DEF ParamInv
<1>10. Fetched' = Fetched
  BY DEF Fetched, LineOf
<1>11. CtrlInv'
  BY <1>2, <1>5, <1>10 DEF CtrlInv, UnitInv, PortInv, CountInv, ReadyInv
<1>12. LinesDone' = LinesDone /\ Finished' = Finished
  BY <1>2, <1>5 DEF LinesDone, Finished
<1> QED
  BY <1>2, <1>5, <1>7, <1>8, <1>9, <1>10, <1>11, <1>12

LEMMA StutterKeeps == ASSUME J, UNCHANGED vars PROVE J'
<1> USE DEF vars, hostVars, busVars
<1>1. UNCHANGED <<afuVars, hostVars, mmio, gap, answer, reading>>
  OBVIOUS
<1>2. /\ PipeInv' /\ QueueInv' /\ ParamInv' /\ CtrlInv'
      /\ Buffer' = Buffer /\ Rel' = Rel /\ LinesDone' = LinesDone /\ Finished' = Finished
      /\ Fetched' = Fetched
  BY <1>1, SameControl DEF J
<1>3. ASSUME kept, UnitData PROVE UnitData'
  BY <1>2, <1>3 DEF UnitData, RightWrite, Right, afuVars, params
<1>4. ASSUME kept, WritesInv PROVE WritesInv'
  BY <1>2, <1>4 DEF WritesInv, RightWrite, Right, afuVars
<1>5. ASSUME kept, FinishedInv PROVE FinishedInv'
  BY <1>2, <1>5 DEF FinishedInv, Right
<1>6. ASSUME kept, ResultsComplete PROVE ResultsComplete'
  BY <1>6 DEF ResultsComplete, PartitionRight, Right
<1>7. DataInv'
  BY <1>3, <1>4, <1>5, <1>6 DEF DataInv, J
<1> QED
  BY <1>2, <1>7 DEF J

LEMMA LandsKeeps ==
  ASSUME J, NEW w \in writing, WriteLands(w)
  PROVE  J'
<1>1. /\ UNCHANGED <<afuVars, hostVars, mmio, gap, answer, reading, kept>>
      /\ writing' = writing \ {w} /\ memory' = [memory EXCEPT ![w.line] = w.bits]
  BY DEF WriteLands
<1>2. /\ PipeInv' /\ QueueInv' /\ ParamInv' /\ CtrlInv'
      /\ Buffer' = Buffer /\ Rel' = Rel /\ LinesDone' = LinesDone /\ Finished' = Finished
      /\ Fetched' = Fetched
  BY <1>1, SameControl DEF J
<1>3. UNCHANGED <<hpc, scan, queue, part, lied, result, state, cl_received, rsp_data, bit_result,
                  filter_pred, cl_processed, c1, total_cls_processed>>
  BY <1>1 DEF afuVars, params, hostVars
<1>4. DOMAIN result' = Scan
  BY <1>3 DEF J, DataInv
<1> SUFFICES ASSUME kept PROVE UnitData' /\ WritesInv' /\ FinishedInv' /\ ResultsComplete'
  BY <1>1, <1>2, <1>4 DEF J, DataInv
<1>5. UnitData'
  BY <1>2, <1>3 DEF J, DataInv, UnitData, RightWrite, Right
<1>6. ResultsComplete'
  BY <1>1, <1>3 DEF J, DataInv, ResultsComplete, PartitionRight, Right
<1>7. PICK l0 \in 0 .. LinesDone - 1 : w = RightWrite(l0)
  BY DEF J, DataInv, WritesInv
<1>8. /\ w.line = <<Buffer, l0>> /\ w.bits = Right(scan, part, l0) /\ <<Buffer, l0>> \in Line
      /\ LinesDone \in 0 .. TotalCls(scan) /\ (LinesDone # 0 => InPart)
  <2>1. w.line = <<Buffer, l0>> /\ w.bits = Right(scan, part, l0)
    BY <1>7 DEF RightWrite
  <2> QED
    BY <2>1, WritePresent, LinesDoneIs DEF J
<1>9. DOMAIN memory = Line /\ DOMAIN memory' = Line
      /\ memory'[<<Buffer, l0>>] = Right(scan, part, l0)
      /\ \A x \in Line : x # <<Buffer, l0>> => memory'[x] = memory[x]
  <2>1. DOMAIN memory = Line
    BY DEF J, DataInv, WritesInv
  <2>2. memory' = [memory EXCEPT ![<<Buffer, l0>>] = Right(scan, part, l0)]
    BY <1>1, <1>8
  <2> QED
    BY <1>8, <2>1, <2>2
<1>10. WritesInv'
  <2>1. \A l : RightWrite(l)' = RightWrite(l) /\ Right(scan, part, l)' = Right(scan, part, l)
    BY <1>2, <1>3, RightWriteIs
  <2>2. ASSUME NEW l \in 0 .. LinesDone - 1
        PROVE  memory'[<<Buffer, l>>] = Right(scan, part, l) \/ RightWrite(l) \in writing' \cup {c1}
    <3>1. CASE l = l0
      BY <1>9, <3>1
    <3>2. CASE l # l0
      <4>1. <<Buffer, l>> \in Line /\ <<Buffer, l>> # <<Buffer, l0>>
        BY <3>2, WritePresent DEF J
      <4>2. memory'[<<Buffer, l>>] = memory[<<Buffer, l>>]
        BY <1>9, <4>1
      <4>3. RightWrite(l) # w
        <5>1. RightWrite(l).line = <<Buffer, l>>
          BY DEF RightWrite
        <5> QED
          BY <1>8, <4>1, <5>1
      <4> QED
        BY <1>1, <4>2, <4>3 DEF J, DataInv, WritesInv
    <3> QED
      BY <3>1, <3>2
  <2>3. writing' \subseteq {RightWrite(l) : l \in 0 .. LinesDone - 1}
    BY <1>1 DEF J, DataInv, WritesInv
  <2> QED
    BY <1>2, <1>3, <1>9, <2>1, <2>2, <2>3 DEF WritesInv
<1>11. FinishedInv'
  <2> SUFFICES ASSUME hpc # "done", NEW p \in 0 .. Finished - 1, NEW l \in 0 .. TotalCls(scan) - 1
               PROVE  memory'[<<<<ScanType[scan], p>>, l>>] = Right(scan, p, l)
    BY <1>2, <1>3 DEF FinishedInv, Right
  <2>1. memory[<<<<ScanType[scan], p>>, l>>] = Right(scan, p, l)
    BY DEF J, DataInv, FinishedInv
  <2>2. InPart /\ part = NumUnits(scan) - Len(queue) - 1 /\ part \in PartId(scan)
    <3>1. LinesDone # 0
      BY <1>8
    <3>2. InPart /\ PipeInv /\ QueueInv
      BY <1>8, <3>1 DEF J
    <3>3. part \in PartId(scan)
      BY <3>2, BufferIs
    <3> QED
      BY <3>2, <3>3 DEF QueueInv
  <2>3. NumUnits(scan) \in Nat /\ Len(queue) \in Nat /\ scan \in Scan /\ Partitions[scan] \in Nat
        /\ TotalCls(scan) \in 1 .. PageLines /\ PageLines \in Nat
    <3>1. PipeInv /\ QueueInv
      BY DEF J
    <3>2. scan \in Scan /\ TotalCls(scan) \in 1 .. PageLines /\ Len(queue) \in Nat
      BY <3>1, ScanIs DEF QueueInv
    <3> QED
      BY <3>2, Constants, FpgaScanAssumption
  <2>4. Finished = part
    BY <2>2, <2>3 DEF Finished
  <2>5. part < Partitions[scan] /\ part \in Nat
    BY <2>2, <2>3 DEF PartId
  <2>6. p # part /\ p \in 0 .. Partitions[scan] - 1 /\ l \in 0 .. PageLines - 1
    BY <2>3, <2>4, <2>5
  <2>7. <<<<ScanType[scan], p>>, l>> \in Line
    BY <2>3, <2>6, LinesAre DEF PartId
  <2>8. <<<<ScanType[scan], p>>, l>> # <<Buffer, l0>>
    BY <2>6 DEF Buffer
  <2> QED
    BY <1>9, <2>1, <2>7, <2>8
<1> QED
  BY <1>5, <1>6, <1>10, <1>11

-----------------------------------------------------------------------------
(* The host's steps: what each does to the pipe, and what it keeps. *)

LEMMA RelBound ==
  ASSUME PipeInv
  PROVE  /\ Rel \in Int /\ Applied \in Int /\ Base \in Nat /\ Rel = Applied - Base
         /\ Rel <= Place(hpc) /\ Place(hpc) \in 0 .. 7
         /\ PipeEmpty => Applied = Issued /\ Rel = Place(hpc)
<1>1. /\ Base \in Nat /\ Place(hpc) \in 0 .. 7 /\ Issued \in Nat /\ Issued = Base + Place(hpc)
      /\ Len(mmio) \in Nat /\ Arrived = Issued - Len(mmio) /\ Arrived \in Nat
  BY IssuedIs
<1>2. Applied = Arrived \/ Applied = Arrived - 1
  BY DEF Applied
<1>3. Rel = Applied - Base
  BY DEF Rel
<1>4. PipeEmpty => Applied = Issued
  <2> SUFFICES ASSUME PipeEmpty PROVE Applied = Issued
    OBVIOUS
  <2>1. Len(mmio) = 0 /\ Applied = Arrived
    BY DEF PipeEmpty, Applied
  <2> QED
    BY <1>1, <2>1
<1>5. \A a, b, n \in Int : a <= b + n => a - b <= n /\ (a = b + n => a - b = n)
  OBVIOUS
<1>6. Applied \in Int /\ Applied <= Base + Place(hpc)
  BY <1>1, <1>2
<1>7. /\ Applied - Base \in Int /\ Applied - Base <= Place(hpc)
      /\ Applied = Base + Place(hpc) => Applied - Base = Place(hpc)
  <2>1. Applied \in Int /\ Base \in Int /\ Place(hpc) \in Int
    BY <1>1, <1>6
  <2> QED
    BY <1>5, <1>6, <2>1
<1>8. Rel \in Int /\ Rel <= Place(hpc)
  BY <1>3, <1>7
<1>9. PipeEmpty => Rel = Place(hpc)
  BY <1>1, <1>3, <1>4, <1>7
<1> QED
  BY <1>1, <1>3, <1>4, <1>6, <1>8, <1>9

LEMMA RequestIs ==
  /\ \A k \in Nat, d \in Nat : WriteCSR(k, d) \in Request
  /\ \A k \in Nat, d \in Nat \X Nat : WriteCSR(k, d) \in Request
  /\ \A k \in Nat : ReadCSR(k) \in Request
BY DEF Request

\* The stores of the set-up do not change under way.
LEMMA ProgKept ==
  ASSUME scan' = scan, NEW i \in Nat, i - Base <= 4
  PROVE  i >= 1 => Prog(i)' = Prog(i)
<1>1. Base' = Base /\ (Base = 0 \/ Base = 4)
  BY BaseIs DEF Base
<1>2. CASE i <= Base
  BY <1>1, <1>2 DEF Prog, Setup
<1>3. CASE ~(i <= Base)
  <2>1. i - Base \in 1 .. 4
    BY <1>1, <1>3
  <2>2. Prog(i) = Setup(scan, i - Base)
    BY <1>3, <2>1 DEF Prog
  <2>3. Prog(i)' = Setup(scan, i - Base)
    BY <1>1, <1>3, <2>1 DEF Prog, Setup
  <2> QED
    BY <2>2, <2>3
<1> QED
  BY <1>2, <1>3

LEMMA AppendPipe ==
  ASSUME PipeInv, NEW req \in Request, mmio' = Append(mmio, req), hpc # "answer",
         hpc' \in HostPC, Place(hpc') = Place(hpc) + 1,
         UNCHANGED <<csr_rx, csr_wr, c2, gap, answer, scan>>,
         \A i \in 1 .. Issued : Prog(i)' = Prog(i),
         \A i : i = Issued + 1 => Prog(i)' = req
  PROVE  /\ PipeInv' /\ Base' = Base /\ Issued' = Issued + 1 /\ Applied' = Applied /\ Rel' = Rel
         /\ c2 = None /\ answer = None
<1>1. /\ Base \in Nat /\ Place(hpc) \in 0 .. 7 /\ Issued \in Nat /\ Issued = Base + Place(hpc)
      /\ Len(mmio) \in Nat /\ Arrived = Issued - Len(mmio) /\ Arrived \in Nat
  BY IssuedIs
<1>2. Base' = Base
  BY DEF Base
<1>3. Issued' = Issued + 1
  <2>1. Issued' = Base' + Place(hpc')
    BY DEF Issued, Place
  <2>2. ASSUME NEW b \in Nat, NEW k \in 0 .. 7 PROVE b + (k + 1) = b + k + 1
    OBVIOUS
  <2>3. Issued' = Base + (Place(hpc) + 1)
    BY <1>2, <2>1
  <2> QED
    BY <1>1, <2>2, <2>3
<1>4. mmio \in Seq(Request)
  BY DEF PipeInv
<1>5. /\ mmio' \in Seq(Request) /\ Len(mmio') = Len(mmio) + 1
      /\ \A i \in 1 .. Len(mmio) : mmio'[i] = mmio[i]
      /\ mmio'[Len(mmio) + 1] = req
  <2>1. mmio' \in Seq(Request) /\ Len(mmio') = Len(mmio) + 1
    BY <1>4
  <2>2. ASSUME NEW i \in 1 .. Len(mmio) PROVE mmio'[i] = mmio[i]
    BY <1>4
  <2>3. mmio'[Len(mmio) + 1] = req
    BY <1>4
  <2> QED
    BY <2>1, <2>2, <2>3
<1>6. Arrived' = Arrived
  <2>1. Arrived' = Issued' - Len(mmio')
    BY DEF Arrived
  <2>2. ASSUME NEW a \in Nat, NEW b \in Nat PROVE a + 1 - (b + 1) = a - b
    OBVIOUS
  <2> QED
    BY <1>1, <1>3, <1>5, <2>1, <2>2
<1>7. Applied' = Applied
  BY <1>6 DEF Applied
<1>8. Rel' = Rel
  BY <1>2, <1>7 DEF Rel
<1>9. c2 = None /\ answer = None
  BY DEF PipeInv
<1>10. \A i \in 1 .. Len(mmio') : mmio'[i] = Prog(Arrived + i)'
  <2> SUFFICES ASSUME NEW i \in 1 .. Len(mmio') PROVE mmio'[i] = Prog(Arrived + i)'
    OBVIOUS
  <2>1. CASE i \in 1 .. Len(mmio)
    <3>1. mmio[i] = Prog(Arrived + i) /\ Arrived + i \in 1 .. Issued
      BY <1>1, <2>1 DEF PipeInv
    <3>2. \A j : j = Arrived + i => Prog(j)' = mmio[i]
      BY <3>1
    <3> QED
      BY <1>5, <1>6, <2>1, <3>2
  <2>2. CASE i = Len(mmio) + 1
    <3>1. Arrived + i = Issued + 1
      BY <1>1, <2>2
    <3>2. \A j : j = Arrived + i => Prog(j)' = req
      BY <3>1
    <3> QED
      BY <1>5, <1>6, <2>2, <3>2
  <2> QED
    BY <1>1, <1>5, <2>1, <2>2
<1>11. Arrived >= 1 => \A j : j = Arrived => Prog(j)' = Prog(Arrived)
  <2>1. Arrived <= Issued
    BY <1>1
  <2> QED
    BY <1>1, <2>1
<1>12. /\ csr_rx' # None => Arrived' >= 1 /\ csr_rx' = Prog(Arrived)' /\ csr_wr' = None /\ gap' = MinGap - 1
       /\ csr_wr' # None => Arrived' >= 1 /\ csr_wr' = Prog(Arrived)' /\ csr_wr'.op = "write"
  BY <1>6, <1>11 DEF PipeInv
<1>13. Len(mmio') <= Issued'
  BY <1>1, <1>3, <1>5
<1> QED
  BY <1>2, <1>3, <1>5, <1>7, <1>8, <1>9, <1>10, <1>12, <1>13 DEF PipeInv

LEMMA ParamHost ==
  ASSUME PipeInv, ParamInv, UNCHANGED <<afuVars, scan>>, Rel' \in Int, Rel' <= Rel,
         Applied' >= 1 => Applied >= 1, hpc # "done", Rel' >= 5 => Buffer' = Buffer
  PROVE  ParamInv'
<1>1. Base' = Base /\ Rel \in Int /\ Rel' \in Int
  BY RelBound DEF Base
<1>2. UNCHANGED <<query_state, held, read_buff_address, write_buff_address, total_cls, filter_pred,
                  scan_column, scan>>
  BY DEF afuVars, params
<1>3. /\ Rel' >= 2 => Rel >= 2
      /\ Rel' >= 3 => Rel >= 3
      /\ Rel' >= 4 => Rel >= 4
      /\ Rel' >= 5 => Rel >= 5 /\ Buffer' = Buffer
      /\ Rel' >= 6 => Rel >= 6 /\ Rel' >= 5
  BY <1>1
<1>4. /\ query_state' \in {SCAN_PROCESSING, QUERY_DONE}
      /\ (Applied' >= 1 \/ (scan' > 1 /\ Base' = 0)) => query_state' = SCAN_PROCESSING
      /\ query_state' = QUERY_DONE => held' = [c0 |-> None, c1 |-> None]
  BY <1>1, <1>2 DEF ParamInv
<1>5. /\ Rel' >= 2 => total_cls' = TotalCls(scan)'
      /\ Rel' >= 3 => filter_pred' = scan'
      /\ Rel' >= 4 => scan_column' = ScanType[scan']
      /\ Rel' >= 5 => read_buff_address' = Buffer'
      /\ Rel' >= 6 => write_buff_address' = Buffer'
  BY <1>2, <1>3 DEF ParamInv
<1> QED
  BY <1>4, <1>5 DEF ParamInv

\* A waiting unit does not mind where the host goes, if the pipe is behind an address.
LEMMA WaitHost ==
  ASSUME CtrlInv, UNCHANGED <<afuVars, reading>>, Rel' \in Int, Rel' <= 4,
         c2 = None, answer' = None, state = "waiting", ~new_partition_ready
  PROVE  CtrlInv' /\ UnitData' /\ LinesDone' = 0 /\ c1 = None
<1>1. state = "waiting" /\ ~new_partition_ready
  OBVIOUS
<1>2. ~(Rel' >= 5)
  OBVIOUS
<1>3. UNCHANGED <<c0, c1, c2, state, new_partition_ready, cl_req_issued, cl_received,
                  partition_processed, cl_req_allowed, total_cls_processed, total_cls, cl_processed,
                  scan_column, read_buff_address, reading>>
  BY DEF afuVars, params
<1>4. UnitInv'
  BY <1>3 DEF CtrlInv, UnitInv
<1>5. PortInv'
  BY <1>3 DEF CtrlInv, PortInv, Fetched, LineOf
<1>6. CountInv'
  BY <1>1, <1>3 DEF CountInv
<1>7. ReadyInv'
  <2>1. ~(c2' = TRUE \/ answer' = TRUE)
    BY <1>3, NoneAssumption
  <2> QED
    BY <1>1, <1>2, <1>3, <2>1 DEF ReadyInv
<1>8. UnitData' /\ c1 = None
  <2>1. c1 = None /\ ~cl_received
    BY <1>1 DEF CtrlInv, PortInv
  <2> QED
    BY <1>1, <1>3, <2>1 DEF UnitData
<1>9. LinesDone' = 0
  BY DEF LinesDone
<1> QED
  BY <1>4, <1>5, <1>6, <1>7, <1>8, <1>9 DEF CtrlInv

\* Outside a partition, and before its address, the unit waits.
LEMMA QuietHost ==
  ASSUME CtrlInv, UNCHANGED <<afuVars, reading>>, Rel \in Int, Rel' \in Int, Rel <= 4, Rel' <= 4,
         c2 = None, answer' = None
  PROVE  /\ CtrlInv' /\ UnitData' /\ LinesDone' = 0 /\ LinesDone = 0 /\ c1 = None
<1>1. state = "waiting" /\ ~new_partition_ready
  BY DEF CtrlInv, ReadyInv
<1>2. LinesDone = 0
  BY DEF LinesDone
<1> QED
  BY <1>1, <1>2, WaitHost

LEMMA QuietWrites ==
  ASSUME WritesInv, LinesDone = 0, LinesDone' = 0, UNCHANGED <<writing, memory>>
  PROVE  WritesInv' /\ writing = {}
BY DEF WritesInv

\* Inside a partition the host's progress does not matter to the unit.
LEMMA SameHost ==
  ASSUME CtrlInv, UNCHANGED <<afuVars, reading, scan, part>>, InPart, InPart',
         Rel \in Int, Rel' \in Int, Rel' >= 5 <=> Rel >= 5, Rel' >= 6 <=> Rel >= 6,
         c2' = TRUE \/ answer' = TRUE => c2 = TRUE \/ answer = TRUE
  PROVE  /\ CtrlInv' /\ Buffer' = Buffer /\ LinesDone' = LinesDone
         /\ UnitData => UnitData'
         /\ WritesInv /\ UNCHANGED <<writing, memory>> => WritesInv'
<1>1. UNCHANGED <<c0, c1, c2, state, new_partition_ready, cl_req_issued, cl_received, csr_wr,
                  partition_processed, cl_req_allowed, total_cls_processed, total_cls, cl_processed,
                  scan_column, read_buff_address, reading, rsp_data, bit_result, filter_pred>>
  BY DEF afuVars, params
<1>2. Buffer' = Buffer /\ Fetched' = Fetched
  BY <1>1 DEF Buffer, Fetched, LineOf
<1>3. (Rel' = 5 <=> Rel = 5) /\ (Rel' < 5 <=> Rel < 5)
  OBVIOUS
<1>4. UnitInv' /\ PortInv' /\ CountInv'
  BY <1>1, <1>2 DEF CtrlInv, UnitInv, PortInv, CountInv
<1>5. ReadyInv'
  BY <1>1, <1>3 DEF CtrlInv, ReadyInv, InPart
<1>6. LinesDone' = LinesDone
  BY <1>1, <1>3 DEF LinesDone
<1>7. UnitData => UnitData'
  BY <1>1, <1>2 DEF UnitData, RightWrite, Right
<1>8. WritesInv /\ UNCHANGED <<writing, memory>> => WritesInv'
  BY <1>1, <1>2, <1>6 DEF WritesInv, RightWrite, Right
<1> QED
  BY <1>2, <1>4, <1>5, <1>6, <1>7, <1>8 DEF CtrlInv

\* What the results rest on, when only the host's progress changes.
LEMMA DataHost ==
  ASSUME DataInv, UNCHANGED <<writing, memory, result, lied, scan>>, kept' => kept,
         kept => UnitData' /\ WritesInv', Finished' = Finished, hpc # "done"
  PROVE  DataInv'
<1>1. ASSUME kept PROVE FinishedInv'
  BY <1>1 DEF DataInv, FinishedInv, Right
<1>2. ASSUME kept PROVE ResultsComplete'
  BY <1>2 DEF DataInv, ResultsComplete, PartitionRight, Right
<1> QED
  BY <1>1, <1>2 DEF DataInv

LEMMA NumbersAre ==
  ASSUME PipeInv
  PROVE  TotalCls(scan) \in Nat /\ ScanType[scan] \in Nat /\ scan \in Nat
<1>1. scan \in Scan
  BY DEF PipeInv
<1>2. TotalCls(scan) \in 1 .. 127
  BY <1>1, TotalClsRange
<1>3. scan \in Nat /\ ScanType[scan] \in {0, 1, 2}
  BY <1>1, Constants
<1> QED
  BY <1>2, <1>3

\* The four stores that set a scan up.
LEMMA SetupKeeps ==
  ASSUME J, NEW k \in 1 .. 4, NEW to,
         hpc \in {"notify", "total_cls", "filter_predicate", "job_type"},
         Place(hpc) = k - 1, Place(to) = k,
         to \in {"total_cls", "filter_predicate", "job_type", "loop"},
         hpc' = to, mmio' = Append(mmio, Setup(scan, k)), UNCHANGED <<scan, queue, part>>, Other
  PROVE  J'
<1>1. /\ UNCHANGED afuVars /\ UNCHANGED <<gap, answer, reading, writing, memory, kept, lied, result>>
      /\ UNCHANGED <<csr_rx, csr_wr, c2>>
  BY DEF Other, afuVars
<1>2. PipeInv /\ QueueInv /\ ParamInv /\ CtrlInv /\ DataInv
  BY DEF J
<1>3. /\ Base \in Nat /\ Issued = Base + (k - 1) /\ Issued \in Nat /\ scan \in Scan
      /\ (Base = 0 \/ Base = 4)
  BY <1>2, IssuedIs DEF PipeInv
<1>4. Setup(scan, k) \in Request
  <2>1. /\ TotalCls(scan) \in Nat /\ ScanType[scan] \in Nat /\ scan \in Nat
    BY <1>2, NumbersAre
  <2>2. k = 1 \/ k = 2 \/ k = 3 \/ k = 4
    OBVIOUS
  <2>3. /\ WriteCSR(7, 0) \in Request /\ WriteCSR(0, TotalCls(scan)) \in Request
        /\ WriteCSR(1, scan) \in Request /\ WriteCSR(2, ScanType[scan]) \in Request
    BY <2>1, RequestIs
  <2> QED
    BY <1>3, <2>2, <2>3, SetupIs
       DEF QUERY_STATE, SCAN_PROCESSING, TOTAL_CLS, FILTER_PREDICATE, JOB_TYPE
<1>5. \A i \in 1 .. Issued : Prog(i)' = Prog(i)
  <2>1. ASSUME NEW i \in 1 .. Issued PROVE i \in Nat /\ i - Base <= 4 /\ i >= 1
    BY <1>3
  <2> QED
    BY <2>1, ProgKept
<1>6. ASSUME NEW i, i = Issued + 1 PROVE Prog(i)' = Setup(scan, k)
  <2>1. Base' = Base
    BY DEF Base
  <2>2. ~(i <= Base) /\ i - Base = k
    BY <1>3, <1>6
  <2>3. Prog(i)' = Setup(scan, k)'
    BY <2>1, <2>2 DEF Prog
  <2> QED
    BY <2>3 DEF Setup
<1>7. hpc # "answer" /\ hpc' \in HostPC /\ Place(hpc') = Place(hpc) + 1 /\ hpc # "done"
      /\ ~InPart /\ ~InPart' /\ hpc' # "done"
  BY DEF HostPC, InPart
<1>8. /\ PipeInv' /\ Base' = Base /\ Applied' = Applied /\ Rel' = Rel /\ c2 = None /\ answer = None
  BY <1>1, <1>2, <1>4, <1>5, <1>6, <1>7, AppendPipe
<1>9. Rel \in Int /\ Rel <= 4
  BY <1>2, RelBound
<1>10. QueueInv'
  <2>1. NumUnits(scan) \in Nat /\ Len(queue) = NumUnits(scan) /\ NumUnits(scan)' = NumUnits(scan)
    BY <1>2, <1>3, Constants DEF QueueInv, NumUnits
  <2>2. ~(Len(queue) < NumUnits(scan))
    BY <2>1
  <2> QED
    BY <1>2, <1>7, <2>1, <2>2 DEF QueueInv
<1>11. ParamInv'
  BY <1>1, <1>2, <1>7, <1>8, <1>9, ParamHost
<1>12. CtrlInv' /\ UnitData' /\ LinesDone' = 0 /\ LinesDone = 0
  BY <1>1, <1>2, <1>8, <1>9, QuietHost
<1>13. Finished' = Finished
  BY <1>7 DEF Finished, NumUnits
<1>14. kept => WritesInv'
  BY <1>1, <1>2, <1>12, QuietWrites DEF DataInv
<1>15. DataInv'
  BY <1>1, <1>2, <1>7, <1>12, <1>13, <1>14, DataHost
<1> QED
  BY <1>8, <1>10, <1>11, <1>12, <1>15 DEF J

LEMMA ColumnAddressKeeps ==
  ASSUME J, WriteColumnAddress
  PROVE  J'
<1>1. /\ UNCHANGED afuVars /\ UNCHANGED <<gap, answer, reading, writing, memory, kept, lied, result>>
      /\ UNCHANGED <<csr_rx, csr_wr, c2, scan>>
  BY DEF WriteColumnAddress, Other, afuVars
<1>2. PipeInv /\ QueueInv /\ ParamInv /\ CtrlInv /\ DataInv
  BY DEF J
<1>3. /\ hpc = "loop" /\ hpc' = "result_address" /\ queue # <<>>
      /\ part' = Head(queue) /\ queue' = Tail(queue)
      /\ mmio' = Append(mmio, WriteCSR(COLUMN_ADDRESS, <<ScanType[scan], Head(queue)>>))
  BY DEF WriteColumnAddress, Access
<1>4. /\ queue \in Seq(Nat) /\ Len(queue) \in Nat /\ Len(queue) >= 1 /\ Len(queue) <= NumUnits(scan)
      /\ Head(queue) = NumUnits(scan) - Len(queue) /\ Head(queue) \in Nat /\ NumUnits(scan) \in Nat
      /\ \A i \in 1 .. Len(queue) : queue[i] = NumUnits(scan) - Len(queue) + i - 1
  <2>1. queue \in Seq(Nat) /\ NumUnits(scan) \in Nat /\ Len(queue) <= NumUnits(scan)
        /\ \A i \in 1 .. Len(queue) : queue[i] = NumUnits(scan) - Len(queue) + i - 1
    BY <1>2, Constants DEF QueueInv, PipeInv
  <2>2. Len(queue) \in Nat /\ Len(queue) >= 1 /\ Head(queue) = queue[1] /\ queue[1] \in Nat
    BY <1>3, <2>1
  <2>3. queue[1] = NumUnits(scan) - Len(queue)
    BY <2>1, <2>2
  <2> QED
    BY <2>1, <2>2, <2>3
<1>5. /\ queue' \in Seq(Nat) /\ Len(queue') = Len(queue) - 1
      /\ \A i \in 1 .. Len(queue') : queue'[i] = queue[i + 1]
  BY <1>3, <1>4
<1>6. Issued = Base + 4 /\ Base \in Nat /\ (Base = 0 \/ Base = 4) /\ Issued \in Nat
  BY <1>2, <1>3, IssuedIs, PlaceIs
<1>7. Buffer' = <<ScanType[scan], Head(queue)>> /\ Base' = Base
  BY <1>1, <1>3 DEF Buffer, Base
<1>8. WriteCSR(COLUMN_ADDRESS, <<ScanType[scan], Head(queue)>>) \in Request
  <2>1. <<ScanType[scan], Head(queue)>> \in Nat \X Nat /\ COLUMN_ADDRESS \in Nat
    BY <1>2, <1>4, NumbersAre DEF COLUMN_ADDRESS
  <2> QED
    BY <2>1, RequestIs
<1>9. \A i \in 1 .. Issued : Prog(i)' = Prog(i)
  <2>1. ASSUME NEW i \in 1 .. Issued PROVE i \in Nat /\ i - Base <= 4 /\ i >= 1
    BY <1>6
  <2> QED
    BY <1>1, <2>1, ProgKept
<1>10. ASSUME NEW i, i = Issued + 1
       PROVE  Prog(i)' = WriteCSR(COLUMN_ADDRESS, <<ScanType[scan], Head(queue)>>)
  <2>1. ~(i <= Base) /\ i - Base = 5 /\ i - Base \notin 1 .. 4
    BY <1>6, <1>10
  <2> QED
    BY <1>3, <1>7, <2>1 DEF Prog
<1>11. hpc # "answer" /\ hpc' \in HostPC /\ Place(hpc') = Place(hpc) + 1 /\ hpc # "done"
  BY <1>3, PlaceIs DEF HostPC
<1>12. /\ PipeInv' /\ Applied' = Applied /\ Rel' = Rel /\ c2 = None /\ answer = None
  BY <1>1, <1>2, <1>3, <1>8, <1>9, <1>10, <1>11, AppendPipe
<1>13. Rel \in Int /\ Rel <= 4
  BY <1>2, <1>3, RelBound, PlaceIs
<1>14. NumUnits(scan)' = NumUnits(scan) /\ ~InPart /\ InPart'
  BY <1>1, <1>3 DEF NumUnits, InPart
<1>15. part' = NumUnits(scan) - Len(queue') - 1 /\ part' >= 0
  BY <1>3, <1>4, <1>5
<1>16. QueueInv'
  <2>1. ASSUME NEW i \in 1 .. Len(queue')
        PROVE  queue'[i] = NumUnits(scan) - Len(queue') + i - 1
    <3>1. i \in Int /\ i + 1 \in 1 .. Len(queue)
      BY <1>4, <1>5
    <3>2. queue'[i] = queue[i + 1]
      BY <1>5
    <3>3. queue[i + 1] = NumUnits(scan) - Len(queue) + (i + 1) - 1
      BY <1>4, <3>1
    <3> QED
      BY <1>4, <1>5, <3>1, <3>2, <3>3
  <2>2. Len(queue') <= NumUnits(scan)
    BY <1>4, <1>5
  <2> QED
    BY <1>3, <1>5, <1>14, <1>15, <2>1, <2>2 DEF QueueInv
<1>17. ParamInv'
  BY <1>1, <1>2, <1>11, <1>12, <1>13, ParamHost
<1>18. CtrlInv' /\ UnitData' /\ LinesDone' = 0 /\ LinesDone = 0
  BY <1>1, <1>2, <1>12, <1>13, QuietHost
<1>19. Finished' = Finished
  <2>1. Finished = NumUnits(scan) - Len(queue) - 0 /\ Finished' = NumUnits(scan) - Len(queue') - 1
    BY <1>14 DEF Finished
  <2> QED
    BY <1>4, <1>5, <2>1
<1>20. kept => WritesInv'
  BY <1>1, <1>2, <1>18, QuietWrites DEF DataInv
<1>21. DataInv'
  BY <1>1, <1>2, <1>11, <1>18, <1>19, <1>20, DataHost
<1> QED
  BY <1>12, <1>16, <1>17, <1>18, <1>21 DEF J

\* The store of the result address, and the poll.
LEMMA InPartKeeps ==
  ASSUME J, NEW to,
         (hpc = "result_address" /\ to = "poll") \/ (hpc = "poll" /\ to = "answer"),
         hpc' = to, UNCHANGED <<scan, queue, part>>, Other,
         mmio' = Append(mmio, IF to = "poll" THEN WriteCSR(RESULT_ADDRESS, Buffer)
                              ELSE ReadCSR(PARTITION_PROCESSED))
  PROVE  J'
<1> DEFINE req == IF to = "poll" THEN WriteCSR(RESULT_ADDRESS, Buffer)
                  ELSE ReadCSR(PARTITION_PROCESSED)
<1>1. /\ UNCHANGED afuVars /\ UNCHANGED <<gap, answer, reading, writing, memory, kept, lied, result>>
      /\ UNCHANGED <<csr_rx, csr_wr, c2>>
  BY DEF Other, afuVars
<1>2. PipeInv /\ QueueInv /\ ParamInv /\ CtrlInv /\ DataInv
  BY DEF J
<1>3. /\ hpc # "answer" /\ hpc' \in HostPC /\ Place(hpc') = Place(hpc) + 1 /\ hpc # "done"
      /\ InPart /\ InPart' /\ hpc' # "done" /\ Place(to) = Place(hpc) + 1
      /\ Place(to) = IF to = "poll" THEN 6 ELSE 7
  BY PlaceIs DEF HostPC, InPart
<1>4. /\ Base \in Nat /\ Issued = Base + Place(hpc) /\ Issued \in Nat /\ (Base = 0 \/ Base = 4)
      /\ Place(hpc) \in Nat
  BY <1>2, IssuedIs
<1>5. req \in Request
  <2>1. Buffer \in Nat \X Nat
    <3>1. part \in PartId(scan)
      BY <1>2, <1>3, BufferIs
    <3>2. part \in Nat
      BY <3>1 DEF PartId
    <3> QED
      BY <1>2, <3>2, NumbersAre DEF Buffer
  <2> QED
    BY <2>1, RequestIs DEF RESULT_ADDRESS, PARTITION_PROCESSED
<1>6. Base' = Base /\ Buffer' = Buffer
  BY DEF Base, Buffer
<1>7. \A i \in 1 .. Issued : Prog(i)' = Prog(i)
  BY <1>3, <1>6 DEF Prog, Setup
<1>8. ASSUME NEW i, i = Issued + 1 PROVE Prog(i)' = req
  <2>1. i - Base = Place(to) /\ ~(i <= Base) /\ i - Base \notin 1 .. 4 /\ i - Base # 5
        /\ (i - Base = 6 <=> to = "poll") /\ (i - Base = 7 <=> to = "answer")
    BY <1>3, <1>4, <1>8
  <2> QED
    BY <1>6, <2>1 DEF Prog
<1>9. mmio' = Append(mmio, req)
  OBVIOUS
<1> HIDE DEF req
<1>10. /\ PipeInv' /\ Applied' = Applied /\ Rel' = Rel /\ c2 = None /\ answer = None
  BY <1>1, <1>2, <1>3, <1>5, <1>7, <1>8, <1>9, AppendPipe
<1>11. Rel \in Int
  BY <1>2, RelBound
<1>12. QueueInv'
  BY <1>2, <1>3 DEF QueueInv, NumUnits
<1>13. ParamInv'
  BY <1>1, <1>2, <1>3, <1>6, <1>10, <1>11, ParamHost
<1>14. /\ CtrlInv' /\ (UnitData => UnitData') /\ (WritesInv => WritesInv')
  BY <1>1, <1>2, <1>3, <1>10, <1>11, SameHost
<1>15. Finished' = Finished
  BY <1>3 DEF Finished, NumUnits
<1>16. kept => UnitData' /\ WritesInv'
  BY <1>2, <1>14 DEF DataInv
<1>17. DataInv'
  BY <1>1, <1>2, <1>3, <1>15, <1>16, DataHost
<1> QED
  BY <1>10, <1>12, <1>13, <1>14, <1>17 DEF J

\* An empty pipe stays empty.
LEMMA EmptyPipe ==
  ASSUME PipeInv, PipeEmpty, hpc' \in HostPC, scan' \in Scan, mmio' = mmio, c2 = None, answer' = None,
         UNCHANGED <<csr_rx, csr_wr, c2, gap>>
  PROVE  /\ PipeInv' /\ PipeEmpty' /\ Applied' = Issued' /\ Rel' = Place(hpc') /\ Rel' \in 0 .. 7
<1>1. mmio' = <<>> /\ csr_rx' = None /\ csr_wr' = None /\ Len(mmio') = 0
  BY DEF PipeEmpty
<1>2. Place(hpc') \in 0 .. 7
  BY PlaceIs DEF HostPC
<1>3. Base' \in Nat /\ Issued' = Base' + Place(hpc')
  BY Constants DEF Base, Issued, Place
<1>4. Issued' \in Nat
  BY <1>2, <1>3
<1>5. Arrived' = Issued'
  <2>1. Arrived' = Issued' - Len(mmio') /\ Len(mmio') = 0
    BY <1>1 DEF Arrived
  <2>2. \A a \in Nat : a - 0 = a
    OBVIOUS
  <2>3. Arrived' = Issued' - 0
    BY <2>1, Zenon
  <2> QED
    BY <1>4, <2>2, <2>3, Zenon
<1>6. Applied' = Issued'
  BY <1>1, <1>5 DEF Applied
<1>7. Rel' = Place(hpc')
  <2>1. Rel' = Applied' - Base'
    BY DEF Rel
  <2> QED
    BY <1>2, <1>3, <1>6, <2>1
<1>8. PipeEmpty'
  BY <1>1 DEF PipeEmpty
<1>9. PipeInv'
  BY <1>1, <1>4 DEF PipeInv
<1> QED
  BY <1>2, <1>6, <1>7, <1>8, <1>9

LEMMA LoopEndsKeeps ==
  ASSUME J, LoopEnds
  PROVE  J'
<1>1. /\ UNCHANGED afuVars /\ UNCHANGED <<gap, answer, reading, writing, memory, kept, lied, result>>
      /\ UNCHANGED <<csr_rx, csr_wr, c2, scan, queue, part, mmio>>
      /\ hpc = "loop" /\ hpc' = "copy" /\ queue = <<>>
  BY DEF LoopEnds, Other, afuVars
<1>2. PipeInv /\ QueueInv /\ ParamInv /\ CtrlInv /\ DataInv
  BY DEF J
<1>3. Base' = Base /\ Buffer' = Buffer /\ hpc # "done" /\ hpc' # "done" /\ ~InPart /\ ~InPart'
      /\ Place(hpc') = Place(hpc)
  BY <1>1, PlaceIs DEF Base, Buffer, InPart
<1>4. Issued' = Issued
  BY <1>3 DEF Issued, Place
<1>5. \A i : Prog(i)' = Prog(i)
  BY <1>1, <1>3 DEF Prog, Setup
<1>6. Arrived' = Arrived /\ (PipeEmpty' <=> PipeEmpty)
  BY <1>1, <1>4 DEF Arrived, PipeEmpty
<1>7. Applied' = Applied
  BY <1>1, <1>6 DEF Applied
<1>8. Rel' = Rel
  BY <1>3, <1>7 DEF Rel
<1>9. c2 = None /\ answer = None
  BY <1>1, <1>2 DEF PipeInv
<1>10. PipeInv'
  BY <1>1, <1>2, <1>4, <1>5, <1>6, <1>9 DEF PipeInv, HostPC
<1>11. Rel \in Int /\ Rel <= 4
  BY <1>1, <1>2, RelBound, PlaceIs
<1>12. QueueInv'
  BY <1>1, <1>2, <1>3, <1>6 DEF QueueInv, NumUnits
<1>13. ParamInv'
  BY <1>1, <1>2, <1>3, <1>7, <1>8, <1>11, ParamHost
<1>14. CtrlInv' /\ UnitData' /\ LinesDone' = 0 /\ LinesDone = 0
  BY <1>1, <1>2, <1>8, <1>9, <1>11, QuietHost
<1>15. Finished' = Finished
  BY <1>1, <1>3 DEF Finished, NumUnits
<1>16. kept => WritesInv'
  BY <1>1, <1>2, <1>14, QuietWrites DEF DataInv
<1>17. DataInv'
  BY <1>1, <1>2, <1>3, <1>14, <1>15, <1>16, DataHost
<1> QED
  BY <1>10, <1>12, <1>13, <1>14, <1>17 DEF J

LEMMA AnswerKeeps ==
  ASSUME J, Answer
  PROVE  J'
<1>1. /\ UNCHANGED afuVars /\ UNCHANGED <<gap, reading, writing, memory, lied, result>>
      /\ UNCHANGED <<csr_rx, csr_wr, c2, scan, queue, part, mmio>>
      /\ hpc = "answer" /\ answer # None /\ answer' = None
      /\ hpc' = (IF answer THEN "loop" ELSE "poll")
      /\ kept' => kept /\ (answer => writing = {})
  BY DEF Answer, afuVars
<1>2. PipeInv /\ QueueInv /\ ParamInv /\ CtrlInv /\ DataInv
  BY DEF J
<1>3. PipeEmpty /\ c2 = None /\ answer \in BOOLEAN
  BY <1>1, <1>2 DEF PipeInv
<1>4. hpc' \in HostPC /\ scan' \in Scan /\ InPart /\ hpc # "done" /\ hpc' # "done"
      /\ scan \in Scan
  BY <1>1, <1>2 DEF PipeInv, HostPC, InPart
<1>5. /\ PipeInv' /\ PipeEmpty' /\ Applied' = Issued' /\ Rel' = Place(hpc') /\ Rel' \in 0 .. 7
  BY <1>1, <1>2, <1>3, <1>4, EmptyPipe
<1>6. Rel = 7 /\ Applied = Issued /\ Issued >= 7 /\ Issued \in Nat
  <2>1. Applied = Issued /\ Rel = Place(hpc) /\ Base \in Nat
    BY <1>2, <1>3, RelBound
  <2>2. Issued = Base + 7
    BY <1>1, PlaceIs DEF Issued
  <2> QED
    BY <1>1, <2>1, <2>2, PlaceIs
<1>7. Base' = Base /\ Buffer' = Buffer
  BY <1>1 DEF Base, Buffer
<1>8. Rel' \in Int /\ Rel' <= Rel /\ Applied >= 1
  BY <1>5, <1>6
<1>9. ParamInv'
  BY <1>1, <1>2, <1>4, <1>7, <1>8, ParamHost
<1>10. QueueInv'
  BY <1>1, <1>2, <1>5 DEF QueueInv, InPart, NumUnits
<1>11. CASE answer = FALSE
  <2>1. hpc' = "poll" /\ Rel' = 6 /\ InPart'
    BY <1>1, <1>5, <1>11, PlaceIs DEF InPart
  <2>2. ~(c2' = TRUE \/ answer' = TRUE)
    BY <1>1, <1>3, NoneAssumption
  <2>3. CtrlInv' /\ (UnitData => UnitData') /\ (WritesInv => WritesInv')
    <3>1. /\ Rel \in Int /\ Rel' \in Int /\ (Rel' >= 5 <=> Rel >= 5) /\ (Rel' >= 6 <=> Rel >= 6)
      BY <1>6, <2>1
    <3> QED
      BY <1>1, <1>2, <1>4, <2>1, <2>2, <3>1, SameHost
  <2>4. Finished' = Finished
    BY <1>1, <1>4, <2>1 DEF Finished, NumUnits
  <2>5. kept => UnitData' /\ WritesInv'
    BY <1>2, <2>3 DEF DataInv
  <2>6. DataInv'
    BY <1>1, <1>2, <1>4, <2>4, <2>5, DataHost
  <2> QED
    BY <1>5, <1>9, <1>10, <2>3, <2>6 DEF J
\* The partition is finished: all its lines are in memory.
<1>12. CASE answer = TRUE
  <2>1. hpc' = "loop" /\ Rel' = 4 /\ ~InPart'
    BY <1>1, <1>5, <1>12, PlaceIs DEF InPart
  <2>2. state = "waiting" /\ ~new_partition_ready
    BY <1>2, <1>12 DEF CtrlInv, ReadyInv
  <2>3. CtrlInv' /\ UnitData' /\ LinesDone' = 0 /\ c1 = None
    BY <1>1, <1>2, <1>3, <1>8, <2>1, <2>2, WaitHost
  <2>4. LinesDone = TotalCls(scan)
    <3>1. LinesDone = total_cls
      BY <1>4, <1>6, <2>2 DEF LinesDone
    <3>2. total_cls = TotalCls(scan)
      BY <1>2, <1>6 DEF ParamInv
    <3> QED
      BY <3>1, <3>2
  <2>5. NumUnits(scan) \in Nat /\ Len(queue) \in Nat
    BY <1>2, <1>4, Constants DEF QueueInv
  <2>6. part = NumUnits(scan) - Len(queue) - 1 /\ part >= 0
    BY <1>2, <1>4 DEF QueueInv
  <2>7. Finished = part /\ Finished' = part + 1 /\ part \in Nat
    <3>1. Finished = NumUnits(scan) - Len(queue) - 1
      BY <1>4 DEF Finished
    <3>2. Finished' = NumUnits(scan) - Len(queue) - 0
      BY <1>1, <2>1 DEF Finished, NumUnits
    <3> QED
      BY <2>5, <2>6, <3>1, <3>2
  <2>8. DOMAIN result' = Scan
    BY <1>1, <1>2 DEF DataInv
  <2>9. ASSUME kept' PROVE WritesInv' /\ FinishedInv' /\ ResultsComplete'
    <3>1. kept /\ writing = {}
      BY <1>1, <1>12, <2>9
    <3>2. WritesInv'
      BY <1>1, <1>2, <2>3, <3>1 DEF DataInv, WritesInv
    <3>3. ResultsComplete'
      BY <1>1, <1>2, <3>1 DEF DataInv, ResultsComplete, PartitionRight, Right
    <3>4. ASSUME NEW l \in 0 .. TotalCls(scan) - 1
          PROVE  memory[<<Buffer, l>>] = Right(scan, part, l)
      <4>1. l \in 0 .. LinesDone - 1
        BY <2>4
      <4>2. memory[<<Buffer, l>>] = Right(scan, part, l) \/ RightWrite(l) \in writing \cup {c1}
        BY <1>2, <3>1, <4>1 DEF DataInv, WritesInv
      <4>3. RightWrite(l) # None
        BY <1>2, <4>1, WritePresent
      <4> QED
        BY <2>3, <3>1, <4>2, <4>3
    <3>5. FinishedInv'
      <4> SUFFICES ASSUME NEW p \in 0 .. part, NEW l \in 0 .. TotalCls(scan) - 1
                   PROVE  memory[<<<<ScanType[scan], p>>, l>>] = Right(scan, p, l)
        <5>1. \A p : p \in 0 .. Finished' - 1 => p \in 0 .. part
          BY <2>7
        <5> QED
          BY <1>1, <5>1 DEF FinishedInv, Right
      <4>1. CASE p = part
        BY <3>4, <4>1 DEF Buffer
      <4>2. CASE p # part
        <5>1. p \in 0 .. Finished - 1
          BY <2>7, <4>2
        <5> QED
          BY <1>2, <1>4, <3>1, <5>1 DEF DataInv, FinishedInv
      <4> QED
        BY <4>1, <4>2
    <3> QED
      BY <3>2, <3>3, <3>5
  <2>10. DataInv'
    BY <2>3, <2>8, <2>9 DEF DataInv
  <2> QED
    BY <1>5, <1>9, <1>10, <2>3, <2>10 DEF J
<1> QED
  BY <1>3, <1>11, <1>12

\* The last scan is copied, and the query reported done.
LEMMA DoneKeeps ==
  ASSUME J, CopyResults, ~(scan < Len(ScanType))
  PROVE  /\ PipeInv' /\ QueueInv' /\ ParamInv' /\ CtrlInv' /\ FinishedInv'
         /\ kept => UnitData' /\ WritesInv'
<1>1. /\ UNCHANGED afuVars /\ UNCHANGED <<gap, answer, reading, writing, memory, kept, lied>>
      /\ UNCHANGED <<csr_rx, csr_wr, c2, scan, queue, part>>
      /\ hpc = "copy" /\ hpc' = "done"
      /\ mmio' = Append(mmio, WriteCSR(QUERY_STATE, QUERY_DONE))
  BY DEF CopyResults, afuVars
<1>2. PipeInv /\ QueueInv /\ ParamInv /\ CtrlInv /\ DataInv
  BY DEF J
<1>3. /\ hpc # "answer" /\ hpc' \in HostPC /\ Place(hpc') = Place(hpc) + 1 /\ hpc # "done"
      /\ ~InPart /\ ~InPart'
  BY <1>1, PlaceIs DEF HostPC, InPart
<1>4. Issued = Base + 4 /\ Base \in Nat /\ (Base = 0 \/ Base = 4) /\ Issued \in Nat
  BY <1>1, <1>2, IssuedIs, PlaceIs
<1>5. WriteCSR(QUERY_STATE, QUERY_DONE) \in Request
  BY RequestIs DEF QUERY_STATE, QUERY_DONE
<1>6. \A i \in 1 .. Issued : Prog(i)' = Prog(i)
  <2>1. ASSUME NEW i \in 1 .. Issued PROVE i \in Nat /\ i - Base <= 4 /\ i >= 1
    BY <1>4
  <2> QED
    BY <1>1, <2>1, ProgKept
<1>7. ASSUME NEW i, i = Issued + 1 PROVE Prog(i)' = WriteCSR(QUERY_STATE, QUERY_DONE)
  <2>1. ~(i <= Base) /\ i - Base = 5 /\ i - Base \notin 1 .. 4
    BY <1>4, <1>7
  <2>2. Base' = Base
    BY <1>1 DEF Base
  <2> QED
    BY <1>1, <2>1, <2>2 DEF Prog
<1>8. /\ PipeInv' /\ Applied' = Applied /\ Rel' = Rel /\ c2 = None /\ answer = None
  BY <1>1, <1>2, <1>3, <1>5, <1>6, <1>7, AppendPipe
<1>9. Rel \in Int /\ Rel <= 4
  BY <1>1, <1>2, RelBound, PlaceIs
<1>10. QueueInv'
  BY <1>1, <1>2, <1>3 DEF QueueInv, NumUnits
<1>11. ParamInv'
  BY <1>1, <1>2, <1>3, <1>8, <1>9, ParamHost
<1>12. CtrlInv' /\ UnitData' /\ LinesDone' = 0 /\ LinesDone = 0
  BY <1>1, <1>2, <1>8, <1>9, QuietHost
<1>13. kept => WritesInv'
  BY <1>1, <1>2, <1>12, QuietWrites DEF DataInv
<1>14. FinishedInv'
  BY <1>1 DEF FinishedInv
<1> QED
  BY <1>8, <1>10, <1>11, <1>12, <1>13, <1>14

\* The next scan starts: its predecessor's pipe is empty, or has its set-up alone.
LEMMA NextScanKeeps ==
  ASSUME J, CopyResults, scan < Len(ScanType)
  PROVE  /\ PipeInv' /\ QueueInv' /\ ParamInv' /\ CtrlInv' /\ FinishedInv'
         /\ kept => UnitData' /\ WritesInv'
<1>1. /\ UNCHANGED afuVars /\ UNCHANGED <<gap, answer, reading, writing, memory, kept, lied>>
      /\ UNCHANGED <<csr_rx, csr_wr, c2, mmio, part>>
      /\ hpc = "copy" /\ hpc' = "notify" /\ scan' = scan + 1
      /\ queue' = HandlerWorkItems(scan + 1)
  BY DEF CopyResults, afuVars
<1>2. PipeInv /\ QueueInv /\ ParamInv /\ CtrlInv /\ DataInv
  BY DEF J
<1>3. scan \in Scan /\ scan' \in Scan /\ scan \in Nat /\ scan >= 1 /\ scan' > 1 /\ scan' = scan + 1
  <2>1. Len(ScanType) \in Nat /\ scan \in Scan
    BY <1>2, FpgaScanAssumption DEF PipeInv
  <2> QED
    BY <1>1, <2>1 DEF Scan
<1>4. /\ hpc \in HostPC /\ hpc' \in HostPC /\ Place(hpc') = 0 /\ Place(hpc) = 4 /\ hpc # "done"
      /\ ~InPart /\ ~InPart' /\ hpc' # "done"
  BY <1>1, PlaceIs DEF HostPC, InPart
<1>5. c2 = None /\ answer = None /\ Rel \in Int /\ Rel <= 4 /\ Applied \in Int
  BY <1>1, <1>2, <1>4, RelBound DEF PipeInv
<1>6. NumUnits(scan') = Partitions[scan'] /\ Partitions[scan'] \in Nat \ {0}
  BY <1>3, Constants DEF NumUnits
<1>7. queue' \in Seq(Nat) /\ Len(queue') = NumUnits(scan')
      /\ \A i \in 1 .. Len(queue') : queue'[i] = i - 1
  BY <1>1, <1>3, <1>6, UnitsAre DEF HandlerWorkItems
<1>8. state = "waiting" /\ ~new_partition_ready
  BY <1>2, <1>5 DEF CtrlInv, ReadyInv
<1>9. /\ PipeInv' /\ Rel' \in Int /\ Rel' <= 0
      /\ (Applied' >= 1 \/ (scan' > 1 /\ Base' = 0)) => query_state = SCAN_PROCESSING
  <2>1. CASE NumUnits(scan) = 0
    <3>1. scan = 1 /\ Partitions[1] = 1
      <4>1. scan = 1
        BY <1>3, <2>1, Constants
      <4>2. Partitions[1] - 1 = 0 /\ Partitions[1] \in Nat
        BY <2>1, <4>1, Constants DEF NumUnits
      <4> QED
        BY <4>1, <4>2
    <3>2. Base = 0 /\ Base' = 4
      BY <1>3, <3>1 DEF Base
    <3>3. Issued = 4 /\ Issued' = 4
      <4>1. Issued = Base + Place(hpc) /\ Issued' = Base' + Place(hpc')
        BY DEF Issued, Place
      <4> QED
        BY <1>4, <3>2, <4>1
    <3>4. Arrived' = Arrived /\ Arrived \in Nat /\ Arrived <= 4 /\ Len(mmio) \in Nat /\ Arrived = 4 - Len(mmio)
      <4>1. Arrived' = Issued' - Len(mmio')
        BY DEF Arrived
      <4>2. Len(mmio) \in Nat /\ Arrived = Issued - Len(mmio) /\ Arrived \in Nat
        BY <1>2, IssuedIs
      <4> QED
        BY <1>1, <3>3, <4>1, <4>2
    <3>5. ASSUME NEW i \in 1 .. 4 PROVE Prog(i)' = Prog(i)
      <4>1. Prog(i) = Setup(1, i)
        BY <3>1, <3>2, <3>5 DEF Prog
      <4>2. Prog(i)' = Setup(1, i)
        BY <3>2, <3>5 DEF Prog, Setup
      <4> QED
        BY <4>1, <4>2
    <3>6. PipeInv'
      <4>1. \A i \in 1 .. Len(mmio) : mmio[i] = Prog(Arrived + i)'
        <5> SUFFICES ASSUME NEW i \in 1 .. Len(mmio) PROVE mmio[i] = Prog(Arrived + i)'
          OBVIOUS
        <5>1. Arrived + i \in 1 .. 4
          BY <3>4
        <5>2. mmio[i] = Prog(Arrived + i)
          BY <1>2 DEF PipeInv
        <5>3. \A j \in 1 .. 4 : j = Arrived + i => Prog(j)' = mmio[i]
          BY <3>5, <5>2
        <5> QED
          BY <3>4, <5>1, <5>3
      <4>2. Arrived >= 1 => \A j : j = Arrived => Prog(j)' = Prog(Arrived)
        BY <3>4, <3>5
      <4>3. /\ csr_rx # None => Arrived >= 1 /\ csr_rx = Prog(Arrived)' /\ csr_wr = None /\ gap = MinGap - 1
            /\ csr_wr # None => Arrived >= 1 /\ csr_wr = Prog(Arrived)' /\ csr_wr.op = "write"
        BY <1>2, <3>4, <4>2 DEF PipeInv
      <4>4. mmio \in Seq(Request) /\ Len(mmio) <= 4 /\ gap \in 0 .. MinGap - 1
        BY <1>2, <3>3 DEF PipeInv
      <4> QED
        BY <1>1, <1>3, <1>4, <1>5, <3>3, <3>4, <4>1, <4>3, <4>4 DEF PipeInv
    <3>7. Applied' = Applied
      BY <1>1, <3>4 DEF Applied
    <3>8. Rel' \in Int /\ Rel' <= 0
      <4>1. Rel' = Applied' - Base' /\ Rel = Applied - Base
        BY DEF Rel
      <4> QED
        BY <1>5, <3>2, <3>7, <4>1
    <3>9. Applied' >= 1 => query_state = SCAN_PROCESSING
      BY <1>2, <1>4, <3>7 DEF ParamInv
    <3> QED
      BY <3>2, <3>6, <3>8, <3>9
  <2>2. CASE NumUnits(scan) # 0
    <3>1. PipeEmpty
      <4>1. Len(queue) = 0 /\ NumUnits(scan) \in Nat
        BY <1>1, <1>2, <1>3, Constants DEF QueueInv
      <4>2. Len(queue) < NumUnits(scan)
        BY <2>2, <4>1
      <4> QED
        BY <1>1, <1>2, <4>2 DEF QueueInv
    <3>2. PipeInv' /\ Rel' = 0
      BY <1>1, <1>2, <1>3, <1>4, <1>5, <3>1, EmptyPipe
    <3>3. Applied >= 1
      BY <1>2, <1>4, <3>1, RelBound
    <3>4. query_state = SCAN_PROCESSING
      BY <1>2, <1>4, <3>3 DEF ParamInv
    <3> QED
      BY <3>2, <3>4
  <2> QED
    BY <2>1, <2>2
<1>10. QueueInv'
  <2>1. \A i \in 1 .. Len(queue') : queue'[i] = NumUnits(scan') - Len(queue') + i - 1
    BY <1>6, <1>7
  <2>2. Len(queue') <= NumUnits(scan') /\ ~(Len(queue') < NumUnits(scan'))
    BY <1>6, <1>7
  <2> QED
    BY <1>1, <1>4, <1>7, <2>1, <2>2 DEF QueueInv, NumUnits
<1>11. ParamInv'
  <2>1. ~(Rel' >= 2) /\ ~(Rel' >= 3) /\ ~(Rel' >= 4) /\ ~(Rel' >= 5) /\ ~(Rel' >= 6)
    BY <1>9
  <2>2. query_state' = query_state /\ held' = held
    BY <1>1 DEF afuVars
  <2> QED
    BY <1>2, <1>9, <2>1, <2>2 DEF ParamInv
<1>12. CtrlInv' /\ UnitData' /\ LinesDone' = 0 /\ LinesDone = 0
  <2>1. Rel' <= 4
    BY <1>9
  <2> QED
    BY <1>1, <1>2, <1>5, <1>9, <2>1, QuietHost
<1>13. kept => WritesInv'
  BY <1>1, <1>2, <1>12, QuietWrites DEF DataInv
<1>14. FinishedInv'
  <2>1. Finished' = NumUnits(scan') - Len(queue') - 0
    BY <1>4 DEF Finished, NumUnits
  <2>2. Finished' = 0
    BY <1>6, <1>7, <2>1
  <2> QED
    BY <2>2 DEF FinishedInv
<1> QED
  BY <1>9, <1>10, <1>11, <1>12, <1>13, <1>14

\* The work units of a scan are its partitions, the first scan's last one aside.
LEMMA QueuedAre ==
  ASSUME NEW s \in Scan, NEW p \in Queued(s)
  PROVE  p \in 0 .. NumUnits(s) - 1 /\ p \in PartId(s)
<1>1. NumUnits(s) \in Nat /\ NumUnits(s) <= Partitions[s] /\ Partitions[s] \in Nat \ {0}
  BY Constants
<1>2. Queued(s) = ToSet(Units(NumUnits(s)))
  BY DEF Queued, MainWorkItems, HandlerWorkItems, NumUnits
<1>3. Units(NumUnits(s)) = [i \in 1 .. NumUnits(s) |-> i - 1]
  BY DEF Units
<1>4. PICK i \in 1 .. NumUnits(s) : p = i - 1
  BY <1>2, <1>3 DEF ToSet
<1> QED
  BY <1>1, <1>4 DEF PartId

LEMMA CopyKeeps ==
  ASSUME J, CopyResults
  PROVE  J'
<1>1. /\ PipeInv' /\ QueueInv' /\ ParamInv' /\ CtrlInv' /\ FinishedInv'
      /\ kept => UnitData' /\ WritesInv'
  BY DoneKeeps, NextScanKeeps
<1>2. /\ hpc = "copy" /\ UNCHANGED <<kept, lied, memory>>
      /\ result' = [result EXCEPT ![scan] =
           [p \in PartId(scan) |->
              [l \in 0 .. TotalCls(scan) - 1 |-> memory[<<<<ScanType[scan], p>>, l>>]]]]
  BY DEF CopyResults
<1>3. PipeInv /\ QueueInv /\ DataInv /\ DOMAIN result = Scan /\ scan \in Scan
  BY DEF J, DataInv, PipeInv
<1>4. DOMAIN result' = Scan
  BY <1>2, <1>3
<1>5. ASSUME kept PROVE ResultsComplete'
  <2> SUFFICES ASSUME ~lied, NEW s \in Scan, result'[s] # None, NEW p \in Queued(s),
                      NEW l \in 0 .. TotalCls(s) - 1
               PROVE  result'[s][p][l] = Right(s, p, l)
    BY <1>2 DEF ResultsComplete, PartitionRight, Right
  <2>1. CASE s # scan
    <3>1. result'[s] = result[s]
      BY <1>2, <1>3, <2>1
    <3> QED
      BY <1>3, <1>5, <3>1 DEF DataInv, ResultsComplete, PartitionRight
  <2>2. CASE s = scan
    <3>1. result'[s][p][l] = memory[<<<<ScanType[scan], p>>, l>>]
      <4>1. p \in PartId(scan) /\ l \in 0 .. TotalCls(scan) - 1
        BY <2>2, QueuedAre
      <4>2. result'[scan] = [q \in PartId(scan) |->
               [k \in 0 .. TotalCls(scan) - 1 |-> memory[<<<<ScanType[scan], q>>, k>>]]]
        BY <1>2, <1>3
      <4> QED
        BY <2>2, <4>1, <4>2
    <3>2. Finished = NumUnits(scan)
      <4>1. Len(queue) = 0 /\ ~InPart /\ NumUnits(scan) \in Nat
        BY <1>2, <1>3, Constants DEF QueueInv, InPart
      <4> QED
        BY <4>1 DEF Finished
    <3>3. p \in 0 .. Finished - 1
      BY <2>2, <3>2, QueuedAre
    <3>4. FinishedInv /\ hpc # "done"
      BY <1>2, <1>3, <1>5 DEF DataInv
    <3>5. memory[<<<<ScanType[scan], p>>, l>>] = Right(scan, p, l)
      BY <2>2, <3>3, <3>4 DEF FinishedInv
    <3> QED
      BY <2>2, <3>1, <3>5
  <2> QED
    BY <2>1, <2>2
<1>6. DataInv'
  BY <1>1, <1>2, <1>4, <1>5 DEF DataInv
<1> QED
  BY <1>1, <1>6 DEF J

LEMMA HostKeeps ==
  ASSUME J, Host, ~lied'
  PROVE  J'
<1> USE PlaceIs
<1>1. 1 \in 1 .. 4 /\ 2 \in 1 .. 4 /\ 3 \in 1 .. 4 /\ 4 \in 1 .. 4
  OBVIOUS
<1>2. scan \in Scan
  BY DEF J, PipeInv
<1>3. CASE Notify
  <2>1. mmio' = Append(mmio, Setup(scan, 1))
    BY <1>2, <1>3, SetupIs DEF Notify, Access
  <2> QED
    BY <1>1, <1>3, <2>1, SetupKeeps DEF Notify, Access
<1>4. CASE WriteTotalCls
  <2>1. mmio' = Append(mmio, Setup(scan, 2))
    BY <1>2, <1>4, SetupIs DEF WriteTotalCls, Access
  <2> QED
    BY <1>1, <1>4, <2>1, SetupKeeps DEF WriteTotalCls, Access
<1>5. CASE WriteFilterPredicate
  <2>1. mmio' = Append(mmio, Setup(scan, 3))
    BY <1>2, <1>5, SetupIs DEF WriteFilterPredicate, Access
  <2> QED
    BY <1>1, <1>5, <2>1, SetupKeeps DEF WriteFilterPredicate, Access
<1>6. CASE WriteJobType
  <2>1. mmio' = Append(mmio, Setup(scan, 4))
    BY <1>2, <1>6, SetupIs DEF WriteJobType, Access
  <2> QED
    BY <1>1, <1>6, <2>1, SetupKeeps DEF WriteJobType, Access
<1>7. CASE WriteColumnAddress
  BY <1>7, ColumnAddressKeeps
<1>8. CASE WriteResultAddress
  <2> DEFINE to == "poll"
  <2>1. hpc = "result_address" /\ to = "poll" /\ hpc' = to /\ UNCHANGED <<scan, queue, part>> /\ Other
    BY <1>8 DEF WriteResultAddress, Access
  <2>2. mmio' = Append(mmio, IF to = "poll" THEN WriteCSR(RESULT_ADDRESS, Buffer)
                             ELSE ReadCSR(PARTITION_PROCESSED))
    BY <1>8 DEF WriteResultAddress, Access
  <2> HIDE DEF to
  <2> QED
    BY <2>1, <2>2, InPartKeeps
<1>9. CASE LoopEnds
  BY <1>9, LoopEndsKeeps
<1>10. CASE Poll
  BY <1>10, InPartKeeps DEF Poll, Access
<1>11. CASE PollFails
  BY <1>11 DEF PollFails
<1>12. CASE Answer
  BY <1>12, AnswerKeeps
<1>13. CASE CopyResults
  BY <1>13, CopyKeeps
<1> QED
  BY <1>3, <1>4, <1>5, <1>6, <1>7, <1>8, <1>9, <1>10, <1>11, <1>12, <1>13 DEF Host

LEMMA NextKeeps == IInv /\ [Next]_vars => IInv'
<1> SUFFICES ASSUME IInv, [Next]_vars, ~lied' PROVE J'
  BY DEF IInv
<1>1. ASSUME NEW full \in BOOLEAN,
             Tick(full) \/ TickRequest(full) \/ \E line \in reading : TickResponse(line, full)
      PROVE  J'
  <2>1. lied' = lied
    <3>1. \E rx : Edge(rx, full)
      BY <1>1, EdgeIs
    <3> QED
      BY <3>1 DEF Edge, Ports, hostVars
  <2> QED
    BY <1>1, <2>1, EdgeKeeps DEF IInv
<1>2. CASE Host
  <2>1. ~lied
    BY <1>2 DEF Host, Notify, WriteTotalCls, WriteFilterPredicate, WriteJobType,
                WriteColumnAddress, WriteResultAddress, LoopEnds, Poll, PollFails, Answer,
                CopyResults, Other
  <2> QED
    BY <1>2, <2>1, HostKeeps DEF IInv
<1>3. ASSUME NEW w \in writing, WriteLands(w)
      PROVE  J'
  <2>1. lied' = lied
    BY <1>3 DEF WriteLands, hostVars
  <2> QED
    BY <1>3, <2>1, LandsKeeps DEF IInv
<1>4. CASE UNCHANGED vars
  <2>1. lied' = lied
    BY <1>4 DEF vars, hostVars
  <2> QED
    BY <1>4, <2>1, StutterKeeps DEF IInv
<1> QED
  BY <1>1, <1>2, <1>3, <1>4 DEF Next

\* While no MMIO read has failed, the host, the requests in the pipe and the
\* unit agree on the partition and the line they are at.
THEOREM Invariant == Spec => []IInv
<1>1. FpgaInit => IInv
  BY InitInv DEF IInv
<1> QED
  BY <1>1, NextKeeps, PTL DEF Spec

-----------------------------------------------------------------------------
(* What follows for the properties of FpgaScan. *)

\* A cache line memory still owes finds the unit waiting for it: no response is
\* lost between the always_ff blocks.
THEOREM Reader == Spec => []ResponseHasReader
<1>1. IInv => ResponseHasReader
  <2> SUFFICES ASSUME J, reading # {}
               PROVE  Cardinality(reading) = 1 /\ state = "rsp" /\ ~cl_received
    BY DEF IInv, ResponseHasReader
  <2>1. reading = {Fetched} /\ state = "rsp" /\ ~cl_received
    BY DEF J, CtrlInv, PortInv
  <2> QED
    BY <2>1, FS_Singleton
<1> QED
  BY <1>1, Invariant, PTL

\* After QUERY_DONE nothing of the AFU's is on the ports or in memory, and the
\* latches of the memory ports hold nothing: the buffers may be released.
THEOREM Quiet == Spec => []QuietWhenDone
<1>1. IInv => QuietWhenDone
  <2> SUFFICES ASSUME J, ~lied
               PROVE  /\ hpc = "done" => /\ reading = {} /\ c0 = None /\ c1 = None
                                         /\ kept => writing = {}
                      /\ query_state = QUERY_DONE => Bus = [c0 |-> None, c1 |-> None]
    BY DEF IInv, QuietWhenDone
  <2>1. ASSUME hpc = "done"
        PROVE  reading = {} /\ c0 = None /\ c1 = None /\ (kept => writing = {})
    <3>1. ~InPart /\ state = "waiting"
      BY <2>1 DEF InPart, J, CtrlInv, ReadyInv
    <3>2. reading = {} /\ c0 = None /\ c1 = None
      BY <3>1 DEF J, CtrlInv, PortInv
    <3>3. LinesDone = 0
      BY <3>1 DEF LinesDone
    <3>4. kept => writing = {}
      BY <3>3 DEF J, DataInv, WritesInv
    <3> QED
      BY <3>2, <3>4
  <2>2. ASSUME query_state = QUERY_DONE PROVE Bus = [c0 |-> None, c1 |-> None]
    <3>1. held = [c0 |-> None, c1 |-> None]
      BY <2>2 DEF J, ParamInv
    <3>2. Bus = held
      BY <2>2 DEF Bus, QUERY_DONE, SCAN_PROCESSING
    <3> QED
      BY <3>1, <3>2
  <2> QED
    BY <2>1, <2>2
<1> QED
  BY <1>1, Invariant, PTL

\* No store of the host changes a parameter of a scan that is running.
THEOREM Held == Spec => ParametersHeld
<1> DEFINE A == /\ ~lied /\ state # "waiting" =>
                     UNCHANGED <<read_buff_address, total_cls, filter_pred, scan_column,
                                 query_state>>
                /\ kept' /\ ~lied /\ state = "processing" => UNCHANGED write_buff_address
<1>1. IInv /\ IInv' /\ [Next]_vars => A
  <2> SUFFICES ASSUME J, IInv', [Next]_vars, ~lied PROVE A
    BY DEF IInv
  <2>1. ASSUME UNCHANGED afuVars PROVE A
    BY <2>1 DEF afuVars, params
  <2>2. ASSUME NEW full \in BOOLEAN,
               Tick(full) \/ TickRequest(full) \/ \E line \in reading : TickResponse(line, full),
               state # "waiting"
        PROVE  A
    <3>1. PICK rx : Edge(rx, full)
      BY <2>2, EdgeIs
    <3>2. PipeInv /\ QueueInv /\ ParamInv /\ CtrlInv
      BY DEF J
    <3>3. PipeInv' /\ QueueInv' /\ Advance
      BY <3>1, <3>2, PipeEdge
    <3>4. ParamInv'
      BY <3>1, <3>2, <3>3, ParamEdge
    <3>5. /\ UNCHANGED <<total_cls, scan_column, read_buff_address, filter_pred>>
          /\ InPart' /\ Buffer' = Buffer /\ Rel' \in Int
      BY <2>2, <3>1, <3>2, <3>3, <3>4, BusyEdge
    <3>6. query_state' = query_state
      <4>1. query_state = SCAN_PROCESSING /\ Applied >= 1
        BY <2>2, <3>2, BusyIs
      <4>2. Applied' >= 1 /\ hpc' # "done"
        <5>1. Applied \in Nat /\ Applied' \in Nat /\ (Applied' = Applied \/ Applied' = Applied + 1)
          BY <3>3 DEF Advance
        <5> QED
          BY <3>5, <4>1, <5>1 DEF InPart
      <4> QED
        BY <3>4, <4>1, <4>2 DEF ParamInv
    <3>7. ASSUME kept', state = "processing" PROVE write_buff_address' = write_buff_address
      <4>1. kept
        BY <3>1, <3>7 DEF Edge
      <4>2. Rel >= 6
        BY <3>7, <4>1 DEF J, DataInv, UnitData
      <4>3. Rel' >= 6
        BY <3>2, <3>3, <4>2, LaterIs
      <4> QED
        BY <3>2, <3>4, <3>5, <4>2, <4>3 DEF ParamInv
    <3> QED
      BY <3>5, <3>6, <3>7
  <2>3. CASE state = "waiting"
    BY <2>3
  <2>4. CASE Host
    BY <2>1, <2>4 DEF Host, Notify, WriteTotalCls, WriteFilterPredicate, WriteJobType,
                WriteColumnAddress, WriteResultAddress, LoopEnds, Poll, PollFails, Answer,
                CopyResults, Other
  <2>5. ASSUME NEW w \in writing, WriteLands(w) PROVE A
    BY <2>1, <2>5 DEF WriteLands
  <2>6. CASE UNCHANGED vars
    BY <2>1, <2>6 DEF vars
  <2> HIDE DEF A
  <2> QED
    BY <2>2, <2>3, <2>4, <2>5, <2>6 DEF Next
<1>2. IInv /\ IInv' /\ [Next]_vars => [A]_vars
  BY <1>1
<1> QED
  BY <1>2, Invariant, PTL DEF Spec, ParametersHeld

\* If memory answers and accepts as the code relies on, and no MMIO read fails,
\* copyFPGAWriteBuffer hands on every line of every partition that was queued,
\* filtered by the unit and the predicate of its own scan.
THEOREM Results == Spec => []ResultsComplete
<1>1. IInv => ResultsComplete
  BY DEF IInv, J, DataInv, ResultsComplete
<1> QED
  BY <1>1, Invariant, PTL

-----------------------------------------------------------------------------
(***************************************************************************)
(* Types.  They hold also after an MMIO read has failed, when the host may *)
(* be partitions and scans ahead of the unit and Prog no longer says what  *)
(* is in the pipe.  What is left then is an order: every parameter is      *)
(* behind the QUERY_STATE store that makes the scan active, COLUMN_ADDRESS *)
(* behind FILTER_PREDICATE.  So a unit that works has a predicate and a    *)
(* page.                                                                   *)
(***************************************************************************)
Pages == UNION {{ScanType[s]} \X PartId(s) : s \in Scan}

StartStores == {WriteCSR(QUERY_STATE, SCAN_PROCESSING)}
EndStores == {WriteCSR(QUERY_STATE, QUERY_DONE)}
ClsStores == {WriteCSR(TOTAL_CLS, n) : n \in 1 .. PageLines}
FilterStores == {WriteCSR(FILTER_PREDICATE, s) : s \in Scan}
TypeStores == {WriteCSR(JOB_TYPE, t) : t \in FilterUnit}
PageStores == {WriteCSR(COLUMN_ADDRESS, b) : b \in Pages}
ResultStores == {WriteCSR(RESULT_ADDRESS, b) : b \in Pages}

ParamStores == ClsStores \cup FilterStores \cup TypeStores \cup PageStores \cup ResultStores
HostStores == StartStores \cup EndStores \cup ParamStores
HostLoads == {ReadCSR(PARTITION_PROCESSED)}

\* The pipe, the store being decoded first.
Pipe == 0 .. Len(mmio) + 1
InPipe(i) == IF i = 0 THEN csr_wr ELSE IF i = 1 THEN csr_rx ELSE mmio[i - 1]

Has(S) == \E i \in Pipe : InPipe(i) \in S
Behind(T, S) == \A i \in Pipe : InPipe(i) \in T => \E j \in 0 .. i - 1 : InPipe(j) \in S

HostTypes ==
  /\ hpc \in HostPC /\ scan \in Scan /\ lied \in BOOLEAN
  /\ queue \in Seq(PartId(scan)) /\ Len(queue) <= Partitions[scan]
  /\ part \in Nat /\ (InPart => part \in PartId(scan))

BusTypes ==
  /\ mmio \in Seq(HostStores \cup HostLoads)
  /\ csr_rx \in HostStores \cup HostLoads \cup {None}
  /\ csr_wr \in HostStores \cup {None}
  /\ gap \in 0 .. MinGap - 1
  /\ {answer, c2} \subseteq BOOLEAN \cup {None}
  /\ query_state \in {SCAN_PROCESSING, QUERY_DONE}
  /\ kept \in BOOLEAN

EndIsLast ==
  \A i \in Pipe : InPipe(i) \in EndStores =>
    hpc = "done" /\ \A j \in Pipe : j > i => InPipe(j) = None

\* The host has issued the start, and the predicate, and may issue more.
Started == hpc # "done" /\ (scan > 1 \/ hpc # "notify")
Directed == hpc # "done" /\ (scan > 1 \/ hpc \notin {"notify", "total_cls", "filter_predicate"})

ActiveFirst ==
  isActive \/ /\ Behind(ParamStores, StartStores)
              /\ Started => Has(StartStores)

FilterFirst ==
  filter_pred \in Scan \/ /\ Behind(PageStores, FilterStores)
                          /\ Directed => Has(FilterStores)

OrderInv == EndIsLast /\ ActiveFirst /\ FilterFirst

UnitTypes ==
  /\ state \in {"waiting", "idle", "req", "rsp", "processing"}
  /\ {new_partition_ready, cl_req_allowed, cl_req_issued, cl_received,
      partition_processed} \subseteq BOOLEAN
  /\ total_cls \in 0 .. PageLines /\ total_cls_processed \in 0 .. PageLines
  /\ scan_column \in 0 .. 3 /\ filter_pred \in Scan \cup {None}
  /\ cl_processed \subseteq FilterUnit
  /\ state \in {"req", "rsp", "processing"} \/ (state = "idle" /\ cl_req_allowed)
       => total_cls_processed < PageLines
  /\ new_partition_ready \/ state # "waiting" => read_buff_address \in Pages /\ filter_pred \in Scan

OfferTypes(w) == w = None \/ w.bits \in Bits

PortTypes ==
  /\ {c0, held.c0, rsp_data} \cup reading \subseteq Line \cup {None}
  /\ reading \subseteq Line
  /\ cl_received \/ state = "processing" => rsp_data \in Line
  /\ bit_result \in Bits
  /\ OfferTypes(c1) /\ OfferTypes(held.c1)
  /\ \A w \in writing : w.bits \in Bits
  /\ memory \in [Line -> Bits \cup {None}]

TypeInv == HostTypes /\ BusTypes /\ OrderInv /\ UnitTypes /\ PortTypes

-----------------------------------------------------------------------------
LEMMA PagesAre ==
  /\ \A s \in Scan : \A p \in PartId(s) : <<ScanType[s], p>> \in Pages
  /\ \A b \in Pages : \A l \in 0 .. PageLines - 1 : <<b, l>> \in Line
  /\ \A b \in Pages : b \in Nat \X Nat
  /\ Line \subseteq Pages \X (0 .. PageLines - 1)
<1>1. \A s \in Scan : \A p \in PartId(s) : <<ScanType[s], p>> \in Pages
  BY DEF Pages
<1>2. \A b \in Pages : \A l \in 0 .. PageLines - 1 : <<b, l>> \in Line
  BY DEF Pages, Line
<1>3. \A b \in Pages : b \in Nat \X Nat
  BY Constants DEF Pages, PartId
<1>4. Line \subseteq Pages \X (0 .. PageLines - 1)
  BY DEF Pages, Line
<1> QED
  BY <1>1, <1>2, <1>3, <1>4

\* What a store is, by the register it is for.
LEMMA StoresAre ==
  ASSUME NEW r \in HostStores
  PROVE  /\ r # None /\ r.op = "write"
         /\ r.csr = QUERY_STATE => r.data \in {SCAN_PROCESSING, QUERY_DONE}
         /\ r.csr = TOTAL_CLS => r.data \in 1 .. PageLines
         /\ r.csr = FILTER_PREDICATE => r.data \in Scan
         /\ r.csr = JOB_TYPE => r.data \in 0 .. 2
         /\ r.csr = COLUMN_ADDRESS => r.data \in Pages
         /\ r.csr = RESULT_ADDRESS => r.data \in Pages
         /\ r \in StartStores <=> r.csr = QUERY_STATE /\ r.data = SCAN_PROCESSING
         /\ r \in EndStores <=> r.csr = QUERY_STATE /\ r.data = QUERY_DONE
         /\ r \in FilterStores <=> r.csr = FILTER_PREDICATE
         /\ r \in PageStores <=> r.csr = COLUMN_ADDRESS
         /\ r \in ClsStores <=> r.csr = TOTAL_CLS
         /\ r \in ResultStores <=> r.csr = RESULT_ADDRESS
         /\ r \in ParamStores <=> r.csr # QUERY_STATE
<1>1. /\ \A k \in 0 .. 7 : /\ \A n \in 0 .. 127 : None # WriteCSR(k, n)
                          /\ \A n \in Scan : None # WriteCSR(k, n)
      /\ \A k \in 0 .. 7, b \in Pages : None # WriteCSR(k, b)
  <2>1. ASSUME NEW k \in 0 .. 7, NEW b \in Pages PROVE None # WriteCSR(k, b)
    <3>1. <<b, 0>> \in Line
      BY PagesAre, FpgaScanAssumption
    <3>2. None # WriteCSR(k, <<b, 0>>[1])
      BY <3>1, NoneAssumption
    <3> QED
      BY <3>2
  <2> QED
    BY <2>1, NoneAssumption
<1>2. PageLines \in Nat /\ PageLines < 128
  BY FpgaScanAssumption
<1>3. \A k, d : WriteCSR(k, d).op = "write" /\ WriteCSR(k, d).csr = k /\ WriteCSR(k, d).data = d
  BY CsrIs
<1> USE <1>3 DEF QUERY_STATE, TOTAL_CLS, FILTER_PREDICATE, JOB_TYPE, COLUMN_ADDRESS, RESULT_ADDRESS
<1>4. /\ \A x \in StartStores \cup EndStores : x.csr = 7
      /\ \A x \in ClsStores : x.csr = 0
      /\ \A x \in FilterStores : x.csr = 1
      /\ \A x \in TypeStores : x.csr = 2
      /\ \A x \in PageStores : x.csr = 4
      /\ \A x \in ResultStores : x.csr = 5
  BY DEF StartStores, EndStores, ClsStores, FilterStores, TypeStores, PageStores, ResultStores
<1>5. /\ r \in ClsStores <=> r.csr = TOTAL_CLS
      /\ r \in ResultStores <=> r.csr = RESULT_ADDRESS
      /\ r \in ParamStores <=> r.csr # QUERY_STATE
  BY <1>4 DEF HostStores, ParamStores
<1>6. CASE r \in StartStores
  <2>1. r = WriteCSR(7, 0) /\ r # None
    BY <1>1, <1>6 DEF StartStores, SCAN_PROCESSING
  <2> QED
    BY <1>5, <1>6, <2>1 DEF StartStores, EndStores, FilterStores, PageStores, SCAN_PROCESSING, QUERY_DONE
<1>7. CASE r \in EndStores
  <2>1. r = WriteCSR(7, 5) /\ r # None
    BY <1>1, <1>7 DEF EndStores, QUERY_DONE
  <2> QED
    BY <1>5, <1>7, <2>1 DEF StartStores, EndStores, FilterStores, PageStores, SCAN_PROCESSING, QUERY_DONE
<1>8. CASE r \in ClsStores
  <2>1. PICK n \in 1 .. PageLines : r = WriteCSR(0, n)
    BY <1>8 DEF ClsStores
  <2>2. r # None
    <3>1. 0 \in 0 .. 7 /\ n \in 0 .. 127
      BY <1>2
    <3>2. None # WriteCSR(0, n)
      BY <1>1, <3>1, Zenon
    <3> QED
      BY <2>1, <3>2
  <2> QED
    BY <1>5, <2>1, <2>2 DEF StartStores, EndStores, FilterStores, PageStores
<1>9. CASE r \in FilterStores
  <2>1. PICK s \in Scan : r = WriteCSR(1, s)
    BY <1>9 DEF FilterStores
  <2>2. r # None
    BY <1>1, <2>1
  <2> QED
    BY <1>5, <1>9, <2>1, <2>2 DEF StartStores, EndStores, PageStores
<1>10. CASE r \in TypeStores
  <2>1. PICK t \in 0 .. 2 : r = WriteCSR(2, t)
    BY <1>10 DEF TypeStores, FilterUnit
  <2>2. r # None
    <3>1. 2 \in 0 .. 7 /\ t \in 0 .. 127
      BY <1>2
    <3>2. None # WriteCSR(2, t)
      BY <1>1, <3>1, Zenon
    <3> QED
      BY <2>1, <3>2
  <2> QED
    BY <1>5, <2>1, <2>2 DEF StartStores, EndStores, FilterStores, PageStores
<1>11. CASE r \in PageStores
  <2>1. PICK b \in Pages : r = WriteCSR(4, b)
    BY <1>11 DEF PageStores
  <2>2. r # None
    <3>1. 4 \in 0 .. 7
      OBVIOUS
    <3>2. None # WriteCSR(4, b)
      BY <1>1, <3>1, Zenon
    <3> QED
      BY <2>1, <3>2
  <2> QED
    BY <1>5, <1>11, <2>1, <2>2 DEF StartStores, EndStores, FilterStores
<1>12. CASE r \in ResultStores
  <2>1. PICK b \in Pages : r = WriteCSR(5, b)
    BY <1>12 DEF ResultStores
  <2>2. r # None
    <3>1. 5 \in 0 .. 7
      OBVIOUS
    <3>2. None # WriteCSR(5, b)
      BY <1>1, <3>1, Zenon
    <3> QED
      BY <2>1, <3>2
  <2> QED
    BY <1>5, <2>1, <2>2 DEF StartStores, EndStores, FilterStores, PageStores
<1>13. \/ r \in StartStores \/ r \in EndStores \/ r \in ClsStores \/ r \in FilterStores
       \/ r \in TypeStores \/ r \in PageStores \/ r \in ResultStores
  BY DEF HostStores, ParamStores
<1> QED
  BY <1>6, <1>7, <1>8, <1>9, <1>10, <1>11, <1>12, <1>13

LEMMA LoadsAre ==
  \A r \in HostLoads : r # None /\ r.op = "read" /\ r.csr = PARTITION_PROCESSED /\ r \notin HostStores
<1>1. \A r \in HostStores : r.op = "write"
  BY StoresAre
<1> QED
  BY <1>1, Present, CsrIs DEF HostLoads

\* A read of the poll's CSR and a page are not stores.
LEMMA RspIs == \A l : ReadRsp(l).op = "rsp" /\ ReadRsp(l) \notin HostStores \cup HostLoads
<1>1. \A r \in HostStores : r.op = "write"
  BY StoresAre
<1>2. \A r \in HostLoads : r.op = "read"
  BY LoadsAre
<1>3. \A l : ReadRsp(l).op = "rsp"
  BY CsrIs
<1> QED
  BY <1>1, <1>2, <1>3

\* An edge moves the store in csr_rx on, and takes at most the first request.
LEMMA BusEdge ==
  ASSUME BusTypes, NEW rx, NEW full, Edge(rx, full)
  PROVE  /\ csr_wr' = (IF csr_rx \in HostStores THEN csr_rx ELSE None)
         /\ c2' \in BOOLEAN \cup {None} /\ answer' \in BOOLEAN \cup {None}
         /\ gap' \in 0 .. MinGap - 1
         /\ \/ /\ mmio' = mmio /\ csr_rx' = None
            \/ /\ Len(mmio) \in Nat /\ Len(mmio) > 0 /\ Len(mmio') = Len(mmio) - 1
               /\ csr_rx' = mmio[1] /\ mmio[1] \in HostStores \cup HostLoads
               /\ mmio' \in Seq(HostStores \cup HostLoads)
               /\ \A i \in 1 .. Len(mmio') : mmio'[i] = mmio[i + 1]
<1>1. /\ csr_rx' = (IF rx # None /\ rx.op # "rsp" THEN rx ELSE None)
      /\ csr_wr' = (IF csr_rx # None /\ csr_rx.op = "write" THEN csr_rx ELSE None)
      /\ c2' = (IF csr_rx # None /\ csr_rx.op = "read"
                THEN csr_rx.csr = PARTITION_PROCESSED /\ partition_processed
                ELSE None)
      /\ answer' = (IF c2 # None THEN c2 ELSE answer)
  BY DEF Edge, Clock, CsrMgr, Ports
<1>2. mmio \in Seq(HostStores \cup HostLoads) /\ csr_rx \in HostStores \cup HostLoads \cup {None}
      /\ gap \in 0 .. MinGap - 1 /\ c2 \in BOOLEAN \cup {None} /\ answer \in BOOLEAN \cup {None}
  BY DEF BusTypes
<1>3. csr_wr' = IF csr_rx \in HostStores THEN csr_rx ELSE None
  BY <1>1, <1>2, StoresAre, LoadsAre
<1>4. c2' \in BOOLEAN \cup {None} /\ answer' \in BOOLEAN \cup {None}
  BY <1>1, <1>2, Zenon
<1>5. gap' \in 0 .. MinGap - 1
  <2>1. MinGap \in Nat \ {0} /\ gap \in Nat
    BY <1>2, FpgaScanAssumption
  <2>2. gap' = (IF gap > 0 THEN gap - 1 ELSE 0) \/ gap' = MinGap - 1
    BY DEF Edge, Delivers, NextGap
  <2> QED
    BY <1>2, <2>1, <2>2
<1>6. \/ rx = None /\ mmio' = mmio
      \/ mmio # <<>> /\ rx = Head(mmio) /\ mmio' = Tail(mmio)
      \/ \E line \in reading : rx = ReadRsp(line) /\ mmio' = mmio
  BY DEF Edge, Delivers
<1>7. CASE rx = None /\ mmio' = mmio
  BY <1>1, <1>3, <1>4, <1>5, <1>7
<1>8. CASE \E line \in reading : rx = ReadRsp(line) /\ mmio' = mmio
  <2>1. csr_rx' = None
    BY <1>1, <1>8, RspIs
  <2> QED
    BY <1>3, <1>4, <1>5, <1>8, <2>1
<1>9. CASE mmio # <<>> /\ rx = Head(mmio) /\ mmio' = Tail(mmio)
  <2>1. Len(mmio) \in Nat /\ Len(mmio) > 0 /\ rx = mmio[1] /\ mmio[1] \in HostStores \cup HostLoads
    BY <1>2, <1>9
  <2>2. /\ mmio' \in Seq(HostStores \cup HostLoads) /\ Len(mmio') = Len(mmio) - 1
        /\ \A i \in 1 .. Len(mmio') : mmio'[i] = mmio[i + 1]
    BY <1>2, <1>9, <2>1
  <2>3. csr_rx' = rx
    BY <1>1, <2>1, StoresAre, LoadsAre
  <2> QED
    BY <1>3, <1>4, <1>5, <2>1, <2>2, <2>3
<1> QED
  BY <1>6, <1>7, <1>8, <1>9

\* Where a request of the pipe is after an edge that brought n of them.
Moved(i, n) == IF n = 0 THEN (IF i = 1 THEN 0 ELSE i) ELSE i - 1

\* A store keeps its place behind the others.
LEMMA PipeMoves ==
  ASSUME BusTypes, NEW rx, NEW full, Edge(rx, full)
  PROVE  /\ Len(mmio) \in Nat /\ Len(mmio') \in Nat
         /\ \E n \in {0, 1} :
              /\ \A i \in Pipe \ {0} : /\ Moved(i, n) \in Pipe'
                                       /\ InPipe(i) \in HostStores => InPipe(Moved(i, n))' = InPipe(i)
              /\ \A k \in Pipe' : InPipe(k)' # None =>
                   \E i \in Pipe \ {0} : Moved(i, n) = k /\ InPipe(i) = InPipe(k)'
<1>1. Len(mmio) \in Nat /\ mmio \in Seq(HostStores \cup HostLoads)
  BY DEF BusTypes
<1>2. csr_wr' = IF csr_rx \in HostStores THEN csr_rx ELSE None
  BY BusEdge
<1>3. CASE mmio' = mmio /\ csr_rx' = None
  <2>1. ASSUME NEW i \in Pipe \ {0}
        PROVE  Moved(i, 0) \in Pipe' /\ (InPipe(i) \in HostStores => InPipe(Moved(i, 0))' = InPipe(i))
    BY <1>1, <1>2, <1>3 DEF Pipe, InPipe, Moved
  <2>2. ASSUME NEW k \in Pipe', InPipe(k)' # None
        PROVE  \E i \in Pipe \ {0} : Moved(i, 0) = k /\ InPipe(i) = InPipe(k)'
    <3>1. CASE k = 0
      <4>1. 1 \in Pipe \ {0} /\ Moved(1, 0) = k /\ InPipe(1) = InPipe(k)'
        BY <1>1, <1>2, <2>2, <3>1 DEF Pipe, InPipe, Moved
      <4> QED
        BY <4>1
    <3>2. CASE k # 0
      <4>1. k \in Pipe \ {0} /\ Moved(k, 0) = k /\ InPipe(k) = InPipe(k)'
        BY <1>1, <1>3, <2>2, <3>2 DEF Pipe, InPipe, Moved
      <4> QED
        BY <4>1
    <3> QED
      BY <3>1, <3>2
  <2> QED
    BY <1>1, <1>3, <2>1, <2>2
<1>4. CASE /\ Len(mmio) > 0 /\ Len(mmio') = Len(mmio) - 1 /\ csr_rx' = mmio[1]
           /\ \A i \in 1 .. Len(mmio') : mmio'[i] = mmio[i + 1]
  <2>1. ASSUME NEW i \in Pipe \ {0}
        PROVE  Moved(i, 1) \in Pipe' /\ (InPipe(i) \in HostStores => InPipe(Moved(i, 1))' = InPipe(i))
    <3>1. i \in 1 .. Len(mmio) + 1 /\ Moved(i, 1) = i - 1
      BY <1>1 DEF Pipe, Moved
    <3>2. i - 1 \in Pipe'
      BY <1>1, <1>4, <3>1 DEF Pipe
    <3>3. CASE i = 1
      BY <1>2, <3>1, <3>2, <3>3 DEF InPipe
    <3>4. CASE i = 2
      BY <1>4, <3>1, <3>2, <3>4 DEF InPipe
    <3>5. CASE i > 2
      <4>1. i - 2 \in 1 .. Len(mmio') /\ (i - 2) + 1 = i - 1 /\ (i - 1) - 1 = i - 2
        BY <1>1, <1>4, <3>1, <3>5
      <4>2. mmio'[i - 2] = mmio[i - 1]
        BY <1>4, <4>1
      <4>3. InPipe(i) = mmio[i - 1] /\ InPipe(i - 1)' = mmio'[i - 2]
        BY <3>1, <3>5, <4>1 DEF InPipe
      <4> QED
        BY <3>1, <3>2, <4>2, <4>3
    <3> QED
      BY <3>1, <3>3, <3>4, <3>5
  <2>2. ASSUME NEW k \in Pipe', InPipe(k)' # None
        PROVE  \E i \in Pipe \ {0} : Moved(i, 1) = k /\ InPipe(i) = InPipe(k)'
    <3>1. k \in 0 .. Len(mmio) /\ k + 1 \in Pipe \ {0} /\ Moved(k + 1, 1) = k
      BY <1>1, <1>4 DEF Pipe, Moved
    <3>2. InPipe(k + 1) = InPipe(k)'
      <4>1. CASE k = 0
        BY <1>2, <2>2, <4>1 DEF InPipe
      <4>2. CASE k = 1
        BY <1>4, <4>2 DEF InPipe
      <4>3. CASE k > 1
        <5>1. k - 1 \in 1 .. Len(mmio') /\ (k - 1) + 1 = k /\ (k + 1) - 1 = k
          BY <1>1, <1>4, <3>1, <4>3
        <5>2. mmio'[k - 1] = mmio[k]
          BY <1>4, <5>1
        <5> QED
          BY <3>1, <4>3, <5>1, <5>2 DEF InPipe
      <4> QED
        BY <3>1, <4>1, <4>2, <4>3
    <3> QED
      BY <3>1, <3>2
  <2>3. Len(mmio') \in Nat
    BY <1>1, <1>4
  <2> QED
    BY <1>1, <2>1, <2>2, <2>3
<1> QED
  BY <1>1, <1>3, <1>4, BusEdge

LEMMA MovedKeepsOrder ==
  ASSUME NEW n \in {0, 1}, NEW i \in Nat \ {0}, NEW j \in Nat \ {0}
  PROVE  /\ j < i => Moved(j, n) < Moved(i, n)
         /\ Moved(i, n) < Moved(j, n) => i < j
         /\ Moved(i, n) \in Nat
BY DEF Moved

LEMMA BehindEdge ==
  ASSUME BusTypes, NEW rx, NEW full, Edge(rx, full),
         NEW T \in SUBSET HostStores, NEW S \in SUBSET HostStores, csr_wr \notin S
  PROVE  /\ Behind(T, S) => Behind(T, S)'
         /\ Has(S) => Has(S)'
<1>1. PICK n \in {0, 1} :
        /\ \A i \in Pipe \ {0} : /\ Moved(i, n) \in Pipe'
                                 /\ InPipe(i) \in HostStores => InPipe(Moved(i, n))' = InPipe(i)
        /\ \A k \in Pipe' : InPipe(k)' # None =>
             \E i \in Pipe \ {0} : Moved(i, n) = k /\ InPipe(i) = InPipe(k)'
  BY PipeMoves
<1>2. Len(mmio) \in Nat /\ Len(mmio') \in Nat
  BY PipeMoves
<1>3. \A r \in HostStores : r # None
  BY StoresAre
<1>4. InPipe(0) \notin S
  BY DEF InPipe
<1>5. ASSUME Has(S) PROVE Has(S)'
  <2>1. PICK i \in Pipe : InPipe(i) \in S
    BY <1>5 DEF Has
  <2>2. i \in Pipe \ {0} /\ InPipe(i) \in HostStores
    BY <1>4, <2>1
  <2>3. Moved(i, n) \in Pipe' /\ InPipe(Moved(i, n))' = InPipe(i)
    BY <1>1, <2>2
  <2> QED
    BY <2>1, <2>3 DEF Has
<1>6. ASSUME Behind(T, S) PROVE Behind(T, S)'
  <2> SUFFICES ASSUME NEW k \in Pipe', InPipe(k)' \in T
               PROVE  \E j \in 0 .. k - 1 : InPipe(j)' \in S
    BY DEF Behind
  <2>1. PICK i \in Pipe \ {0} : Moved(i, n) = k /\ InPipe(i) = InPipe(k)'
    BY <1>1, <1>3
  <2>2. PICK j \in 0 .. i - 1 : InPipe(j) \in S
    BY <1>6, <2>1 DEF Behind
  <2>3. i \in 1 .. Len(mmio) + 1
    BY <1>2, <2>1 DEF Pipe
  <2>4. j \in Pipe \ {0} /\ j \in Nat \ {0} /\ i \in Nat \ {0} /\ j < i
    BY <1>2, <1>4, <2>2, <2>3 DEF Pipe
  <2>5. InPipe(Moved(j, n))' = InPipe(j)
    BY <1>1, <2>2, <2>4
  <2>6. Moved(j, n) < k /\ Moved(j, n) \in Nat
    BY <2>1, <2>4, MovedKeepsOrder
  <2>7. k \in Nat
    BY <1>2 DEF Pipe
  <2>8. Moved(j, n) \in 0 .. k - 1
    BY <2>6, <2>7
  <2> QED
    BY <2>2, <2>5, <2>8
<1> QED
  BY <1>5, <1>6

LEMMA EndEdge ==
  ASSUME BusTypes, NEW rx, NEW full, Edge(rx, full), EndIsLast
  PROVE  EndIsLast'
<1>1. PICK n \in {0, 1} :
        /\ \A i \in Pipe \ {0} : /\ Moved(i, n) \in Pipe'
                                 /\ InPipe(i) \in HostStores => InPipe(Moved(i, n))' = InPipe(i)
        /\ \A k \in Pipe' : InPipe(k)' # None =>
             \E i \in Pipe \ {0} : Moved(i, n) = k /\ InPipe(i) = InPipe(k)'
  BY PipeMoves
<1>2. Len(mmio) \in Nat /\ Len(mmio') \in Nat
  BY PipeMoves
<1>3. \A r \in HostStores : r # None
  BY StoresAre
<1>4. hpc' = hpc
  BY DEF Edge, Ports, hostVars
<1> SUFFICES ASSUME NEW k \in Pipe', InPipe(k)' \in EndStores
             PROVE  hpc = "done" /\ \A m \in Pipe' : m > k => InPipe(m)' = None
  BY <1>4 DEF EndIsLast
<1>5. EndStores \subseteq HostStores
  BY DEF HostStores
<1>6. PICK i \in Pipe \ {0} : Moved(i, n) = k /\ InPipe(i) = InPipe(k)'
  BY <1>1, <1>3, <1>5
<1>7. hpc = "done" /\ \A m \in Pipe : m > i => InPipe(m) = None
  BY <1>6 DEF EndIsLast
<1>8. ASSUME NEW m \in Pipe', m > k, InPipe(m)' # None PROVE FALSE
  <2>1. PICK j \in Pipe \ {0} : Moved(j, n) = m /\ InPipe(j) = InPipe(m)'
    BY <1>1, <1>8
  <2>2. i \in Nat \ {0} /\ j \in Nat \ {0} /\ k \in Nat /\ m \in Nat
    BY <1>2, <1>6, <2>1 DEF Pipe
  <2>3. i < j
    BY <1>6, <1>8, <2>1, <2>2, MovedKeepsOrder
  <2> QED
    BY <1>7, <1>8, <2>1, <2>2, <2>3
<1> QED
  BY <1>7, <1>8

\* What an edge does to the parameters, whoever wrote them.
LEMMA StoreEdge ==
  ASSUME BusTypes, OrderInv, UnitTypes, NEW rx, NEW full, Edge(rx, full)
  PROVE  /\ query_state' \in {SCAN_PROCESSING, QUERY_DONE}
         /\ total_cls' \in 0 .. PageLines /\ scan_column' \in 0 .. 3
         /\ filter_pred' \in Scan \cup {None} /\ (filter_pred \in Scan => filter_pred' \in Scan)
         /\ csr_wr \in StartStores => isActive'
         /\ csr_wr \in FilterStores => filter_pred' \in Scan
         /\ csr_wr \in ParamStores => isActive
         /\ csr_wr \notin StartStores \cup EndStores => query_state' = query_state
         /\ new_partition_ready' \in BOOLEAN
         /\ new_partition_ready' \/ new_partition_ready \/ state # "waiting" =>
              read_buff_address' \in Pages /\ filter_pred' \in Scan
<1>1. /\ query_state' = IF Written(QUERY_STATE) THEN csr_wr.data ELSE query_state
      /\ new_partition_ready' = IF isActive THEN Written(COLUMN_ADDRESS) ELSE new_partition_ready
      /\ read_buff_address' = Latch(COLUMN_ADDRESS, read_buff_address, csr_wr.data)
      /\ total_cls' = Latch(TOTAL_CLS, total_cls, csr_wr.data % 128)
      /\ filter_pred' = Latch(FILTER_PREDICATE, filter_pred, csr_wr.data)
      /\ scan_column' = Latch(JOB_TYPE, scan_column, csr_wr.data % 4)
  BY DEF Edge, Clock, QueryState, Parameters
<1>2. csr_wr \in HostStores \cup {None} /\ query_state \in {SCAN_PROCESSING, QUERY_DONE}
  BY DEF BusTypes
<1>3. /\ total_cls \in 0 .. PageLines /\ scan_column \in 0 .. 3
      /\ filter_pred \in Scan \cup {None} /\ new_partition_ready \in BOOLEAN
      /\ new_partition_ready \/ state # "waiting" => read_buff_address \in Pages /\ filter_pred \in Scan
  BY DEF UnitTypes
<1>4. csr_wr \in HostStores =>
         /\ csr_wr # None
         /\ csr_wr.csr = QUERY_STATE => csr_wr.data \in {SCAN_PROCESSING, QUERY_DONE}
         /\ csr_wr.csr = TOTAL_CLS => csr_wr.data \in 1 .. PageLines
         /\ csr_wr.csr = FILTER_PREDICATE => csr_wr.data \in Scan
         /\ csr_wr.csr = JOB_TYPE => csr_wr.data \in 0 .. 2
         /\ csr_wr.csr = COLUMN_ADDRESS => csr_wr.data \in Pages
         /\ csr_wr \in StartStores <=> csr_wr.csr = QUERY_STATE /\ csr_wr.data = SCAN_PROCESSING
         /\ csr_wr \in EndStores <=> csr_wr.csr = QUERY_STATE /\ csr_wr.data = QUERY_DONE
         /\ csr_wr \in FilterStores <=> csr_wr.csr = FILTER_PREDICATE
         /\ csr_wr \in PageStores <=> csr_wr.csr = COLUMN_ADDRESS
  BY StoresAre
<1>5. None \notin HostStores /\ StartStores \cup FilterStores \cup PageStores \subseteq HostStores
  BY StoresAre DEF HostStores, ParamStores
<1>6. \A k : Written(k) <=> csr_wr \in HostStores /\ csr_wr.csr = k
  BY <1>2, <1>5 DEF Written
<1>7. PageLines \in Nat /\ PageLines < 128
  BY FpgaScanAssumption
<1>8. /\ query_state' \in {SCAN_PROCESSING, QUERY_DONE}
      /\ csr_wr \notin StartStores \cup EndStores => query_state' = query_state
      /\ csr_wr \in StartStores => isActive'
  BY <1>1, <1>2, <1>4, <1>5, <1>6 DEF isActive
<1>9. total_cls' \in 0 .. PageLines
  <2>1. total_cls' = total_cls \/ \E d \in 1 .. PageLines : total_cls' = d % 128
    BY <1>1, <1>4, <1>6 DEF Latch
  <2> QED
    BY <1>3, <1>7, <2>1
<1>10. scan_column' \in 0 .. 3
  <2>1. scan_column' = scan_column \/ \E d \in 0 .. 2 : scan_column' = d % 4
    BY <1>1, <1>4, <1>6 DEF Latch
  <2> QED
    BY <1>3, <2>1
<1>11. filter_pred' = filter_pred \/ filter_pred' \in Scan
  BY <1>1, <1>4, <1>6 DEF Latch
<1>12. ASSUME csr_wr \in ParamStores PROVE isActive
  <2>1. InPipe(0) \in ParamStores /\ 0 \in Pipe
    BY <1>12 DEF InPipe, Pipe, BusTypes
  <2>2. ~ (\E j \in 0 .. 0 - 1 : InPipe(j) \in StartStores)
    OBVIOUS
  <2> QED
    BY <2>1, <2>2 DEF OrderInv, ActiveFirst, Behind
<1>13. ASSUME csr_wr \in FilterStores PROVE filter_pred' \in Scan
  BY <1>1, <1>4, <1>5, <1>6, <1>13, <1>12 DEF Latch, ParamStores
<1>14. ASSUME csr_wr \in PageStores PROVE filter_pred \in Scan
  <2>1. InPipe(0) \in PageStores /\ 0 \in Pipe
    BY <1>14 DEF InPipe, Pipe, BusTypes
  <2>2. ~ (\E j \in 0 .. 0 - 1 : InPipe(j) \in FilterStores)
    OBVIOUS
  <2> QED
    BY <2>1, <2>2 DEF OrderInv, FilterFirst, Behind
<1>15. read_buff_address' = read_buff_address \/ read_buff_address' \in Pages
  BY <1>1, <1>4, <1>6 DEF Latch
<1>16. new_partition_ready' \in BOOLEAN
  BY <1>1, <1>3, <1>6
<1>17. ASSUME new_partition_ready', ~new_partition_ready
       PROVE  read_buff_address' \in Pages /\ filter_pred' \in Scan
  <2>1. isActive /\ Written(COLUMN_ADDRESS)
    BY <1>1, <1>17
  <2>2. csr_wr \in PageStores /\ csr_wr.data \in Pages
    BY <1>4, <1>6, <2>1
  <2> QED
    BY <1>1, <1>11, <1>14, <2>1, <2>2 DEF Latch
<1> QED
  BY <1>3, <1>8, <1>9, <1>10, <1>11, <1>13, <1>15, <1>16, <1>17, <1>12

LEMMA OrderEdge ==
  ASSUME BusTypes, OrderInv, UnitTypes, NEW rx, NEW full, Edge(rx, full)
  PROVE  OrderInv'
<1>1. hpc' = hpc /\ scan' = scan /\ (Started' <=> Started) /\ (Directed' <=> Directed)
  BY DEF Edge, Ports, hostVars, Started, Directed
<1>2. EndIsLast'
  BY EndEdge DEF OrderInv
<1>3. csr_wr \in HostStores \cup {None}
  BY DEF BusTypes
<1>4. StartStores \in SUBSET HostStores /\ FilterStores \in SUBSET HostStores
      /\ PageStores \in SUBSET HostStores /\ EndStores \subseteq HostStores
      /\ ParamStores \in SUBSET HostStores
  BY DEF HostStores, ParamStores
<1>5. ActiveFirst'
  <2>1. CASE csr_wr \in StartStores
    BY <2>1, StoreEdge DEF ActiveFirst
  <2>2. CASE csr_wr \in EndStores
    <3>1. 0 \in Pipe /\ InPipe(0) \in EndStores
      BY <2>2 DEF Pipe, InPipe, BusTypes
    <3>2. hpc = "done" /\ \A i \in Pipe : i > 0 => InPipe(i) = None
      BY <3>1 DEF OrderInv, EndIsLast
    <3>3. \A k \in Pipe' : InPipe(k)' = None
      <4>1. PICK n \in {0, 1} :
              \A k \in Pipe' : InPipe(k)' # None =>
                \E i \in Pipe \ {0} : Moved(i, n) = k /\ InPipe(i) = InPipe(k)'
        BY PipeMoves
      <4>2. \A i \in Pipe \ {0} : i > 0
        BY PipeMoves DEF Pipe
      <4> QED
        BY <3>2, <4>1, <4>2
    <3>4. None \notin ParamStores
      BY <1>4, StoresAre
    <3> QED
      BY <1>1, <3>2, <3>3, <3>4 DEF ActiveFirst, Behind, Started
  <2>3. CASE csr_wr \notin StartStores \cup EndStores
    <3>1. isActive' <=> isActive
      BY <2>3, StoreEdge DEF isActive
    <3>2. /\ Behind(ParamStores, StartStores) => Behind(ParamStores, StartStores)'
          /\ Has(StartStores) => Has(StartStores)'
      BY <1>4, <2>3, BehindEdge
    <3> QED
      BY <1>1, <3>1, <3>2 DEF OrderInv, ActiveFirst
  <2> QED
    BY <2>1, <2>2, <2>3
<1>6. FilterFirst'
  <2>1. CASE filter_pred \in Scan \/ csr_wr \in FilterStores
    BY <2>1, StoreEdge DEF FilterFirst
  <2>2. CASE filter_pred \notin Scan /\ csr_wr \notin FilterStores
    <3>1. /\ Behind(PageStores, FilterStores) => Behind(PageStores, FilterStores)'
          /\ Has(FilterStores) => Has(FilterStores)'
      BY <1>4, <2>2, BehindEdge
    <3> QED
      BY <1>1, <2>2, <3>1 DEF OrderInv, FilterFirst
  <2> QED
    BY <2>1, <2>2
<1> QED
  BY <1>2, <1>5, <1>6 DEF OrderInv

\* The unit does not count beyond the lines it was told, also if it was told
\* otherwise meanwhile: it goes on to a line only if that was one of them.
LEMMA UnitTypesEdge ==
  ASSUME BusTypes, OrderInv, UnitTypes, NEW rx, NEW full, Edge(rx, full)
  PROVE  UnitTypes'
<1>1. StateMachine /\ Progress /\ ReadRequest(full) /\ ReadResponse(rx) /\ FilterUnits
  BY DEF Edge, Clock
<1>2. /\ state \in {"waiting", "idle", "req", "rsp", "processing"}
      /\ new_partition_ready \in BOOLEAN /\ cl_req_allowed \in BOOLEAN /\ cl_req_issued \in BOOLEAN
      /\ cl_received \in BOOLEAN /\ partition_processed \in BOOLEAN
      /\ total_cls \in 0 .. PageLines /\ total_cls_processed \in 0 .. PageLines
      /\ cl_processed \subseteq FilterUnit
      /\ state \in {"req", "rsp", "processing"} \/ (state = "idle" /\ cl_req_allowed)
           => total_cls_processed < PageLines
      /\ new_partition_ready \/ state # "waiting" => read_buff_address \in Pages /\ filter_pred \in Scan
  BY DEF UnitTypes
<1>3. PageLines \in Nat \ {0}
  BY FpgaScanAssumption
<1>4. state' = CASE state = "waiting" /\ new_partition_ready -> "idle"
             [] state = "idle" /\ cl_req_allowed -> "req"
             [] state = "idle" /\ ~cl_req_allowed /\ partition_processed -> "waiting"
             [] state = "req" /\ cl_req_issued -> "rsp"
             [] state = "rsp" /\ cl_received -> "processing"
             [] LineDone -> "idle"
             [] OTHER -> state
  BY <1>1 DEF StateMachine
<1>5. /\ state' \in {"waiting", "idle", "req", "rsp", "processing"}
      /\ state' # "waiting" => new_partition_ready \/ state # "waiting"
      /\ state' \in {"req", "rsp", "processing"} =>
           \/ state = "idle" /\ cl_req_allowed
           \/ state \in {"req", "rsp", "processing"} /\ ~LineDone
      /\ state' = "idle" => \/ state = "waiting" /\ new_partition_ready
                            \/ LineDone
                            \/ state = "idle" /\ ~cl_req_allowed
      /\ LineDone => state = "processing"
  <2>1. LineDone => state = "processing"
    BY DEF LineDone
  <2>2. CASE state = "waiting"
    BY <1>4, <2>1, <2>2
  <2>3. CASE state = "idle"
    BY <1>4, <2>1, <2>3
  <2>4. CASE state \in {"req", "rsp", "processing"}
    BY <1>4, <2>1, <2>4
  <2> QED
    BY <1>2, <2>1, <2>2, <2>3, <2>4
<1>6. /\ cl_req_allowed' \in BOOLEAN /\ partition_processed' \in BOOLEAN
      /\ total_cls_processed' \in 0 .. PageLines
      /\ state' \in {"req", "rsp", "processing"} \/ (state' = "idle" /\ cl_req_allowed')
           => total_cls_processed' < PageLines
  <2>1. CASE new_partition_ready
    <3>1. cl_req_allowed' = TRUE /\ partition_processed' = FALSE /\ total_cls_processed' = 0
      BY <1>1, <2>1 DEF Progress
    <3>2. cl_req_allowed' \in BOOLEAN /\ partition_processed' \in BOOLEAN
      BY <3>1, Zenon
    <3>3. total_cls_processed' \in 0 .. PageLines /\ total_cls_processed' < PageLines
      BY <1>3, <3>1
    <3> QED
      BY <3>2, <3>3, Zenon
  <2>2. CASE ~new_partition_ready /\ LineDone
    <3>1. /\ cl_req_allowed' = (total_cls_processed + 1 < total_cls)
          /\ partition_processed' = (total_cls_processed + 1 = total_cls)
          /\ total_cls_processed' = total_cls_processed + 1
      BY <1>1, <2>2 DEF Progress
    <3>2. total_cls_processed < PageLines /\ ~(state' \in {"req", "rsp", "processing"})
      BY <1>2, <1>5, <2>2
    <3>3. total_cls_processed' \in 0 .. PageLines
      BY <1>2, <1>3, <3>1, <3>2
    <3>4. cl_req_allowed' => total_cls_processed' < PageLines
      <4> SUFFICES ASSUME cl_req_allowed' PROVE total_cls_processed' < PageLines
        OBVIOUS
      <4>1. total_cls_processed + 1 < total_cls
        BY <3>1, Zenon
      <4> QED
        BY <1>2, <1>3, <3>1, <4>1
    <3>5. cl_req_allowed' \in BOOLEAN /\ partition_processed' \in BOOLEAN
      <4>1. \A a, b : (a < b) \in BOOLEAN /\ (a = b) \in BOOLEAN
        OBVIOUS
      <4> QED
        BY <3>1, <4>1, Zenon
    <3> QED
      BY <3>2, <3>3, <3>4, <3>5, Zenon
  <2>3. CASE ~new_partition_ready /\ ~LineDone
    <3>1. /\ total_cls_processed' = IF state = "waiting" THEN 0 ELSE total_cls_processed
          /\ cl_req_allowed' = cl_req_allowed /\ partition_processed' = partition_processed
      BY <1>1, <2>3 DEF Progress
    <3>2. total_cls_processed' \in 0 .. PageLines
      BY <1>2, <1>3, <3>1
    <3>3. state' \in {"req", "rsp", "processing"} => total_cls_processed' < PageLines
      BY <1>2, <1>3, <1>5, <3>1
    <3>4. state' = "idle" /\ cl_req_allowed' => total_cls_processed' < PageLines
      BY <1>2, <1>3, <1>5, <2>3, <3>1
    <3> QED
      BY <1>2, <3>1, <3>2, <3>3, <3>4
  <2> QED
    BY <1>2, <2>1, <2>2, <2>3
<1>7. cl_req_issued' \in BOOLEAN
  <2>1. cl_req_issued' \in {~full /\ ~cl_req_issued, FALSE, cl_req_issued}
    BY <1>1 DEF ReadRequest
  <2> QED
    BY <1>2, <2>1, Zenon
<1>8. cl_received' \in BOOLEAN
  <2>1. cl_received' \in {rx # None /\ rx.op = "rsp", FALSE, cl_received}
    BY <1>1 DEF ReadResponse
  <2> QED
    BY <1>2, <2>1, Zenon
<1>9. cl_processed' \subseteq FilterUnit
  BY <1>1, <1>2 DEF FilterUnits
<1>10. /\ total_cls' \in 0 .. PageLines /\ scan_column' \in 0 .. 3
       /\ filter_pred' \in Scan \cup {None} /\ new_partition_ready' \in BOOLEAN
       /\ new_partition_ready' \/ new_partition_ready \/ state # "waiting" =>
            read_buff_address' \in Pages /\ filter_pred' \in Scan
  BY StoreEdge
<1>11. new_partition_ready' \/ state' # "waiting" => read_buff_address' \in Pages /\ filter_pred' \in Scan
  BY <1>5, <1>10
<1> QED
  BY <1>5, <1>6, <1>7, <1>8, <1>9, <1>10, <1>11 DEF UnitTypes

LEMMA PortTypesEdge ==
  ASSUME BusTypes, UnitTypes, PortTypes, NEW rx, NEW full, Edge(rx, full)
  PROVE  PortTypes'
<1>1. StateMachine /\ ReadRequest(full) /\ ReadResponse(rx) /\ FilterUnits
      /\ WriteRequest(c1TxAlmFull) /\ held' = Bus
  BY DEF Edge, Clock, MemoryPorts
<1>2. /\ c0 \in Line \cup {None} /\ held.c0 \in Line \cup {None} /\ rsp_data \in Line \cup {None}
      /\ reading \subseteq Line
      /\ cl_received \/ state = "processing" => rsp_data \in Line
      /\ bit_result \in Bits /\ OfferTypes(c1) /\ OfferTypes(held.c1)
      /\ \A w \in writing : w.bits \in Bits
      /\ memory \in [Line -> Bits \cup {None}]
  BY DEF PortTypes
<1>3. Bus.c0 \in Line \cup {None} /\ OfferTypes(Bus.c1)
  BY <1>2 DEF Bus
<1>4. held'.c0 \in Line \cup {None} /\ OfferTypes(held.c1)'
  <2>1. OfferTypes(held.c1)' <=> OfferTypes(Bus.c1)
    BY <1>1 DEF OfferTypes
  <2> QED
    BY <1>1, <1>3, <2>1
<1>5. reading' \subseteq Line
  <2>1. Requested \subseteq Line
    BY <1>3 DEF Requested
  <2>2. reading' \subseteq reading \cup Requested
    BY DEF Edge, Delivers
  <2> QED
    BY <1>2, <2>1, <2>2
<1>6. c0' \in Line \cup {None}
  <2>1. ASSUME state = "req" PROVE LineOf(read_buff_address) \in Line
    <3>1. read_buff_address \in Pages /\ total_cls_processed \in 0 .. PageLines
          /\ total_cls_processed < PageLines
      BY <2>1 DEF UnitTypes
    <3>2. total_cls_processed \in 0 .. PageLines - 1
      BY <3>1, FpgaScanAssumption
    <3> QED
      BY <3>1, <3>2, PagesAre DEF LineOf
  <2>2. c0' \in {c0, None} \/ (state = "req" /\ c0' = LineOf(read_buff_address))
    <3>1. CASE state = "req"
      BY <1>1, <3>1 DEF ReadRequest
    <3>2. CASE state = "rsp"
      BY <1>1, <3>2 DEF ReadRequest
    <3>3. CASE state # "req" /\ state # "rsp"
      BY <1>1, <3>3 DEF ReadRequest
    <3> QED
      BY <3>1, <3>2, <3>3
  <2> QED
    BY <1>2, <2>1, <2>2
<1>7. \/ rx # None /\ rx.op = "rsp" /\ rx.line \in Line
      \/ ~ (rx # None /\ rx.op = "rsp")
  <2>1. \/ rx = None
        \/ mmio # <<>> /\ rx = Head(mmio)
        \/ \E line \in reading : rx = ReadRsp(line)
    BY DEF Edge, Delivers
  <2>2. ASSUME mmio # <<>>, rx = Head(mmio) PROVE rx.op # "rsp"
    <3>1. rx \in HostStores \cup HostLoads
      BY <2>2 DEF BusTypes
    <3> QED
      BY <3>1, StoresAre, LoadsAre
  <2>3. ASSUME NEW line \in reading, rx = ReadRsp(line) PROVE rx.line \in Line
    BY <1>2, <2>3, CsrIs
  <2> QED
    BY <2>1, <2>2, <2>3
<1>8. rsp_data' \in Line \cup {None} /\ (rsp_data \in Line => rsp_data' \in Line)
  BY <1>1, <1>2, <1>7 DEF ReadResponse
<1>9. cl_received' => rsp_data' \in Line
  <2> SUFFICES ASSUME cl_received' PROVE rsp_data' \in Line
    OBVIOUS
  <2>1. CASE state = "rsp"
    BY <1>1, <1>7, <2>1 DEF ReadResponse
  <2>2. CASE state # "rsp"
    <3>1. cl_received
      BY <1>1, <2>2 DEF ReadResponse
    <3> QED
      BY <1>2, <1>8, <3>1
  <2> QED
    BY <2>1, <2>2
<1>10. state' = "processing" => rsp_data' \in Line
  <2> SUFFICES ASSUME state' = "processing" PROVE cl_received \/ state = "processing"
    BY <1>2, <1>8
  <2> QED
    BY <1>1 DEF StateMachine, UnitTypes
<1>11. bit_result' \in Bits
  <2> DEFINE en == {u \in FilterUnit : state = "processing" /\ scan_column = u}
             new == {<<u, rsp_data, filter_pred>> : u \in en}
  <2>1. new \subseteq FilterUnit \X Line \X Scan
    <3>1. CASE state = "processing"
      <4>1. rsp_data \in Line /\ filter_pred \in Scan
        BY <1>2, <3>1 DEF UnitTypes
      <4> QED
        BY <4>1
    <3>2. CASE state # "processing"
      <4>1. en = {}
        BY <3>2
      <4> QED
        BY <4>1
    <3> QED
      BY <3>1, <3>2
  <2>2. bit_result \subseteq FilterUnit \X Line \X Scan
    BY <1>2 DEF Bits
  <2>3. bit_result' \subseteq bit_result \cup new
    <3>1. CASE state = "idle"
      BY <1>1, <3>1 DEF FilterUnits
    <3>2. CASE state # "idle"
      <4>1. bit_result' = {r \in bit_result : r[1] \notin en} \cup new
        BY <1>1, <3>2 DEF FilterUnits
      <4> QED
        BY <4>1
    <3> QED
      BY <3>1, <3>2
  <2> QED
    BY <2>1, <2>2, <2>3 DEF Bits
<1>12. OfferTypes(c1)'
  <2>1. c1' = None \/ c1' = [line |-> LineOf(write_buff_address), bits |-> bit_result]
    BY <1>1 DEF WriteRequest
  <2>2. c1' = None \/ c1'.bits \in Bits
    BY <1>2, <2>1
  <2> QED
    BY <2>2 DEF OfferTypes
<1>13. \A w \in writing' : w.bits \in Bits
  <2>1. writing' = IF Bus.c1 # None THEN writing \cup {Bus.c1} ELSE writing
    BY DEF Edge, Ports
  <2> QED
    BY <1>2, <1>3, <2>1 DEF OfferTypes
<1>14. memory' \in [Line -> Bits \cup {None}]
  <2>1. memory' = memory
    BY DEF Edge, Ports
  <2> QED
    BY <1>2, <2>1
<1> QED
  BY <1>4, <1>5, <1>6, <1>8, <1>9, <1>10, <1>11, <1>12, <1>13, <1>14 DEF PortTypes

LEMMA TypeInvEdge ==
  ASSUME TypeInv, NEW rx, NEW full, Edge(rx, full), kept' \in BOOLEAN
  PROVE  TypeInv'
<1>1. HostTypes'
  <2>1. UNCHANGED hostVars
    BY DEF Edge, Ports
  <2> QED
    BY <2>1 DEF TypeInv, HostTypes, hostVars, InPart
<1>2. BusTypes'
  <2>1. /\ csr_wr' \in HostStores \cup {None}
        /\ c2' \in BOOLEAN \cup {None} /\ answer' \in BOOLEAN \cup {None} /\ gap' \in 0 .. MinGap - 1
        /\ mmio' \in Seq(HostStores \cup HostLoads)
        /\ csr_rx' \in HostStores \cup HostLoads \cup {None}
    <3>1. /\ csr_wr' = (IF csr_rx \in HostStores THEN csr_rx ELSE None)
          /\ c2' \in BOOLEAN \cup {None} /\ answer' \in BOOLEAN \cup {None}
          /\ gap' \in 0 .. MinGap - 1
          /\ \/ /\ mmio' = mmio /\ csr_rx' = None
             \/ /\ csr_rx' = mmio[1] /\ mmio[1] \in HostStores \cup HostLoads
                /\ mmio' \in Seq(HostStores \cup HostLoads)
      BY BusEdge DEF TypeInv
    <3>2. mmio \in Seq(HostStores \cup HostLoads)
      BY DEF TypeInv, BusTypes
    <3> QED
      BY <3>1, <3>2
  <2>2. query_state' \in {SCAN_PROCESSING, QUERY_DONE}
    BY StoreEdge DEF TypeInv
  <2> QED
    BY <2>1, <2>2 DEF BusTypes
<1>3. OrderInv' /\ UnitTypes'
  BY OrderEdge, UnitTypesEdge DEF TypeInv
<1>4. PortTypes'
  BY PortTypesEdge DEF TypeInv
<1> QED
  BY <1>1, <1>2, <1>3, <1>4 DEF TypeInv

LEMMA EdgeTypes ==
  ASSUME TypeInv, NEW full,
         Tick(full) \/ TickRequest(full) \/ \E line \in reading : TickResponse(line, full)
  PROVE  TypeInv'
<1>1. kept' \in BOOLEAN
  <2>1. \/ kept' = (kept /\ ~Dropped)
        \/ kept' = (kept /\ ~Dropped /\ ~ResultAddressPending)
    BY DEF Tick, TickRequest, TickResponse
  <2> QED
    BY <2>1, Zenon
<1> QED
  BY <1>1, EdgeIs, TypeInvEdge

-----------------------------------------------------------------------------
(* The host. *)

\* What the unit and the memory ports keep when only the host moves.
LEMMA UnitStays ==
  ASSUME TypeInv, UNCHANGED <<afuVars, gap, reading, writing, memory>>
  PROVE  UnitTypes' /\ PortTypes' /\ (isActive' <=> isActive) /\ csr_rx' = csr_rx /\ csr_wr' = csr_wr
         /\ c2' = c2 /\ query_state' = query_state /\ filter_pred' = filter_pred
BY DEF TypeInv, UnitTypes, PortTypes, OfferTypes, isActive, afuVars, params

\* The accesses that leave the bus alone: the pipe stays.
LEMMA SamePipeTypes ==
  ASSUME UNCHANGED <<csr_rx, csr_wr, mmio>>
  PROVE  /\ Pipe' = Pipe /\ \A i : InPipe(i)' = InPipe(i)
         /\ \A T, S : (Behind(T, S)' <=> Behind(T, S)) /\ (Has(S)' <=> Has(S))
<1>1. Pipe' = Pipe /\ \A i : InPipe(i)' = InPipe(i)
  BY DEF Pipe, InPipe
<1> QED
  BY <1>1 DEF Behind, Has

\* A store the host makes stands behind all others.
LEMMA PipeGrows ==
  ASSUME BusTypes, UNCHANGED <<csr_rx, csr_wr>>, NEW r \in HostStores \cup HostLoads,
         mmio' = Append(mmio, r)
  PROVE  /\ mmio' \in Seq(HostStores \cup HostLoads)
         /\ Len(mmio) \in Nat /\ Len(mmio') = Len(mmio) + 1
         /\ Pipe' = Pipe \cup {Len(mmio) + 2}
         /\ \A i \in Pipe : i < Len(mmio) + 2 /\ InPipe(i)' = InPipe(i)
         /\ \A k : k = Len(mmio) + 2 => InPipe(k)' = r
<1>1. mmio \in Seq(HostStores \cup HostLoads) /\ Len(mmio) \in Nat
  BY DEF BusTypes
<1>2. /\ mmio' \in Seq(HostStores \cup HostLoads) /\ Len(mmio') = Len(mmio) + 1
      /\ mmio'[Len(mmio) + 1] = r
  BY <1>1
<1>3. \A i \in 1 .. Len(mmio) : mmio'[i] = mmio[i]
  BY <1>1
<1>4. Pipe' = Pipe \cup {Len(mmio) + 2}
  BY <1>1, <1>2 DEF Pipe
<1>5. ASSUME NEW i \in Pipe PROVE i < Len(mmio) + 2 /\ InPipe(i)' = InPipe(i)
  <2>1. i \in 0 .. Len(mmio) + 1
    BY DEF Pipe
  <2>2. i > 1 => i - 1 \in 1 .. Len(mmio)
    BY <1>1, <2>1
  <2> QED
    BY <1>1, <1>3, <2>1, <2>2 DEF InPipe
<1>6. \A k : k = Len(mmio) + 2 => InPipe(k)' = r
  <2> SUFFICES ASSUME NEW k, k = Len(mmio) + 2 PROVE InPipe(k)' = r
    OBVIOUS
  <2>1. k - 1 = Len(mmio) + 1 /\ k # 0 /\ k # 1
    BY <1>1
  <2> QED
    BY <1>2, <2>1 DEF InPipe
<1> QED
  BY <1>1, <1>2, <1>4, <1>5, <1>6

LEMMA BehindGrows ==
  ASSUME BusTypes, UNCHANGED <<csr_rx, csr_wr>>, NEW r \in HostStores \cup HostLoads,
         mmio' = Append(mmio, r), NEW T, NEW S
  PROVE  /\ Behind(T, S) /\ (r \in T => Has(S)) => Behind(T, S)'
         /\ Has(S) \/ r \in S => Has(S)'
<1>1. /\ Len(mmio) \in Nat
      /\ Pipe' = Pipe \cup {Len(mmio) + 2}
      /\ \A i \in Pipe : i < Len(mmio) + 2 /\ InPipe(i)' = InPipe(i)
      /\ \A k : k = Len(mmio) + 2 => InPipe(k)' = r
  BY PipeGrows
<1>2. Pipe = 0 .. Len(mmio) + 1
  BY DEF Pipe
<1>3. Has(S) \/ r \in S => Has(S)'
  BY <1>1 DEF Has
<1>4. ASSUME Behind(T, S), r \in T => Has(S) PROVE Behind(T, S)'
  <2> SUFFICES ASSUME NEW k \in Pipe', InPipe(k)' \in T
               PROVE  \E j \in 0 .. k - 1 : InPipe(j)' \in S
    BY DEF Behind
  <2>1. CASE k \in Pipe
    <3>1. InPipe(k) \in T
      BY <1>1, <2>1
    <3>2. PICK j \in 0 .. k - 1 : InPipe(j) \in S
      BY <1>4, <2>1, <3>1 DEF Behind
    <3>3. j \in Pipe
      BY <1>1, <1>2, <2>1, <3>2
    <3> QED
      BY <1>1, <3>2, <3>3
  <2>2. CASE k = Len(mmio) + 2
    <3>1. PICK j \in Pipe : InPipe(j) \in S
      BY <1>1, <1>4, <2>2 DEF Has
    <3>2. j \in 0 .. k - 1
      BY <1>1, <1>2, <2>2, <3>1
    <3> QED
      BY <1>1, <3>1, <3>2
  <2> QED
    BY <1>1, <2>1, <2>2
<1> QED
  BY <1>3, <1>4

\* What the order asks of a request before the host makes it.
LEMMA OrderGrows ==
  ASSUME BusTypes, OrderInv, UNCHANGED <<csr_rx, csr_wr, query_state, filter_pred>>,
         NEW r \in HostStores \cup HostLoads, mmio' = Append(mmio, r), hpc # "done",
         r \in EndStores => hpc' = "done",
         r \in ParamStores => Started,
         r \in PageStores => Directed,
         Started' => Started \/ r \in StartStores,
         Directed' => Directed \/ r \in FilterStores
  PROVE  OrderInv'
<1>1. /\ Len(mmio) \in Nat
      /\ Pipe' = Pipe \cup {Len(mmio) + 2}
      /\ \A i \in Pipe : i < Len(mmio) + 2 /\ InPipe(i)' = InPipe(i)
      /\ \A k : k = Len(mmio) + 2 => InPipe(k)' = r
  BY PipeGrows
<1>2. EndIsLast'
  <2> SUFFICES ASSUME NEW i \in Pipe', InPipe(i)' \in EndStores
               PROVE  hpc' = "done" /\ \A j \in Pipe' : j > i => InPipe(j)' = None
    BY DEF EndIsLast
  <2>1. i \notin Pipe
    BY <1>1 DEF OrderInv, EndIsLast
  <2>2. i = Len(mmio) + 2 /\ r \in EndStores
    BY <1>1, <2>1
  <2>3. \A j \in Pipe' : ~ (j > i)
    BY <1>1, <2>2 DEF Pipe
  <2> QED
    BY <2>2, <2>3
<1>3. ActiveFirst'
  <2>1. isActive' <=> isActive
    BY DEF isActive
  <2>2. /\ Behind(ParamStores, StartStores) /\ (r \in ParamStores => Has(StartStores))
             => Behind(ParamStores, StartStores)'
        /\ Has(StartStores) \/ r \in StartStores => Has(StartStores)'
    BY BehindGrows
  <2> QED
    BY <2>1, <2>2 DEF OrderInv, ActiveFirst
<1>4. FilterFirst'
  <2>1. /\ Behind(PageStores, FilterStores) /\ (r \in PageStores => Has(FilterStores))
             => Behind(PageStores, FilterStores)'
        /\ Has(FilterStores) \/ r \in FilterStores => Has(FilterStores)'
    BY BehindGrows
  <2> QED
    BY <2>1 DEF OrderInv, FilterFirst
<1> QED
  BY <1>2, <1>3, <1>4 DEF OrderInv

LEMMA AppendTypes ==
  ASSUME TypeInv, UNCHANGED <<afuVars, gap, answer, reading, writing, memory, kept>>,
         HostTypes', hpc # "done",
         NEW r \in HostStores \cup HostLoads, mmio' = Append(mmio, r),
         r \in EndStores => hpc' = "done",
         r \in ParamStores => Started,
         r \in PageStores => Directed,
         Started' => Started \/ r \in StartStores,
         Directed' => Directed \/ r \in FilterStores
  PROVE  TypeInv'
<1>1. UnitTypes' /\ PortTypes' /\ csr_rx' = csr_rx /\ csr_wr' = csr_wr
      /\ c2' = c2 /\ query_state' = query_state /\ filter_pred' = filter_pred
  BY UnitStays
<1>2. OrderInv'
  BY <1>1, OrderGrows DEF TypeInv
<1>3. BusTypes'
  <2>1. mmio' \in Seq(HostStores \cup HostLoads)
    BY <1>1, PipeGrows DEF TypeInv
  <2> QED
    BY <1>1, <2>1 DEF TypeInv, BusTypes
<1> QED
  BY <1>1, <1>2, <1>3 DEF TypeInv

\* The steps of the host that access nothing.
LEMMA SilentTypes ==
  ASSUME TypeInv, UNCHANGED <<afuVars, gap, reading, writing, memory, mmio>>,
         HostTypes', hpc # "done", hpc' # "done", kept' \in BOOLEAN, answer' \in {answer, None},
         Started' => Started, Directed' => Directed
  PROVE  TypeInv'
<1>1. UnitTypes' /\ PortTypes' /\ csr_rx' = csr_rx /\ csr_wr' = csr_wr
      /\ c2' = c2 /\ query_state' = query_state /\ filter_pred' = filter_pred
      /\ (isActive' <=> isActive)
  BY UnitStays
<1>2. Pipe' = Pipe /\ (\A i : InPipe(i)' = InPipe(i))
      /\ \A T, S : (Behind(T, S)' <=> Behind(T, S)) /\ (Has(S)' <=> Has(S))
  BY <1>1, SamePipeTypes
<1>3. OrderInv'
  <2>1. EndIsLast'
    BY <1>2 DEF TypeInv, OrderInv, EndIsLast
  <2>2. ActiveFirst'
    BY <1>1, <1>2 DEF TypeInv, OrderInv, ActiveFirst
  <2>3. FilterFirst'
    BY <1>1, <1>2 DEF TypeInv, OrderInv, FilterFirst
  <2> QED
    BY <2>1, <2>2, <2>3 DEF OrderInv
<1>4. BusTypes'
  BY <1>1 DEF TypeInv, BusTypes
<1> QED
  BY <1>1, <1>3, <1>4 DEF TypeInv

\* The class of each request of the host.
LEMMA HostIs ==
  ASSUME NEW s \in Scan, NEW b \in Pages
  PROVE  /\ WriteCSR(QUERY_STATE, SCAN_PROCESSING) \in StartStores
         /\ WriteCSR(QUERY_STATE, QUERY_DONE) \in EndStores
         /\ WriteCSR(TOTAL_CLS, TotalCls(s)) \in ClsStores
         /\ WriteCSR(FILTER_PREDICATE, s) \in FilterStores
         /\ WriteCSR(JOB_TYPE, ScanType[s]) \in TypeStores
         /\ WriteCSR(COLUMN_ADDRESS, b) \in PageStores
         /\ WriteCSR(RESULT_ADDRESS, b) \in ResultStores
         /\ ReadCSR(PARTITION_PROCESSED) \in HostLoads
<1>1. TotalCls(s) \in 1 .. PageLines /\ ScanType[s] \in FilterUnit
  BY TotalClsRange, Constants DEF FilterUnit
<1> QED
  BY <1>1 DEF StartStores, EndStores, ClsStores, FilterStores, TypeStores, PageStores,
              ResultStores, HostLoads

\* The classes by the register and the value.
LEMMA ClassIs ==
  ASSUME NEW k, NEW d, WriteCSR(k, d) \in HostStores
  PROVE  /\ WriteCSR(k, d) \in EndStores <=> k = QUERY_STATE /\ d = QUERY_DONE
         /\ WriteCSR(k, d) \in FilterStores <=> k = FILTER_PREDICATE
         /\ WriteCSR(k, d) \in PageStores <=> k = COLUMN_ADDRESS
         /\ WriteCSR(k, d) \in ParamStores <=> k # QUERY_STATE
BY StoresAre, CsrIs

LEMMA SetupTypes ==
  ASSUME TypeInv, Notify \/ WriteTotalCls \/ WriteFilterPredicate \/ WriteJobType
  PROVE  TypeInv'
<1>1. scan \in Scan /\ HostTypes
  BY DEF TypeInv, HostTypes
<1>2. UNCHANGED <<afuVars, gap, answer, reading, writing, memory, kept, lied, result>>
      /\ UNCHANGED <<scan, queue, part>>
  BY DEF Notify, WriteTotalCls, WriteFilterPredicate, WriteJobType, Other
<1> USE DEF QUERY_STATE, TOTAL_CLS, FILTER_PREDICATE, JOB_TYPE, COLUMN_ADDRESS, SCAN_PROCESSING,
            QUERY_DONE
<1>3. PICK b : b \in Pages
  <2>1. 0 \in PartId(scan)
    BY <1>1, Constants DEF PartId
  <2> QED
    BY <1>1, <2>1, PagesAre
<1>4. CASE Notify
  <2> DEFINE r == WriteCSR(QUERY_STATE, SCAN_PROCESSING)
  <2>1. hpc = "notify" /\ hpc' = "total_cls" /\ mmio' = Append(mmio, r)
    BY <1>4 DEF Notify, Access
  <2>2. HostTypes'
    BY <1>1, <1>2, <2>1 DEF HostTypes, HostPC, InPart
  <2>3. r \in StartStores /\ r \in HostStores
    BY <1>1, <1>3, HostIs DEF HostStores, ParamStores
  <2>4. r \notin EndStores /\ r \notin ParamStores /\ r \notin FilterStores /\ r \notin PageStores
    BY <2>3, ClassIs
  <2>5. Directed' => Directed
    BY <1>2, <2>1 DEF Directed
  <2> HIDE DEF r
  <2> QED
    BY <1>2, <2>1, <2>2, <2>3, <2>4, <2>5, AppendTypes
<1>5. CASE WriteTotalCls
  <2> DEFINE r == WriteCSR(TOTAL_CLS, TotalCls(scan))
  <2>1. hpc = "total_cls" /\ hpc' = "filter_predicate" /\ mmio' = Append(mmio, r)
    BY <1>5 DEF WriteTotalCls, Access
  <2>2. HostTypes'
    BY <1>1, <1>2, <2>1 DEF HostTypes, HostPC, InPart
  <2>3. r \in HostStores
    BY <1>1, <1>3, HostIs DEF HostStores, ParamStores
  <2>4. r \notin EndStores /\ r \notin FilterStores /\ r \notin PageStores
    BY <2>3, ClassIs
  <2>5. (Directed' => Directed) /\ Started
    BY <1>2, <2>1 DEF Directed, Started
  <2> HIDE DEF r
  <2> QED
    BY <1>2, <2>1, <2>2, <2>3, <2>4, <2>5, AppendTypes
<1>6. CASE WriteFilterPredicate
  <2> DEFINE r == WriteCSR(FILTER_PREDICATE, scan)
  <2>1. hpc = "filter_predicate" /\ hpc' = "job_type" /\ mmio' = Append(mmio, r)
    BY <1>6 DEF WriteFilterPredicate, Access
  <2>2. HostTypes'
    BY <1>1, <1>2, <2>1 DEF HostTypes, HostPC, InPart
  <2>3. r \in FilterStores /\ r \in HostStores
    BY <1>1, <1>3, HostIs DEF HostStores, ParamStores
  <2>4. r \notin EndStores /\ r \notin PageStores
    BY <2>3, ClassIs
  <2>5. Started
    BY <2>1 DEF Started
  <2> HIDE DEF r
  <2> QED
    BY <1>2, <2>1, <2>2, <2>3, <2>4, <2>5, AppendTypes
<1>7. CASE WriteJobType
  <2> DEFINE r == WriteCSR(JOB_TYPE, ScanType[scan])
  <2>1. hpc = "job_type" /\ hpc' = "loop" /\ mmio' = Append(mmio, r)
    BY <1>7 DEF WriteJobType, Access
  <2>2. HostTypes'
    BY <1>1, <1>2, <2>1 DEF HostTypes, HostPC, InPart
  <2>3. r \in HostStores
    BY <1>1, <1>3, HostIs DEF HostStores, ParamStores
  <2>4. r \notin EndStores /\ r \notin FilterStores /\ r \notin PageStores
    BY <2>3, ClassIs
  <2>5. Started /\ Directed
    BY <2>1 DEF Started, Directed
  <2> HIDE DEF r
  <2> QED
    BY <1>2, <2>1, <2>2, <2>3, <2>4, <2>5, AppendTypes
<1> QED
  BY <1>4, <1>5, <1>6, <1>7

LEMMA PartTypes ==
  ASSUME TypeInv, WriteColumnAddress \/ WriteResultAddress \/ Poll
  PROVE  TypeInv'
<1>1. scan \in Scan /\ HostTypes /\ queue \in Seq(PartId(scan)) /\ Len(queue) <= Partitions[scan]
  BY DEF TypeInv, HostTypes
<1>2. UNCHANGED <<afuVars, gap, answer, reading, writing, memory, kept, lied, result, scan>>
  BY DEF WriteColumnAddress, WriteResultAddress, Poll, Other
<1> USE DEF QUERY_STATE, TOTAL_CLS, FILTER_PREDICATE, JOB_TYPE, COLUMN_ADDRESS, RESULT_ADDRESS,
            SCAN_PROCESSING, QUERY_DONE
<1>3. Partitions[scan] \in Nat /\ PartId(scan) \subseteq Nat
  BY <1>1, Constants DEF PartId
<1>4. CASE WriteColumnAddress
  <2> DEFINE b == <<ScanType[scan], Head(queue)>>
             r == WriteCSR(COLUMN_ADDRESS, b)
  <2>1. hpc = "loop" /\ hpc' = "result_address" /\ mmio' = Append(mmio, r)
        /\ queue # <<>> /\ part' = Head(queue) /\ queue' = Tail(queue)
    BY <1>4 DEF WriteColumnAddress, Access
  <2>2. Head(queue) \in PartId(scan) /\ queue' \in Seq(PartId(scan)) /\ Len(queue') <= Partitions[scan]
    <3>1. Head(queue) \in PartId(scan) /\ Tail(queue) \in Seq(PartId(scan))
          /\ Len(Tail(queue)) = Len(queue) - 1 /\ Len(queue) \in Nat
      BY <1>1, <2>1
    <3> QED
      BY <1>1, <1>3, <2>1, <3>1
  <2>3. HostTypes'
    BY <1>1, <1>2, <1>3, <2>1, <2>2 DEF HostTypes, HostPC, InPart, PartId
  <2>4. r \in HostStores
    <3>1. b \in Pages
      BY <1>1, <2>2, PagesAre
    <3> QED
      BY <1>1, <3>1, HostIs DEF HostStores, ParamStores
  <2>5. r \notin EndStores /\ r \notin FilterStores
    BY <2>4, ClassIs
  <2>6. Started /\ Directed
    BY <2>1 DEF Started, Directed
  <2> HIDE DEF r
  <2> QED
    BY <1>2, <2>1, <2>3, <2>4, <2>5, <2>6, AppendTypes
<1>5. CASE WriteResultAddress
  <2> DEFINE r == WriteCSR(RESULT_ADDRESS, Buffer)
  <2>1. hpc = "result_address" /\ hpc' = "poll" /\ mmio' = Append(mmio, r)
        /\ UNCHANGED <<queue, part>>
    BY <1>5 DEF WriteResultAddress, Access
  <2>2. HostTypes'
    BY <1>1, <1>2, <2>1 DEF HostTypes, HostPC, InPart, PartId
  <2>3. r \in HostStores
    <3>1. Buffer \in Pages
      BY <1>1, <2>1, PagesAre DEF Buffer, HostTypes, InPart
    <3> QED
      BY <1>1, <3>1, HostIs DEF HostStores, ParamStores
  <2>4. r \notin EndStores /\ r \notin FilterStores /\ r \notin PageStores
    BY <2>3, ClassIs
  <2>5. Started /\ Directed
    BY <2>1 DEF Started, Directed
  <2> HIDE DEF r
  <2> QED
    BY <1>2, <2>1, <2>2, <2>3, <2>4, <2>5, AppendTypes
<1>6. CASE Poll
  <2> DEFINE r == ReadCSR(PARTITION_PROCESSED)
  <2>1. hpc = "poll" /\ hpc' = "answer" /\ mmio' = Append(mmio, r) /\ UNCHANGED <<queue, part>>
    BY <1>6 DEF Poll, Access
  <2>2. HostTypes'
    BY <1>1, <1>2, <2>1 DEF HostTypes, HostPC, InPart, PartId
  <2>3. r \in HostLoads
    BY DEF HostLoads
  <2>4. r \notin EndStores /\ r \notin ParamStores /\ r \notin FilterStores /\ r \notin PageStores
    BY <2>3, LoadsAre DEF HostStores, ParamStores
  <2>5. Started /\ Directed
    BY <2>1 DEF Started, Directed
  <2> HIDE DEF r
  <2> QED
    BY <1>2, <2>1, <2>2, <2>3, <2>4, <2>5, AppendTypes
<1> QED
  BY <1>4, <1>5, <1>6

LEMMA UnitsTyped ==
  ASSUME NEW s \in Scan
  PROVE  /\ HandlerWorkItems(s) \in Seq(PartId(s)) /\ Len(HandlerWorkItems(s)) = Partitions[s]
         /\ s = 1 => MainWorkItems \in Seq(PartId(s)) /\ Len(MainWorkItems) <= Partitions[s]
<1>1. Partitions[s] \in Nat \ {0}
  BY Constants
<1>2. ASSUME NEW n \in 0 .. Partitions[s] PROVE Units(n) \in Seq(PartId(s)) /\ Len(Units(n)) = n
  <2>1. \A i \in 1 .. n : i - 1 \in PartId(s)
    BY <1>1, <1>2 DEF PartId
  <2>2. n \in Nat
    BY <1>1, <1>2
  <2> QED
    BY <2>1, <2>2 DEF Units
<1> QED
  BY <1>1, <1>2 DEF HandlerWorkItems, MainWorkItems

LEMMA WaitTypes ==
  ASSUME TypeInv, LoopEnds \/ PollFails \/ Answer
  PROVE  TypeInv'
<1>1. scan \in Scan /\ HostTypes
  BY DEF TypeInv, HostTypes
<1>2. UNCHANGED <<afuVars, gap, reading, writing, memory, mmio, scan, queue, part>>
  BY DEF LoopEnds, PollFails, Answer, Other, busVars
<1>3. /\ hpc \in {"loop", "poll", "answer"} /\ hpc' \in {"loop", "copy", "poll"}
      /\ hpc' = "poll" => hpc = "answer"
      /\ lied' \in BOOLEAN
  BY <1>1 DEF LoopEnds, PollFails, Answer, Other, busVars, HostTypes
<1>4. HostTypes'
  BY <1>1, <1>2, <1>3 DEF HostTypes, HostPC, InPart, PartId
<1>5. Started /\ Directed
  BY <1>3 DEF Started, Directed
<1>6. kept' \in BOOLEAN
  <2>1. kept \in BOOLEAN
    BY DEF TypeInv, BusTypes
  <2>2. kept' = kept \/ kept' = (kept /\ (answer => writing = {}))
    BY DEF LoopEnds, PollFails, Answer, Other, busVars
  <2> QED
    BY <2>1, <2>2, Zenon
<1>7. answer' \in {answer, None}
  BY DEF LoopEnds, PollFails, Answer, Other, busVars
<1> QED
  BY <1>2, <1>3, <1>4, <1>5, <1>6, <1>7, SilentTypes

LEMMA CopyTypes ==
  ASSUME TypeInv, CopyResults
  PROVE  TypeInv'
<1>1. scan \in Scan /\ HostTypes /\ hpc = "copy"
  BY DEF TypeInv, HostTypes, CopyResults
<1>2. UNCHANGED <<afuVars, part, lied, gap, answer, reading, writing, memory, kept>>
  BY DEF CopyResults
<1>3. Started /\ Directed
  BY <1>1 DEF Started, Directed
<1>4. CASE scan < Len(ScanType)
  <2>1. scan' = scan + 1 /\ queue' = HandlerWorkItems(scan + 1) /\ hpc' = "notify" /\ mmio' = mmio
    BY <1>4 DEF CopyResults
  <2>2. scan + 1 \in Scan
    BY <1>1, <1>4, FpgaScanAssumption DEF Scan
  <2>3. queue' \in Seq(PartId(scan + 1)) /\ Len(queue') <= Partitions[scan + 1]
    BY <2>1, <2>2, Constants, UnitsTyped
  <2>4. PartId(scan)' = PartId(scan + 1)
    BY <2>1 DEF PartId
  <2>5. HostTypes'
    BY <1>1, <1>2, <2>1, <2>2, <2>3, <2>4 DEF HostTypes, HostPC, InPart
  <2>6. kept' \in BOOLEAN /\ answer' \in {answer, None}
    BY <1>2 DEF TypeInv, BusTypes
  <2> QED
    BY <1>1, <1>2, <1>3, <2>1, <2>5, <2>6, SilentTypes
<1>5. CASE ~ (scan < Len(ScanType))
  <2> DEFINE r == WriteCSR(QUERY_STATE, QUERY_DONE)
  <2>1. UNCHANGED <<scan, queue>> /\ hpc' = "done" /\ mmio' = Append(mmio, r)
    BY <1>5 DEF CopyResults
  <2>2. HostTypes'
    BY <1>1, <1>2, <2>1 DEF HostTypes, HostPC, InPart, PartId
  <2>3. r \in HostStores
    BY DEF HostStores, EndStores
  <2>4. r \notin ParamStores /\ r \notin FilterStores /\ r \notin PageStores
    BY <2>3, ClassIs DEF QUERY_STATE, FILTER_PREDICATE, COLUMN_ADDRESS
  <2> HIDE DEF r
  <2> QED
    BY <1>1, <1>2, <1>3, <2>1, <2>2, <2>3, <2>4, AppendTypes
<1> QED
  BY <1>4, <1>5

LEMMA LandsTypes ==
  ASSUME TypeInv, NEW w \in writing, WriteLands(w)
  PROVE  TypeInv'
<1>1. UNCHANGED <<afuVars, hostVars, mmio, gap, answer, reading, kept>>
      /\ writing' = writing \ {w} /\ memory' = [memory EXCEPT ![w.line] = w.bits]
  BY DEF WriteLands
<1>2. HostTypes' /\ BusTypes' /\ UnitTypes'
  BY <1>1 DEF TypeInv, HostTypes, BusTypes, UnitTypes, hostVars, afuVars, params, InPart
<1>3. OrderInv'
  <2>1. /\ Pipe' = Pipe /\ \A i : InPipe(i)' = InPipe(i)
        /\ \A T, S : (Behind(T, S)' <=> Behind(T, S)) /\ (Has(S)' <=> Has(S))
    BY <1>1, SamePipeTypes DEF afuVars
  <2>2. hpc' = hpc /\ (Started' <=> Started) /\ (Directed' <=> Directed)
        /\ (isActive' <=> isActive) /\ filter_pred' = filter_pred
    BY <1>1 DEF hostVars, Started, Directed, isActive, afuVars, params
  <2>3. EndIsLast'
    BY <2>1, <2>2 DEF TypeInv, OrderInv, EndIsLast
  <2>4. ActiveFirst' /\ FilterFirst'
    BY <2>1, <2>2 DEF TypeInv, OrderInv, ActiveFirst, FilterFirst
  <2> QED
    BY <2>3, <2>4 DEF OrderInv
<1>4. PortTypes'
  <2>1. w.bits \in Bits /\ memory \in [Line -> Bits \cup {None}]
    BY DEF TypeInv, PortTypes
  <2>2. memory' \in [Line -> Bits \cup {None}]
    BY <1>1, <2>1
  <2>3. \A v \in writing' : v.bits \in Bits
    BY <1>1 DEF TypeInv, PortTypes
  <2> QED
    BY <1>1, <2>2, <2>3 DEF TypeInv, PortTypes, OfferTypes, afuVars
<1> QED
  BY <1>2, <1>3, <1>4 DEF TypeInv

LEMMA InitTypes == FpgaInit => TypeInv
<1> SUFFICES ASSUME FpgaInit PROVE TypeInv
  OBVIOUS
<1>1. 1 \in Scan /\ Partitions[1] \in Nat /\ PageLines \in Nat \ {0} /\ MinGap \in Nat \ {0}
  BY Constants, FpgaScanAssumption
<1>2. HostTypes
  <2>1. queue \in Seq(PartId(1)) /\ Len(queue) <= Partitions[1]
    BY <1>1, UnitsTyped DEF FpgaInit
  <2>2. hpc = "notify" /\ scan = 1 /\ part = 0 /\ lied = FALSE
    BY DEF FpgaInit
  <2> QED
    BY <1>1, <2>1, <2>2 DEF HostTypes, HostPC, InPart
<1>3. BusTypes
  <2>1. mmio = <<>> /\ gap = 0 /\ answer = None /\ kept = TRUE
    BY DEF FpgaInit
  <2>2. csr_rx = None /\ csr_wr = None /\ c2 = None /\ query_state \in {SCAN_PROCESSING, QUERY_DONE}
    BY DEF FpgaInit, AfuInit
  <2> QED
    BY <1>1, <2>1, <2>2 DEF BusTypes
<1>4. OrderInv
  <2>1. \A i \in Pipe : InPipe(i) = None
    BY DEF FpgaInit, AfuInit, Pipe, InPipe
  <2>2. None \notin EndStores \cup ParamStores \cup PageStores
    BY StoresAre DEF HostStores, ParamStores
  <2>3. ~Started /\ ~Directed
    BY DEF FpgaInit, Started, Directed
  <2> QED
    BY <2>1, <2>2, <2>3 DEF OrderInv, EndIsLast, ActiveFirst, FilterFirst, Behind
<1>5. UnitTypes
  <2>1. /\ state = "waiting" /\ new_partition_ready = FALSE /\ total_cls = 0 /\ total_cls_processed = 0
        /\ scan_column = 0 /\ filter_pred = None /\ cl_processed = {}
        /\ cl_req_allowed = TRUE /\ cl_req_issued = FALSE /\ cl_received = FALSE
        /\ partition_processed = FALSE
    BY DEF FpgaInit, AfuInit
  <2>2. {new_partition_ready, cl_req_allowed, cl_req_issued, cl_received, partition_processed}
          \subseteq BOOLEAN
    BY <2>1, Zenon
  <2>3. total_cls \in 0 .. PageLines /\ total_cls_processed \in 0 .. PageLines /\ scan_column \in 0 .. 3
    BY <1>1, <2>1
  <2>4. state \notin {"req", "rsp", "processing"} /\ ~(state = "idle")
        /\ ~(new_partition_ready \/ state # "waiting")
    BY <2>1
  <2> QED
    BY <2>1, <2>2, <2>3, <2>4 DEF UnitTypes
<1>6. PortTypes
  <2>1. /\ c0 = None /\ c1 = None /\ held = [c0 |-> None, c1 |-> None] /\ rsp_data = None
        /\ bit_result = {} /\ cl_received = FALSE /\ state = "waiting"
        /\ reading = {} /\ writing = {} /\ memory = [l \in Line |-> None]
    BY DEF FpgaInit, AfuInit
  <2> QED
    BY <2>1 DEF PortTypes, OfferTypes, Bits
<1> QED
  BY <1>2, <1>3, <1>4, <1>5, <1>6 DEF TypeInv

LEMMA StutterTypes == ASSUME TypeInv, UNCHANGED vars PROVE TypeInv'
<1>1. UNCHANGED <<afuVars, gap, reading, writing, memory, mmio, csr_rx, csr_wr>>
      /\ UNCHANGED <<hpc, scan, queue, part, lied, kept, answer>>
  BY DEF vars, hostVars, busVars, afuVars
<1>2. UnitTypes' /\ PortTypes' /\ c2' = c2 /\ query_state' = query_state
      /\ filter_pred' = filter_pred /\ (isActive' <=> isActive)
  BY <1>1, UnitStays
<1>3. /\ Pipe' = Pipe /\ \A i : InPipe(i)' = InPipe(i)
      /\ \A T, S : (Behind(T, S)' <=> Behind(T, S)) /\ (Has(S)' <=> Has(S))
  BY <1>1, SamePipeTypes
<1>4. (Started' <=> Started) /\ (Directed' <=> Directed)
  BY <1>1 DEF Started, Directed
<1>5. EndIsLast'
  BY <1>1, <1>3 DEF TypeInv, OrderInv, EndIsLast
<1>6. ActiveFirst' /\ FilterFirst'
  BY <1>2, <1>3, <1>4 DEF TypeInv, OrderInv, ActiveFirst, FilterFirst
<1>7. HostTypes' /\ BusTypes'
  BY <1>1, <1>2 DEF TypeInv, HostTypes, BusTypes, InPart
<1> QED
  BY <1>2, <1>5, <1>6, <1>7 DEF TypeInv, OrderInv

LEMMA NextTypes == TypeInv /\ [Next]_vars => TypeInv'
<1> SUFFICES ASSUME TypeInv, [Next]_vars PROVE TypeInv'
  OBVIOUS
<1>1. ASSUME NEW full \in BOOLEAN,
             Tick(full) \/ TickRequest(full) \/ \E line \in reading : TickResponse(line, full)
      PROVE  TypeInv'
  BY <1>1, EdgeTypes
<1>2. CASE Notify \/ WriteTotalCls \/ WriteFilterPredicate \/ WriteJobType
  BY <1>2, SetupTypes
<1>3. CASE WriteColumnAddress \/ WriteResultAddress \/ Poll
  BY <1>3, PartTypes
<1>4. CASE LoopEnds \/ PollFails \/ Answer
  BY <1>4, WaitTypes
<1>5. CASE CopyResults
  BY <1>5, CopyTypes
<1>6. ASSUME NEW w \in writing, WriteLands(w) PROVE TypeInv'
  BY <1>6, LandsTypes
<1>7. CASE UNCHANGED vars
  BY <1>7, StutterTypes
<1> QED
  BY <1>1, <1>2, <1>3, <1>4, <1>5, <1>6, <1>7 DEF Next, Host

\* Until an MMIO read fails the pipe is as short as the host's place says, and
\* what is offered or under way to memory is a line of the partition at hand.
LEMMA TypeFacts == TypeInv /\ IInv => TypeOK
<1> SUFFICES ASSUME TypeInv, IInv PROVE TypeOK
  OBVIOUS
<1>1. ASSUME ~lied PROVE Len(mmio) <= IF Partitions[1] = 1 THEN 11 ELSE 7
  <2>1. PipeInv
    BY <1>1 DEF IInv, J
  <2>2. Len(mmio) \in Nat /\ Len(mmio) <= Issued /\ Issued = Base + Place(hpc) /\ Place(hpc) \in 0 .. 7
    BY <2>1, IssuedIs DEF PipeInv
  <2>3. Base = 0 \/ (Base = 4 /\ Partitions[1] = 1)
    BY DEF Base
  <2> QED
    BY <2>2, <2>3
<1>2. ASSUME kept, ~lied
      PROVE  /\ c1 = None \/ (c1.line \in Line /\ c1.bits \in Bits)
             /\ \A w \in writing : w.line \in Line /\ w.bits \in Bits
  <2>1. J
    BY <1>2 DEF IInv
  <2>2. scan \in Scan /\ PageLines \in Nat \ {0}
    BY FpgaScanAssumption DEF TypeInv, HostTypes
  <2>3. ASSUME InPart, NEW l \in 0 .. PageLines - 1
        PROVE  RightWrite(l).line \in Line
    <3>1. part \in PartId(scan)
      BY <2>1, <2>3, BufferIs DEF J
    <3> QED
      BY <2>2, <2>3, <3>1, LinesAre DEF RightWrite, Buffer
  <2>4. ASSUME c1 # None PROVE c1.line \in Line /\ c1.bits \in Bits
    <3>1. InPart /\ total_cls_processed >= 1 /\ c1 = RightWrite(total_cls_processed - 1)
      BY <1>2, <2>1, <2>4 DEF J, CtrlInv, PortInv, ReadyInv, DataInv, UnitData
    <3>2. total_cls_processed - 1 \in 0 .. PageLines - 1
      BY <2>2, <3>1 DEF TypeInv, UnitTypes
    <3>3. c1.line \in Line
      BY <2>3, <3>1, <3>2
    <3> QED
      BY <2>4, <3>3 DEF TypeInv, PortTypes, OfferTypes
  <2>5. ASSUME NEW w \in writing PROVE w.line \in Line /\ w.bits \in Bits
    <3>1. PICK l \in 0 .. LinesDone - 1 : w = RightWrite(l)
      BY <1>2, <2>1 DEF J, DataInv, WritesInv
    <3>2. LinesDone \in 0 .. PageLines
      BY <2>2 DEF TypeInv, UnitTypes, LinesDone
    <3>3. LinesDone # 0
      BY <3>1
    <3>4. InPart
      BY <3>3 DEF LinesDone
    <3>5. l \in 0 .. PageLines - 1
      BY <2>2, <3>1, <3>2
    <3> QED
      BY <2>3, <3>1, <3>4, <3>5 DEF TypeInv, PortTypes
  <2> QED
    BY <2>4, <2>5
<1>3. /\ hpc \in HostPC /\ scan \in Scan /\ part \in Nat /\ lied \in BOOLEAN
      /\ queue \in Seq(Nat) /\ Len(queue) <= Partitions[scan]
  <2>1. scan \in Scan /\ queue \in Seq(PartId(scan)) /\ Len(queue) <= Partitions[scan]
    BY DEF TypeInv, HostTypes
  <2>2. PartId(scan) \subseteq Nat
    BY <2>1, Constants DEF PartId
  <2>3. queue \in Seq(Nat)
    BY <2>1, <2>2
  <2> QED
    BY <2>1, <2>3 DEF TypeInv, HostTypes
<1>4. /\ gap \in 0 .. MinGap - 1 /\ answer \in BOOLEAN \cup {None} /\ c2 \in BOOLEAN \cup {None}
      /\ query_state \in {SCAN_PROCESSING, QUERY_DONE} /\ kept \in BOOLEAN
  BY DEF TypeInv, BusTypes
<1>5. /\ state \in {"waiting", "idle", "req", "rsp", "processing"}
      /\ {new_partition_ready, cl_req_allowed, cl_req_issued, cl_received, partition_processed}
           \subseteq BOOLEAN
      /\ total_cls \in 0 .. 127 /\ total_cls_processed \in 0 .. 127
      /\ scan_column \in 0 .. 3 /\ filter_pred \in Scan \cup {None} /\ cl_processed \subseteq FilterUnit
  BY FpgaScanAssumption DEF TypeInv, UnitTypes
<1>6. /\ rsp_data \in Line \cup {None} /\ c0 \in Line \cup {None} /\ reading \subseteq Line
      /\ memory \in [Line -> Bits \cup {None}]
  BY DEF TypeInv, PortTypes
<1> QED
  BY <1>1, <1>2, <1>3, <1>4, <1>5, <1>6 DEF TypeOK

\* The values of the host's, the bus's and the unit's variables, also when an
\* MMIO read has failed: the unit never asks for a line beyond its page, and
\* what it writes answers for lines that were read and predicates that were set.
THEOREM ScanTypeCorrect == Spec => []TypeOK
<1>1. Spec => []TypeInv
  BY InitTypes, NextTypes, PTL DEF Spec
<1> QED
  BY <1>1, TypeFacts, Invariant, PTL

-----------------------------------------------------------------------------
(***************************************************************************)
(* Completions.  After a failed read the unit may still be at a partition  *)
(* the host has given up, and raise the flag of that one while the host    *)
(* polls for the next.  What keeps the answer current is again an order:   *)
(* a poll leaves the bus last (RequestInv), COLUMN_ADDRESS is followed by  *)
(* RESULT_ADDRESS and TOTAL_CLS by COLUMN_ADDRESS (FollowInv), the last    *)
(* store of a register carries the host's value (LatestInv), and taking    *)
(* an address clears the flag (FlagInv).                                   *)
(***************************************************************************)
Follows(T, S) == \A i \in Pipe : InPipe(i) \in T => \E j \in Pipe : j > i /\ InPipe(j) \in S
Latest(S, v) == \E i \in Pipe : /\ InPipe(i) \in S /\ InPipe(i).data = v
                                /\ \A j \in Pipe : j > i => InPipe(j) \notin S

\* Register reg has the value v, or will have it when the pipe is empty.
Carries(S, v, reg) == Latest(S, v) \/ (reg = v /\ ~Has(S))

RequestInv ==
  /\ csr_rx # None => csr_wr = None /\ gap = MinGap - 1
  /\ \A i \in Pipe : InPipe(i) \in HostLoads =>
       hpc = "answer" /\ \A j \in Pipe : j > i => InPipe(j) = None
  /\ c2 # None \/ answer # None =>
       hpc = "answer" /\ (c2 = None \/ answer = None) /\ \A i \in Pipe : InPipe(i) = None

FollowInv ==
  /\ hpc # "result_address" => Follows(PageStores, ResultStores)
  /\ InPart => Follows(ClsStores, PageStores)
  /\ new_partition_ready => hpc = "result_address" \/ Has(ResultStores)
  /\ ~isActive => ~new_partition_ready

LatestInv ==
  /\ InPart \/ hpc \in {"filter_predicate", "job_type", "loop"} =>
       Carries(ClsStores, TotalCls(scan), total_cls)
  /\ InPart => Carries(PageStores, Buffer, read_buff_address)
  /\ hpc \in {"poll", "answer"} => Carries(ResultStores, Buffer, write_buff_address)

FlagInv ==
  /\ partition_processed => ~cl_req_allowed /\ state \in {"idle", "waiting"}
  /\ partition_processed /\ InPart /\ ~Has(PageStores) /\ ~new_partition_ready =>
       total_cls_processed \in {0, total_cls}
  /\ c2 = TRUE \/ answer = TRUE => partition_processed

ReadsInv ==
  hpc # "done" =>
    /\ cl_received => state = "rsp"
    /\ cl_req_issued => state = "req"
    /\ c0 # None => cl_req_issued
    /\ reading # {} => state = "rsp" /\ ~cl_received
    /\ \A x, y \in reading : x = y
    /\ ~isActive => held.c0 = None /\ state = "waiting"

OnceInv == RequestInv /\ FollowInv /\ LatestInv /\ FlagInv /\ ReadsInv

-----------------------------------------------------------------------------
LEMMA FollowsEdge ==
  ASSUME BusTypes, NEW rx, NEW full, Edge(rx, full),
         NEW T \in SUBSET HostStores, NEW S \in SUBSET HostStores
  PROVE  /\ Follows(T, S) => Follows(T, S)'
         /\ Follows(T, S) /\ csr_wr \in T => Has(S)'
<1>1. PICK n \in {0, 1} :
        /\ \A i \in Pipe \ {0} : /\ Moved(i, n) \in Pipe'
                                 /\ InPipe(i) \in HostStores => InPipe(Moved(i, n))' = InPipe(i)
        /\ \A k \in Pipe' : InPipe(k)' # None =>
             \E i \in Pipe \ {0} : Moved(i, n) = k /\ InPipe(i) = InPipe(k)'
  BY PipeMoves
<1>2. Len(mmio) \in Nat /\ Len(mmio') \in Nat
  BY PipeMoves
<1>3. \A r \in HostStores : r # None
  BY StoresAre
<1>4. ASSUME Follows(T, S) PROVE Follows(T, S)'
  <2> SUFFICES ASSUME NEW k \in Pipe', InPipe(k)' \in T
               PROVE  \E m \in Pipe' : m > k /\ InPipe(m)' \in S
    BY DEF Follows
  <2>1. PICK i \in Pipe \ {0} : Moved(i, n) = k /\ InPipe(i) = InPipe(k)'
    BY <1>1, <1>3
  <2>2. PICK j \in Pipe : j > i /\ InPipe(j) \in S
    BY <1>4, <2>1 DEF Follows
  <2>3. i \in Nat \ {0} /\ j \in Nat \ {0} /\ i < j
    BY <1>2, <2>1, <2>2 DEF Pipe
  <2>4. Moved(j, n) \in Pipe' /\ InPipe(Moved(j, n))' = InPipe(j)
    BY <1>1, <2>2, <2>3
  <2>5. Moved(i, n) < Moved(j, n) /\ Moved(j, n) \in Nat /\ Moved(i, n) \in Nat
    BY <2>3, MovedKeepsOrder
  <2>6. Moved(j, n) > k
    BY <2>1, <2>5
  <2> QED
    BY <2>2, <2>4, <2>6
<1>5. ASSUME Follows(T, S), csr_wr \in T PROVE Has(S)'
  <2>1. 0 \in Pipe /\ InPipe(0) \in T
    BY <1>2, <1>5 DEF Pipe, InPipe
  <2>2. PICK j \in Pipe : j > 0 /\ InPipe(j) \in S
    BY <1>5, <2>1 DEF Follows
  <2>3. Moved(j, n) \in Pipe' /\ InPipe(Moved(j, n))' = InPipe(j)
    BY <1>1, <2>2
  <2> QED
    BY <2>2, <2>3 DEF Has
<1> QED
  BY <1>4, <1>5

\* A register that will have the value v still will, or has it now.
LEMMA CarriesEdge ==
  ASSUME BusTypes, NEW rx, NEW full, Edge(rx, full), NEW S \in SUBSET HostStores,
         NEW v, NEW old, NEW new, Carries(S, v, old),
         csr_wr \in S => new = csr_wr.data,
         csr_wr \notin S => new = old
  PROVE  Latest(S, v)' \/ (new = v /\ ~Has(S)')
<1>1. PICK n \in {0, 1} :
        /\ \A i \in Pipe \ {0} : /\ Moved(i, n) \in Pipe'
                                 /\ InPipe(i) \in HostStores => InPipe(Moved(i, n))' = InPipe(i)
        /\ \A k \in Pipe' : InPipe(k)' # None =>
             \E i \in Pipe \ {0} : Moved(i, n) = k /\ InPipe(i) = InPipe(k)'
  BY PipeMoves
<1>2. Len(mmio) \in Nat /\ Len(mmio') \in Nat
  BY PipeMoves
<1>3. None \notin S
  BY StoresAre
<1>4. 0 \in Pipe /\ InPipe(0) = csr_wr
  BY <1>2 DEF Pipe, InPipe
<1>5. ASSUME \A i \in Pipe \ {0} : InPipe(i) \notin S PROVE ~Has(S)'
  BY <1>1, <1>3, <1>5 DEF Has
<1>6. ASSUME Latest(S, v) PROVE Latest(S, v)' \/ (new = v /\ ~Has(S)')
  <2>1. PICK i \in Pipe : /\ InPipe(i) \in S /\ InPipe(i).data = v
                          /\ \A j \in Pipe : j > i => InPipe(j) \notin S
    BY <1>6 DEF Latest
  <2>2. CASE i = 0
    <3>1. \A j \in Pipe \ {0} : j > i
      BY <1>2, <2>2 DEF Pipe
    <3> QED
      BY <1>4, <1>5, <2>1, <2>2, <3>1
  <2>3. CASE i # 0
    <3>1. Moved(i, n) \in Pipe' /\ InPipe(Moved(i, n))' = InPipe(i)
      BY <1>1, <2>1, <2>3
    <3>2. ASSUME NEW m \in Pipe', m > Moved(i, n), InPipe(m)' \in S PROVE FALSE
      <4>1. PICK j \in Pipe \ {0} : Moved(j, n) = m /\ InPipe(j) = InPipe(m)'
        BY <1>1, <1>3, <3>2
      <4>2. i \in Nat \ {0} /\ j \in Nat \ {0} /\ m \in Nat
        BY <1>2, <2>1, <2>3, <3>2, <4>1 DEF Pipe
      <4>3. Moved(i, n) < Moved(j, n)
        BY <3>2, <4>1, <4>2, MovedKeepsOrder
      <4>4. j > i
        BY <4>2, <4>3, MovedKeepsOrder
      <4> QED
        BY <2>1, <3>2, <4>1, <4>4
    <3> QED
      BY <2>1, <3>1, <3>2 DEF Latest
  <2> QED
    BY <2>2, <2>3
<1>7. ASSUME old = v, ~Has(S) PROVE new = v /\ ~Has(S)'
  <2>1. csr_wr \notin S /\ \A i \in Pipe \ {0} : InPipe(i) \notin S
    BY <1>4, <1>7 DEF Has
  <2> QED
    BY <1>5, <1>7, <2>1
<1> QED
  BY <1>6, <1>7 DEF Carries

\* What the host's accesses do to the same orders.
LEMMA FollowsGrows ==
  ASSUME BusTypes, UNCHANGED <<csr_rx, csr_wr>>, NEW r \in HostStores \cup HostLoads,
         mmio' = Append(mmio, r), NEW T, NEW S, NEW v
  PROVE  /\ Follows(T, S) \/ r \in S => (r \notin T => Follows(T, S)')
         /\ r \notin S => (Latest(S, v) => Latest(S, v)') /\ (Has(S)' <=> Has(S))
         /\ r \in S => Has(S)' /\ (r.data = v => Latest(S, v)')
<1>1. /\ Len(mmio) \in Nat
      /\ Pipe' = Pipe \cup {Len(mmio) + 2}
      /\ \A i \in Pipe : i < Len(mmio) + 2 /\ InPipe(i)' = InPipe(i)
      /\ \A k : k = Len(mmio) + 2 => InPipe(k)' = r
  BY PipeGrows
<1>2. Pipe \subseteq Nat
  BY <1>1 DEF Pipe
<1>3. ASSUME Follows(T, S) \/ r \in S, r \notin T PROVE Follows(T, S)'
  <2> SUFFICES ASSUME NEW k \in Pipe', InPipe(k)' \in T
               PROVE  \E m \in Pipe' : m > k /\ InPipe(m)' \in S
    BY DEF Follows
  <2>1. k \in Pipe /\ InPipe(k) \in T
    BY <1>1, <1>3
  <2>2. CASE Follows(T, S)
    BY <1>1, <2>1, <2>2 DEF Follows
  <2>3. CASE r \in S
    <3>1. PICK m \in Pipe' : m = Len(mmio) + 2
      BY <1>1
    <3>2. m > k /\ InPipe(m)' \in S
      BY <1>1, <1>2, <2>1, <2>3, <3>1
    <3> QED
      BY <3>2
  <2> QED
    BY <1>3, <2>2, <2>3
<1>4. ASSUME r \notin S PROVE (Latest(S, v) => Latest(S, v)') /\ (Has(S)' <=> Has(S))
  BY <1>1, <1>4 DEF Latest, Has
<1>5. ASSUME r \in S PROVE Has(S)' /\ (r.data = v => Latest(S, v)')
  <2>1. PICK m \in Pipe' : m = Len(mmio) + 2
    BY <1>1
  <2>2. InPipe(m)' = r /\ \A j \in Pipe' : ~(j > m)
    BY <1>1, <1>2, <2>1
  <2> QED
    BY <1>5, <2>2 DEF Has, Latest
<1> QED
  BY <1>3, <1>4, <1>5

LEMMA SameOrder ==
  ASSUME UNCHANGED <<csr_rx, csr_wr, mmio>>
  PROVE  \A T, S : /\ Follows(T, S)' <=> Follows(T, S)
                   /\ \A v : Latest(S, v)' <=> Latest(S, v)
                   /\ Has(S)' <=> Has(S)
<1>1. Pipe' = Pipe /\ \A i : InPipe(i)' = InPipe(i)
  BY DEF Pipe, InPipe
<1> QED
  BY <1>1 DEF Follows, Latest, Has
-----------------------------------------------------------------------------
(* An edge. *)

LEMMA RequestEdge ==
  ASSUME BusTypes, RequestInv, NEW rx, NEW full, Edge(rx, full)
  PROVE  RequestInv'
<1>1. PICK n \in {0, 1} :
        /\ \A i \in Pipe \ {0} : /\ Moved(i, n) \in Pipe'
                                 /\ InPipe(i) \in HostStores => InPipe(Moved(i, n))' = InPipe(i)
        /\ \A k \in Pipe' : InPipe(k)' # None =>
             \E i \in Pipe \ {0} : Moved(i, n) = k /\ InPipe(i) = InPipe(k)'
  BY PipeMoves
<1>2. Len(mmio) \in Nat /\ Len(mmio') \in Nat /\ hpc' = hpc
  BY PipeMoves DEF Edge, Ports, hostVars
<1>3. \A r \in HostStores \cup HostLoads : r # None
  BY StoresAre, LoadsAre
<1>4. csr_rx' # None => csr_wr' = None /\ gap' = MinGap - 1
  <2> SUFFICES ASSUME csr_rx' # None PROVE csr_wr' = None /\ gap' = MinGap - 1
    OBVIOUS
  <2>1. rx # None /\ rx.op # "rsp"
    BY DEF Edge, Clock, CsrMgr
  <2>2. gap = 0 /\ gap' = MinGap - 1
    BY <2>1, RspIs DEF Edge, Delivers
  <2>3. csr_rx = None
    BY <2>2, MmioGapAssumption DEF RequestInv
  <2>4. csr_wr' = None
    BY <2>3, BusEdge, StoresAre
  <2> QED
    BY <2>2, <2>4
<1>5. ASSUME NEW k \in Pipe', InPipe(k)' \in HostLoads
      PROVE  hpc = "answer" /\ \A m \in Pipe' : m > k => InPipe(m)' = None
  <2>1. PICK i \in Pipe \ {0} : Moved(i, n) = k /\ InPipe(i) = InPipe(k)'
    BY <1>1, <1>3, <1>5
  <2>2. hpc = "answer" /\ \A m \in Pipe : m > i => InPipe(m) = None
    BY <1>5, <2>1 DEF RequestInv
  <2>3. ASSUME NEW m \in Pipe', m > k, InPipe(m)' # None PROVE FALSE
    <3>1. PICK j \in Pipe \ {0} : Moved(j, n) = m /\ InPipe(j) = InPipe(m)'
      BY <1>1, <2>3
    <3>2. i \in Nat \ {0} /\ j \in Nat \ {0} /\ k \in Nat /\ m \in Nat
      BY <1>2, <2>1, <3>1 DEF Pipe
    <3>3. i < j
      BY <2>1, <2>3, <3>1, <3>2, MovedKeepsOrder
    <3> QED
      BY <2>2, <2>3, <3>1, <3>2, <3>3
  <2> QED
    BY <2>2, <2>3
<1>6. ASSUME \A i \in Pipe \ {0} : InPipe(i) = None \/ i = 1,
             csr_rx \notin HostStores
      PROVE  \A k \in Pipe' : InPipe(k)' = None
  <2> SUFFICES ASSUME NEW k \in Pipe', InPipe(k)' # None PROVE FALSE
    OBVIOUS
  <2>1. PICK i \in Pipe \ {0} : Moved(i, n) = k /\ InPipe(i) = InPipe(k)'
    BY <1>1
  <2>2. i = 1
    BY <1>6, <2>1
  <2>3. k = 0
    BY <2>1, <2>2 DEF Moved
  <2>4. InPipe(k)' = csr_wr'
    BY <2>3 DEF InPipe
  <2>5. csr_wr' = None
    BY <1>6, BusEdge
  <2> QED
    BY <2>4, <2>5
<1>7. ASSUME c2' # None \/ answer' # None
      PROVE  hpc = "answer" /\ (c2' = None \/ answer' = None) /\ \A k \in Pipe' : InPipe(k)' = None
  <2>1. /\ c2' = (IF csr_rx # None /\ csr_rx.op = "read"
                  THEN csr_rx.csr = PARTITION_PROCESSED /\ partition_processed
                  ELSE None)
        /\ answer' = (IF c2 # None THEN c2 ELSE answer)
    BY DEF Edge, Clock, CsrMgr, Ports
  <2>2. 1 \in Pipe /\ InPipe(1) = csr_rx
    BY <1>2 DEF Pipe, InPipe
  <2>3. CASE c2' # None
    <3>1. csr_rx # None /\ csr_rx.op = "read"
      BY <2>1, <2>3
    <3>2. csr_rx \in HostLoads /\ csr_rx \notin HostStores
      BY <3>1, StoresAre DEF BusTypes
    <3>3. hpc = "answer" /\ \A i \in Pipe : i > 1 => InPipe(i) = None
      BY <2>2, <3>2 DEF RequestInv
    <3>4. c2 = None /\ answer = None
      BY <2>2, <3>1 DEF RequestInv
    <3>5. \A i \in Pipe \ {0} : InPipe(i) = None \/ i = 1
      BY <1>2, <3>3 DEF Pipe
    <3> QED
      BY <1>6, <2>1, <3>2, <3>3, <3>4, <3>5
  <2>4. CASE c2' = None /\ answer' # None
    <3>1. c2 # None \/ answer # None
      BY <2>1, <2>4
    <3>2. hpc = "answer" /\ \A i \in Pipe : InPipe(i) = None
      BY <3>1 DEF RequestInv
    <3> QED
      BY <1>3, <1>6, <2>2, <2>4, <3>2
  <2> QED
    BY <1>7, <2>3, <2>4
<1> QED
  BY <1>2, <1>4, <1>5, <1>7 DEF RequestInv

\* What the decoded store does to the registers it is for.
LEMMA RegistersEdge ==
  ASSUME BusTypes, OrderInv, UnitTypes, NEW rx, NEW full, Edge(rx, full)
  PROVE  /\ csr_wr \in ClsStores => total_cls' = csr_wr.data
         /\ csr_wr \notin ClsStores => total_cls' = total_cls
         /\ csr_wr \in PageStores => read_buff_address' = csr_wr.data /\ new_partition_ready'
         /\ csr_wr \notin PageStores => /\ read_buff_address' = read_buff_address
                                        /\ new_partition_ready' => new_partition_ready /\ ~isActive
         /\ csr_wr \in ResultStores => write_buff_address' = csr_wr.data
         /\ csr_wr \notin ResultStores => write_buff_address' = write_buff_address
<1>1. /\ new_partition_ready' = IF isActive THEN Written(COLUMN_ADDRESS) ELSE new_partition_ready
      /\ read_buff_address' = Latch(COLUMN_ADDRESS, read_buff_address, csr_wr.data)
      /\ write_buff_address' = Latch(RESULT_ADDRESS, write_buff_address, csr_wr.data)
      /\ total_cls' = Latch(TOTAL_CLS, total_cls, csr_wr.data % 128)
  BY DEF Edge, Clock, Parameters
<1>2. csr_wr \in HostStores \cup {None} /\ None \notin HostStores
  BY StoresAre DEF BusTypes
<1>3. csr_wr \in HostStores =>
        /\ csr_wr \in ClsStores <=> csr_wr.csr = TOTAL_CLS
        /\ csr_wr \in PageStores <=> csr_wr.csr = COLUMN_ADDRESS
        /\ csr_wr \in ResultStores <=> csr_wr.csr = RESULT_ADDRESS
        /\ csr_wr.csr = TOTAL_CLS => csr_wr.data \in 1 .. PageLines
  BY StoresAre
<1>4. ClsStores \cup PageStores \cup ResultStores \subseteq ParamStores /\ ParamStores \subseteq HostStores
  BY DEF ParamStores, HostStores
<1>5. csr_wr \in ParamStores => isActive
  BY StoreEdge
<1>6. /\ Written(TOTAL_CLS) <=> csr_wr \in ClsStores
      /\ Written(COLUMN_ADDRESS) <=> csr_wr \in PageStores
      /\ Written(RESULT_ADDRESS) <=> csr_wr \in ResultStores
  BY <1>2, <1>3, <1>4 DEF Written
<1>7. csr_wr \in ClsStores => csr_wr.data % 128 = csr_wr.data
  <2>1. PageLines \in Nat /\ PageLines < 128
    BY FpgaScanAssumption
  <2> QED
    BY <1>3, <1>4, <2>1
<1> QED
  BY <1>1, <1>4, <1>5, <1>6, <1>7 DEF Latch

LEMMA FollowEdge ==
  ASSUME BusTypes, OrderInv, UnitTypes, FollowInv, NEW rx, NEW full, Edge(rx, full)
  PROVE  FollowInv'
<1>1. hpc' = hpc /\ (InPart' <=> InPart)
  BY DEF Edge, Ports, hostVars, InPart
<1>2. ClsStores \in SUBSET HostStores /\ PageStores \in SUBSET HostStores
      /\ ResultStores \in SUBSET HostStores
  BY DEF HostStores, ParamStores
<1>3. /\ Follows(PageStores, ResultStores) => Follows(PageStores, ResultStores)'
      /\ Follows(PageStores, ResultStores) /\ csr_wr \in PageStores => Has(ResultStores)'
      /\ Follows(ClsStores, PageStores) => Follows(ClsStores, PageStores)'
  BY <1>2, FollowsEdge
<1>4. /\ csr_wr \notin PageStores => (new_partition_ready' => new_partition_ready /\ ~isActive)
      /\ new_partition_ready' \in BOOLEAN
  BY RegistersEdge, StoreEdge
<1>5. new_partition_ready' => csr_wr \in PageStores
  BY <1>4 DEF FollowInv
<1>6. new_partition_ready' => hpc' = "result_address" \/ Has(ResultStores)'
  BY <1>1, <1>3, <1>5 DEF FollowInv
<1>7. ASSUME new_partition_ready' PROVE isActive'
  <2>1. csr_wr \in PageStores /\ csr_wr \in ParamStores
    BY <1>5, <1>7 DEF ParamStores
  <2>2. csr_wr.csr # QUERY_STATE
    BY <1>2, <2>1, StoresAre
  <2>3. csr_wr \notin StartStores \cup EndStores
    BY <2>2, CsrIs DEF StartStores, EndStores
  <2>4. isActive
    BY <2>1, StoreEdge
  <2> QED
    BY <2>3, <2>4, StoreEdge DEF isActive
<1> QED
  BY <1>1, <1>3, <1>6, <1>7 DEF FollowInv

LEMMA LatestEdge ==
  ASSUME HostTypes, BusTypes, OrderInv, UnitTypes, LatestInv, NEW rx, NEW full, Edge(rx, full)
  PROVE  LatestInv'
<1>1. hpc' = hpc /\ scan' = scan /\ part' = part /\ (InPart' <=> InPart)
  BY DEF Edge, Ports, hostVars, InPart
<1>2. ClsStores \in SUBSET HostStores /\ PageStores \in SUBSET HostStores
      /\ ResultStores \in SUBSET HostStores
  BY DEF HostStores, ParamStores
<1>3. PICK n : n = TotalCls(scan)
  OBVIOUS
<1>4. TotalCls(scan)' = n
  BY <1>1, <1>3 DEF TotalCls
<1>5. PICK b : b = Buffer
  OBVIOUS
<1>6. Buffer' = b
  BY <1>1, <1>5 DEF Buffer
<1>7. ASSUME Carries(ClsStores, TotalCls(scan), total_cls)
      PROVE  Carries(ClsStores, TotalCls(scan), total_cls)'
  <2>1. PICK old : old = total_cls
    OBVIOUS
  <2>2. PICK new : new = total_cls'
    OBVIOUS
  <2>3. Carries(ClsStores, n, old)
    BY <1>3, <1>7, <2>1 DEF Carries
  <2>4. (csr_wr \in ClsStores => new = csr_wr.data) /\ (csr_wr \notin ClsStores => new = old)
    BY <2>1, <2>2, RegistersEdge
  <2>5. Latest(ClsStores, n)' \/ (new = n /\ ~Has(ClsStores)')
    BY <1>2, <2>3, <2>4, CarriesEdge
  <2> QED
    BY <1>4, <2>2, <2>5 DEF Carries
<1>8. ASSUME Carries(PageStores, Buffer, read_buff_address)
      PROVE  Carries(PageStores, Buffer, read_buff_address)'
  <2>1. PICK old : old = read_buff_address
    OBVIOUS
  <2>2. PICK new : new = read_buff_address'
    OBVIOUS
  <2>3. Carries(PageStores, b, old)
    BY <1>5, <1>8, <2>1 DEF Carries
  <2>4. (csr_wr \in PageStores => new = csr_wr.data) /\ (csr_wr \notin PageStores => new = old)
    BY <2>1, <2>2, RegistersEdge
  <2>5. Latest(PageStores, b)' \/ (new = b /\ ~Has(PageStores)')
    BY <1>2, <2>3, <2>4, CarriesEdge
  <2> QED
    BY <1>6, <2>2, <2>5 DEF Carries
<1>9. ASSUME Carries(ResultStores, Buffer, write_buff_address)
      PROVE  Carries(ResultStores, Buffer, write_buff_address)'
  <2>1. PICK old : old = write_buff_address
    OBVIOUS
  <2>2. PICK new : new = write_buff_address'
    OBVIOUS
  <2>3. Carries(ResultStores, b, old)
    BY <1>5, <1>9, <2>1 DEF Carries
  <2>4. (csr_wr \in ResultStores => new = csr_wr.data) /\ (csr_wr \notin ResultStores => new = old)
    BY <2>1, <2>2, RegistersEdge
  <2>5. Latest(ResultStores, b)' \/ (new = b /\ ~Has(ResultStores)')
    BY <1>2, <2>3, <2>4, CarriesEdge
  <2> QED
    BY <1>6, <2>2, <2>5 DEF Carries
<1> QED
  BY <1>1, <1>7, <1>8, <1>9 DEF LatestInv

\* A unit that has raised the flag stays as it is until it takes an address.
LEMMA FlagEdge ==
  ASSUME BusTypes, OrderInv, UnitTypes, RequestInv, FollowInv, FlagInv,
         NEW rx, NEW full, Edge(rx, full)
  PROVE  FlagInv'
<1>1. StateMachine /\ Progress
  BY DEF Edge, Clock
<1>2. hpc' = hpc /\ (InPart' <=> InPart)
  BY DEF Edge, Ports, hostVars, InPart
<1>3. /\ state \in {"waiting", "idle", "req", "rsp", "processing"}
      /\ total_cls \in Nat /\ total_cls_processed \in Nat
  BY FpgaScanAssumption DEF UnitTypes
<1>4. LineDone => state = "processing" /\ state' = "idle"
  <2> SUFFICES ASSUME LineDone PROVE state = "processing" /\ state' = "idle"
    OBVIOUS
  <2>1. state = "processing"
    BY DEF LineDone
  <2> QED
    BY <1>1, <2>1 DEF StateMachine
<1>5. ASSUME partition_processed'
      PROVE  /\ ~new_partition_ready
             /\ \/ LineDone /\ total_cls_processed' = total_cls
                            /\ total_cls = total_cls_processed + 1
                \/ /\ ~LineDone /\ partition_processed /\ cl_req_allowed' = cl_req_allowed
                   /\ total_cls_processed' \in {0, total_cls_processed}
  <2>1. CASE new_partition_ready
    BY <1>1, <1>5, <2>1 DEF Progress
  <2>2. CASE ~new_partition_ready /\ LineDone
    <3>1. partition_processed' = (total_cls_processed + 1 = total_cls)
          /\ total_cls_processed' = total_cls_processed + 1
      BY <1>1, <2>2 DEF Progress
    <3>2. total_cls_processed + 1 = total_cls
      BY <1>5, <3>1, Zenon
    <3> QED
      BY <2>2, <3>1, <3>2
  <2>3. CASE ~new_partition_ready /\ ~LineDone
    BY <1>1, <1>5, <2>3 DEF Progress
  <2> QED
    BY <2>1, <2>2, <2>3
<1>6. ASSUME partition_processed' PROVE ~cl_req_allowed' /\ state' \in {"idle", "waiting"}
  <2>1. CASE LineDone
    <3>1. ~new_partition_ready /\ total_cls = total_cls_processed + 1
      BY <1>5, <1>6, <2>1
    <3>2. cl_req_allowed' = (total_cls_processed + 1 < total_cls)
      BY <1>1, <2>1, <3>1 DEF Progress
    <3>3. ~ (total_cls_processed + 1 < total_cls)
      BY <1>3, <3>1
    <3> QED
      BY <1>4, <2>1, <3>2, <3>3
  <2>2. CASE ~LineDone
    <3>1. partition_processed /\ cl_req_allowed' = cl_req_allowed /\ ~new_partition_ready
      BY <1>5, <1>6, <2>2
    <3>2. ~cl_req_allowed /\ state \in {"idle", "waiting"}
      BY <3>1 DEF FlagInv
    <3> QED
      BY <1>1, <2>2, <3>1, <3>2 DEF StateMachine
  <2> QED
    BY <2>1, <2>2
<1>7. ASSUME partition_processed', InPart, ~Has(PageStores)', ~new_partition_ready'
      PROVE  total_cls_processed' \in {0, total_cls'}
  <2>1. PageStores \in SUBSET HostStores /\ ClsStores \in SUBSET HostStores
    BY DEF HostStores, ParamStores
  <2>2. csr_wr \notin PageStores
    BY <1>7, RegistersEdge
  <2>3. ~Has(PageStores)
    BY <1>7, <2>1, <2>2, BehindEdge
  <2>4. csr_wr \notin ClsStores
    BY <1>7, <2>1, FollowsEdge DEF FollowInv
  <2>5. total_cls' = total_cls
    BY <2>4, RegistersEdge
  <2> QED
    BY <1>5, <1>7, <2>3, <2>5 DEF FlagInv
<1>8. ASSUME c2' = TRUE \/ answer' = TRUE PROVE partition_processed'
  <2>1. /\ c2' = (IF csr_rx # None /\ csr_rx.op = "read"
                  THEN csr_rx.csr = PARTITION_PROCESSED /\ partition_processed
                  ELSE None)
        /\ answer' = (IF c2 # None THEN c2 ELSE answer)
        /\ None \notin BOOLEAN
    BY NoneAssumption DEF Edge, Clock, CsrMgr, Ports
  <2>2. partition_processed /\ (csr_rx # None \/ c2 # None \/ answer # None)
    <3>1. CASE c2' = TRUE
      BY <2>1, <3>1, Zenon
    <3>2. CASE answer' = TRUE
      <4>1. c2 = TRUE \/ answer = TRUE
        BY <2>1, <3>2
      <4> QED
        BY <2>1, <4>1 DEF FlagInv
    <3> QED
      BY <1>8, <3>1, <3>2
  <2>3. hpc = "answer" /\ ~Has(ResultStores)
    <3>1. Len(mmio) \in Nat /\ 0 \in Pipe /\ 1 \in Pipe /\ InPipe(0) = csr_wr /\ InPipe(1) = csr_rx
      BY DEF BusTypes, Pipe, InPipe
    <3>2. ResultStores \subseteq HostStores /\ None \notin ResultStores
      BY StoresAre DEF HostStores, ParamStores
    <3>3. CASE c2 # None \/ answer # None
      BY <3>2, <3>3 DEF RequestInv, Has
    <3>4. CASE c2 = None /\ answer = None
      <4>1. csr_rx # None /\ csr_rx.op = "read"
        <5>1. answer' = None
          BY <2>1, <3>4
        <5>2. c2' = TRUE
          BY <1>8, <2>1, <5>1
        <5> QED
          BY <2>1, <5>2
      <4>2. csr_rx \in HostLoads /\ csr_rx \notin HostStores
        BY <4>1, StoresAre DEF BusTypes
      <4>3. hpc = "answer" /\ \A j \in Pipe : j > 1 => InPipe(j) = None
        BY <3>1, <4>2 DEF RequestInv
      <4>4. csr_wr = None
        BY <4>1 DEF RequestInv
      <4>5. \A j \in Pipe : j = 0 \/ j = 1 \/ j > 1
        BY <3>1 DEF Pipe
      <4> QED
        BY <3>1, <3>2, <4>2, <4>3, <4>4, <4>5 DEF Has
    <3> QED
      BY <3>3, <3>4
  <2>4. ~new_partition_ready
    BY <2>3 DEF FollowInv
  <2>5. ~LineDone
    BY <2>2 DEF FlagInv, LineDone
  <2>6. partition_processed' = partition_processed
    BY <1>1, <2>4, <2>5 DEF Progress
  <2> QED
    BY <2>2, <2>6
<1> QED
  BY <1>2, <1>6, <1>7, <1>8 DEF FlagInv

\* One line at a time is asked for, and the unit waits for it.
LEMMA ReadsEdge ==
  ASSUME BusTypes, OrderInv, UnitTypes, FollowInv, ReadsInv, NEW rx, NEW full, Edge(rx, full)
  PROVE  ReadsInv'
<1>1. StateMachine /\ ReadRequest(full) /\ ReadResponse(rx) /\ held' = Bus /\ hpc' = hpc
  BY DEF Edge, Clock, MemoryPorts, Ports, hostVars
<1> SUFFICES ASSUME hpc # "done"
             PROVE  /\ cl_received' => state' = "rsp"
                    /\ cl_req_issued' => state' = "req"
                    /\ c0' # None => cl_req_issued'
                    /\ reading' # {} => state' = "rsp" /\ ~cl_received'
                    /\ \A x, y \in reading' : x = y
                    /\ ~isActive' => held'.c0 = None /\ state' = "waiting"
  BY <1>1 DEF ReadsInv
<1>2. /\ cl_received => state = "rsp"
      /\ cl_req_issued => state = "req"
      /\ c0 # None => cl_req_issued
      /\ reading # {} => state = "rsp" /\ ~cl_received
      /\ \A x, y \in reading : x = y
      /\ ~isActive => held.c0 = None /\ state = "waiting" /\ ~new_partition_ready
  BY DEF ReadsInv, FollowInv
<1>3. state \in {"waiting", "idle", "req", "rsp", "processing"} /\ cl_req_issued \in BOOLEAN
      /\ cl_received \in BOOLEAN
  BY DEF UnitTypes
<1>4. /\ state = "req" => state' = IF cl_req_issued THEN "rsp" ELSE "req"
      /\ state = "rsp" => state' = IF cl_received THEN "processing" ELSE "rsp"
      /\ state = "waiting" /\ ~new_partition_ready => state' = "waiting"
  <2>1. LineDone => state = "processing"
    BY DEF LineDone
  <2> QED
    BY <1>1, <2>1 DEF StateMachine
<1>5. \/ rx = ReadRsp(CHOOSE l \in reading : TRUE) /\ reading # {} /\ reading' = Requested
      \/ ~(rx # None /\ rx.op = "rsp") /\ reading' = reading \cup Requested
  <2>1. CASE \E line \in reading : rx = ReadRsp(line) /\ reading' = (reading \ {line}) \cup Requested
    <3>1. PICK line \in reading : rx = ReadRsp(line) /\ reading' = (reading \ {line}) \cup Requested
      BY <2>1
    <3>2. reading = {line} /\ (CHOOSE l \in reading : TRUE) = line
      BY <1>2, <3>1
    <3> QED
      BY <3>1, <3>2
  <2>2. CASE rx = None /\ reading' = reading \cup Requested
    BY <2>2
  <2>3. CASE mmio # <<>> /\ rx = Head(mmio) /\ reading' = reading \cup Requested
    <3>1. rx \in HostStores \cup HostLoads
      BY <2>3 DEF BusTypes
    <3>2. rx.op # "rsp"
      BY <3>1, StoresAre, LoadsAre
    <3> QED
      BY <2>3, <3>2
  <2> QED
    BY <2>1, <2>2, <2>3 DEF Edge, Delivers
<1>6. Bus.c0 # None => isActive /\ c0 # None
  BY <1>2 DEF Bus, isActive
<1>7. Requested # {} => state = "req" /\ cl_req_issued /\ reading = {} /\ ~cl_received
  BY <1>2, <1>6 DEF Requested
<1>8. \A x, y \in Requested : x = y
  BY DEF Requested
<1>9. /\ cl_req_issued' => state = "req" /\ ~cl_req_issued
      /\ c0' # None => cl_req_issued'
  <2>1. CASE state = "req"
    <3>1. /\ c0' = IF ~full /\ ~cl_req_issued THEN LineOf(read_buff_address) ELSE None
          /\ cl_req_issued' = (~full /\ ~cl_req_issued)
      BY <1>1, <2>1 DEF ReadRequest
    <3> QED
      BY <2>1, <3>1
  <2>2. CASE state = "rsp"
    BY <1>1, <1>2, <2>2 DEF ReadRequest
  <2>3. CASE state # "req" /\ state # "rsp"
    BY <1>1, <1>2, <2>3 DEF ReadRequest
  <2> QED
    BY <2>1, <2>2, <2>3
<1>10. cl_received' => state = "rsp" /\ ~cl_received /\ rx # None /\ rx.op = "rsp"
  <2>1. CASE state = "rsp"
    <3>1. cl_received' = (rx # None /\ rx.op = "rsp")
      BY <1>1, <2>1 DEF ReadResponse
    <3>2. rx # None /\ rx.op = "rsp" => ~cl_received
      BY <1>2, <1>5
    <3> QED
      BY <2>1, <3>1, <3>2
  <2>2. CASE state # "rsp"
    BY <1>1, <1>2, <2>2 DEF ReadResponse
  <2> QED
    BY <2>1, <2>2
<1>11. cl_received' => state' = "rsp"
  BY <1>4, <1>10
<1>12. cl_req_issued' => state' = "req"
  BY <1>4, <1>9
<1>13. ASSUME reading' # {} PROVE state' = "rsp" /\ ~cl_received' /\ \A x, y \in reading' : x = y
  <2>1. CASE Requested # {}
    <3>1. state = "req" /\ cl_req_issued /\ reading = {} /\ ~cl_received
      BY <1>7, <2>1
    <3>2. reading' = Requested
      BY <1>5, <3>1
    <3> QED
      BY <1>4, <1>8, <1>10, <3>1, <3>2
  <2>2. CASE Requested = {}
    <3>1. ~(rx # None /\ rx.op = "rsp") /\ reading' = reading
      BY <1>5, <1>13, <2>2
    <3>2. state = "rsp" /\ ~cl_received
      BY <1>2, <1>13, <3>1
    <3> QED
      BY <1>2, <1>4, <1>10, <3>1, <3>2
  <2> QED
    BY <2>1, <2>2
<1>14. ASSUME ~isActive' PROVE held'.c0 = None /\ state' = "waiting"
  <2>1. ~isActive
    <3>1. csr_wr \notin StartStores
      BY <1>14, StoreEdge
    <3>2. csr_wr \notin EndStores
      <4>1. 0 \in Pipe /\ InPipe(0) = csr_wr
        BY DEF BusTypes, Pipe, InPipe
      <4> QED
        BY <4>1 DEF OrderInv, EndIsLast
    <3> QED
      BY <1>14, <3>1, <3>2, StoreEdge DEF isActive
  <2> QED
    BY <1>1, <1>2, <1>4, <2>1 DEF Bus, isActive
<1> QED
  BY <1>9, <1>11, <1>12, <1>13, <1>14

LEMMA OnceEdge ==
  ASSUME TypeInv, OnceInv, NEW full,
         Tick(full) \/ TickRequest(full) \/ \E line \in reading : TickResponse(line, full)
  PROVE  OnceInv'
<1>1. PICK rx : Edge(rx, full)
  BY EdgeIs
<1> QED
  BY <1>1, RequestEdge, FollowEdge, LatestEdge, FlagEdge, ReadsEdge DEF TypeInv, OnceInv

-----------------------------------------------------------------------------
(* The host. *)

LEMMA HostReads ==
  ASSUME ReadsInv, hpc # "done", UNCHANGED <<afuVars, reading>>
  PROVE  ReadsInv'
BY DEF ReadsInv, isActive, afuVars, params

\* A request joins an empty answer path: no load is under way.
LEMMA RequestGrows ==
  ASSUME BusTypes, RequestInv, hpc # "answer", UNCHANGED <<afuVars, gap, answer>>,
         NEW r \in HostStores \cup HostLoads, mmio' = Append(mmio, r),
         r \in HostLoads => hpc' = "answer"
  PROVE  RequestInv'
<1>1. UNCHANGED <<csr_rx, csr_wr, c2>>
  BY DEF afuVars
<1>2. /\ Len(mmio) \in Nat
      /\ Pipe' = Pipe \cup {Len(mmio) + 2}
      /\ \A i \in Pipe : i < Len(mmio) + 2 /\ InPipe(i)' = InPipe(i)
      /\ \A k : k = Len(mmio) + 2 => InPipe(k)' = r
  BY <1>1, PipeGrows
<1>3. ASSUME NEW i \in Pipe', InPipe(i)' \in HostLoads
      PROVE  hpc' = "answer" /\ \A j \in Pipe' : j > i => InPipe(j)' = None
  <2>1. i \notin Pipe
    BY <1>2, <1>3 DEF RequestInv
  <2>2. i = Len(mmio) + 2 /\ r \in HostLoads
    BY <1>2, <1>3, <2>1
  <2>3. \A j \in Pipe' : ~(j > i)
    BY <1>2, <2>2 DEF Pipe
  <2> QED
    BY <2>2, <2>3
<1> QED
  BY <1>1, <1>3 DEF RequestInv

\* The stores of a new scan, and the last one of the query.
LEMMA SetupOnce ==
  ASSUME TypeInv, OnceInv, ~InPart, hpc # "done", ~InPart', hpc' # "loop" \/ hpc = "job_type",
         UNCHANGED <<afuVars, gap, answer, reading, scan>>,
         NEW r \in HostStores, mmio' = Append(mmio, r),
         r \notin PageStores, r \notin ResultStores,
         hpc' \in {"filter_predicate", "job_type", "loop"} =>
           \/ r \in ClsStores /\ r.data = TotalCls(scan)
           \/ r \notin ClsStores /\ hpc \in {"filter_predicate", "job_type"}
  PROVE  OnceInv'
<1>1. UNCHANGED <<csr_rx, csr_wr, c2, total_cls, isActive, new_partition_ready>>
      /\ UNCHANGED <<partition_processed, cl_req_allowed, state>>
  BY DEF afuVars, params, isActive
<1>2. r \notin HostLoads /\ hpc # "answer" /\ hpc # "result_address" /\ hpc' # "result_address"
      /\ hpc' \notin {"poll", "answer"}
  BY LoadsAre DEF InPart
<1>3. ReadsInv'
  BY HostReads DEF OnceInv
<1>4. RequestInv'
  BY <1>2, RequestGrows DEF TypeInv, OnceInv
<1>5. FollowInv'
  <2>1. /\ Follows(PageStores, ResultStores) => Follows(PageStores, ResultStores)'
        /\ Has(ResultStores)' <=> Has(ResultStores)
    BY <1>1, FollowsGrows DEF TypeInv
  <2> QED
    BY <1>1, <1>2, <2>1 DEF OnceInv, FollowInv
<1>6. LatestInv'
  <2> SUFFICES ASSUME hpc' \in {"filter_predicate", "job_type", "loop"}
               PROVE  Carries(ClsStores, TotalCls(scan), total_cls)'
    BY <1>2 DEF LatestInv
  <2>1. PICK n : n = TotalCls(scan)
    OBVIOUS
  <2>2. TotalCls(scan)' = n
    BY <2>1 DEF TotalCls
  <2>3. /\ r \notin ClsStores => (Latest(ClsStores, n) => Latest(ClsStores, n)')
                                 /\ (Has(ClsStores)' <=> Has(ClsStores))
        /\ r \in ClsStores => (r.data = n => Latest(ClsStores, n)')
    BY <1>1, FollowsGrows DEF TypeInv
  <2>4. r \notin ClsStores => Latest(ClsStores, n) \/ (total_cls = n /\ ~Has(ClsStores))
    BY <2>1 DEF OnceInv, LatestInv, Carries
  <2> QED
    BY <1>1, <2>1, <2>2, <2>3, <2>4 DEF Carries
<1>7. FlagInv'
  BY <1>1, <1>2 DEF OnceInv, FlagInv
<1> QED
  BY <1>3, <1>4, <1>5, <1>6, <1>7 DEF OnceInv

LEMMA ColumnOnce ==
  ASSUME TypeInv, OnceInv, WriteColumnAddress
  PROVE  OnceInv'
<1> DEFINE b == <<ScanType[scan], Head(queue)>>
           r == WriteCSR(COLUMN_ADDRESS, b)
<1>1. hpc = "loop" /\ hpc' = "result_address" /\ mmio' = Append(mmio, r)
      /\ queue # <<>> /\ part' = Head(queue)
      /\ UNCHANGED <<afuVars, gap, answer, reading, scan>>
  BY DEF WriteColumnAddress, Access, Other
<1>2. UNCHANGED <<csr_rx, csr_wr, c2, total_cls, isActive, new_partition_ready>>
      /\ UNCHANGED <<partition_processed, cl_req_allowed, state>>
  BY <1>1 DEF afuVars, params, isActive
<1>3. b \in Pages
  <2>1. scan \in Scan /\ Head(queue) \in PartId(scan)
    BY <1>1 DEF TypeInv, HostTypes
  <2> QED
    BY <2>1, PagesAre
<1>4. r \in PageStores /\ r \in HostStores /\ r.data = b
  BY <1>3, CsrIs DEF PageStores, HostStores, ParamStores
<1>5. r \notin ClsStores /\ r \notin ResultStores /\ r \notin HostLoads
  BY <1>4, StoresAre, LoadsAre, CsrIs DEF TOTAL_CLS, COLUMN_ADDRESS, RESULT_ADDRESS
<1> HIDE DEF r
<1>6. ReadsInv'
  BY <1>1, HostReads DEF OnceInv
<1>7. RequestInv'
  BY <1>1, <1>4, <1>5, RequestGrows DEF TypeInv, OnceInv
<1>8. FollowInv'
  <2>1. Follows(ClsStores, PageStores)'
    BY <1>1, <1>2, <1>4, <1>5, FollowsGrows DEF TypeInv
  <2> QED
    BY <1>1, <1>2, <2>1 DEF OnceInv, FollowInv
<1>9. LatestInv'
  <2>1. PICK n : n = TotalCls(scan)
    OBVIOUS
  <2>2. TotalCls(scan)' = n
    BY <1>1, <2>1 DEF TotalCls
  <2>3. PICK v : v = b
    OBVIOUS
  <2>4. Buffer' = v
    BY <1>1, <2>3 DEF Buffer
  <2>5. (Latest(ClsStores, n) => Latest(ClsStores, n)') /\ (Has(ClsStores)' <=> Has(ClsStores))
    BY <1>1, <1>2, <1>4, <1>5, FollowsGrows DEF TypeInv
  <2>6. Latest(ClsStores, n) \/ (total_cls = n /\ ~Has(ClsStores))
    BY <1>1, <2>1 DEF OnceInv, LatestInv, Carries
  <2>7. Carries(ClsStores, TotalCls(scan), total_cls)'
    BY <1>2, <2>2, <2>5, <2>6 DEF Carries
  <2>8. Latest(PageStores, v)'
    BY <1>1, <1>2, <1>4, <2>3, FollowsGrows DEF TypeInv
  <2> QED
    BY <1>1, <2>4, <2>7, <2>8 DEF LatestInv, Carries
<1>10. FlagInv'
  <2>1. Has(PageStores)'
    BY <1>1, <1>2, <1>4, FollowsGrows DEF TypeInv
  <2> QED
    BY <1>1, <1>2, <2>1 DEF OnceInv, FlagInv
<1> QED
  BY <1>6, <1>7, <1>8, <1>9, <1>10 DEF OnceInv

LEMMA ResultOnce ==
  ASSUME TypeInv, OnceInv, WriteResultAddress
  PROVE  OnceInv'
<1> DEFINE r == WriteCSR(RESULT_ADDRESS, Buffer)
<1>1. hpc = "result_address" /\ hpc' = "poll" /\ mmio' = Append(mmio, r)
      /\ UNCHANGED <<afuVars, gap, answer, reading, scan, part>>
  BY DEF WriteResultAddress, Access, Other
<1>2. UNCHANGED <<csr_rx, csr_wr, c2, total_cls, read_buff_address, isActive, new_partition_ready>>
      /\ UNCHANGED <<partition_processed, cl_req_allowed, state, total_cls_processed>>
  BY <1>1 DEF afuVars, params, isActive
<1>3. Buffer \in Pages
  BY <1>1, PagesAre DEF Buffer, TypeInv, HostTypes, InPart
<1>4. r \in ResultStores /\ r \in HostStores /\ r.data = Buffer
  BY <1>3, CsrIs DEF ResultStores, HostStores, ParamStores
<1>5. r \notin ClsStores /\ r \notin PageStores /\ r \notin HostLoads
  BY <1>4, StoresAre, LoadsAre, CsrIs DEF TOTAL_CLS, COLUMN_ADDRESS, RESULT_ADDRESS
<1> HIDE DEF r
<1>6. ReadsInv'
  BY <1>1, HostReads DEF OnceInv
<1>7. RequestInv'
  BY <1>1, <1>4, <1>5, RequestGrows DEF TypeInv, OnceInv
<1>8. InPart /\ InPart'
  BY <1>1 DEF InPart
<1>9. FollowInv'
  <2>1. Follows(PageStores, ResultStores)' /\ Has(ResultStores)'
    BY <1>1, <1>2, <1>4, <1>5, FollowsGrows DEF TypeInv
  <2>2. Follows(ClsStores, PageStores) => Follows(ClsStores, PageStores)'
    BY <1>1, <1>2, <1>4, <1>5, FollowsGrows DEF TypeInv
  <2> QED
    BY <1>2, <1>8, <2>1, <2>2 DEF OnceInv, FollowInv
<1>10. LatestInv'
  <2>1. PICK n : n = TotalCls(scan)
    OBVIOUS
  <2>2. TotalCls(scan)' = n
    BY <1>1, <2>1 DEF TotalCls
  <2>3. PICK v : v = Buffer
    OBVIOUS
  <2>4. Buffer' = v
    BY <1>1, <2>3 DEF Buffer
  <2>5. (Latest(ClsStores, n) => Latest(ClsStores, n)') /\ (Has(ClsStores)' <=> Has(ClsStores))
    BY <1>1, <1>2, <1>4, <1>5, FollowsGrows DEF TypeInv
  <2>6. Latest(ClsStores, n) \/ (total_cls = n /\ ~Has(ClsStores))
    BY <1>8, <2>1 DEF OnceInv, LatestInv, Carries
  <2>7. Carries(ClsStores, TotalCls(scan), total_cls)'
    BY <1>2, <2>2, <2>5, <2>6 DEF Carries
  <2>8. (Latest(PageStores, v) => Latest(PageStores, v)') /\ (Has(PageStores)' <=> Has(PageStores))
    BY <1>1, <1>2, <1>4, <1>5, FollowsGrows DEF TypeInv
  <2>9. Latest(PageStores, v) \/ (read_buff_address = v /\ ~Has(PageStores))
    BY <1>8, <2>3 DEF OnceInv, LatestInv, Carries
  <2>10. Carries(PageStores, Buffer, read_buff_address)'
    BY <1>2, <2>4, <2>8, <2>9 DEF Carries
  <2>11. Latest(ResultStores, v)'
    BY <1>1, <1>2, <1>4, <2>3, FollowsGrows DEF TypeInv
  <2> QED
    BY <2>4, <2>7, <2>10, <2>11 DEF LatestInv, Carries
<1>11. FlagInv'
  <2>1. Has(PageStores)' <=> Has(PageStores)
    BY <1>1, <1>2, <1>4, <1>5, FollowsGrows DEF TypeInv
  <2> QED
    BY <1>1, <1>2, <1>8, <2>1 DEF OnceInv, FlagInv
<1> QED
  BY <1>6, <1>7, <1>9, <1>10, <1>11 DEF OnceInv

LEMMA PollOnce ==
  ASSUME TypeInv, OnceInv, Poll
  PROVE  OnceInv'
<1> DEFINE r == ReadCSR(PARTITION_PROCESSED)
<1>1. hpc = "poll" /\ hpc' = "answer" /\ mmio' = Append(mmio, r)
      /\ UNCHANGED <<afuVars, gap, answer, reading, scan, part>>
  BY DEF Poll, Access, Other
<1>2. UNCHANGED <<csr_rx, csr_wr, c2, total_cls, read_buff_address, write_buff_address>>
      /\ UNCHANGED <<isActive, new_partition_ready>>
      /\ UNCHANGED <<partition_processed, cl_req_allowed, state, total_cls_processed>>
  BY <1>1 DEF afuVars, params, isActive
<1>3. r \in HostLoads /\ r \notin HostStores
  BY LoadsAre DEF HostLoads
<1>4. r \notin ClsStores /\ r \notin PageStores /\ r \notin ResultStores
  BY <1>3 DEF HostStores, ParamStores
<1> HIDE DEF r
<1>5. ReadsInv'
  BY <1>1, HostReads DEF OnceInv
<1>6. RequestInv'
  BY <1>1, <1>3, RequestGrows DEF TypeInv, OnceInv
<1>7. InPart /\ InPart'
  BY <1>1 DEF InPart
<1>8. \A S \in {ClsStores, PageStores, ResultStores} :
        /\ \A v : Latest(S, v) => Latest(S, v)'
        /\ Has(S)' <=> Has(S)
  BY <1>1, <1>2, <1>3, <1>4, FollowsGrows DEF TypeInv
<1>9. FollowInv'
  <2>1. /\ Follows(PageStores, ResultStores) => Follows(PageStores, ResultStores)'
        /\ Follows(ClsStores, PageStores) => Follows(ClsStores, PageStores)'
    BY <1>1, <1>2, <1>3, <1>4, FollowsGrows DEF TypeInv
  <2> QED
    BY <1>1, <1>2, <1>7, <1>8, <2>1 DEF OnceInv, FollowInv
<1>10. LatestInv'
  <2>1. PICK n : n = TotalCls(scan)
    OBVIOUS
  <2>2. TotalCls(scan)' = n
    BY <1>1, <2>1 DEF TotalCls
  <2>3. PICK v : v = Buffer
    OBVIOUS
  <2>4. Buffer' = v
    BY <1>1, <2>3 DEF Buffer
  <2>5. /\ Latest(ClsStores, n) \/ (total_cls = n /\ ~Has(ClsStores))
        /\ Latest(PageStores, v) \/ (read_buff_address = v /\ ~Has(PageStores))
        /\ Latest(ResultStores, v) \/ (write_buff_address = v /\ ~Has(ResultStores))
    BY <1>1, <1>7, <2>1, <2>3 DEF OnceInv, LatestInv, Carries
  <2> QED
    BY <1>2, <1>8, <2>2, <2>4, <2>5 DEF LatestInv, Carries
<1>11. FlagInv'
  BY <1>1, <1>2, <1>7, <1>8 DEF OnceInv, FlagInv
<1> QED
  BY <1>5, <1>6, <1>9, <1>10, <1>11 DEF OnceInv

\* The steps of the host that access nothing.
LEMMA SilentOnce ==
  ASSUME TypeInv, OnceInv, UNCHANGED <<afuVars, gap, reading, mmio>>, part' = part,
         hpc \in {"loop", "poll", "answer", "copy"},
         hpc' \in {"loop", "poll", "copy", "notify"},
         hpc' = "poll" => hpc = "answer",
         hpc' = "loop" => hpc \in {"poll", "answer"},
         hpc' # "notify" => scan' = scan,
         answer' = IF hpc = "answer" THEN None ELSE answer,
         hpc = "answer" => answer # None
  PROVE  OnceInv'
<1>1. UNCHANGED <<csr_rx, csr_wr, c2, total_cls, read_buff_address, write_buff_address>>
      /\ UNCHANGED <<isActive, new_partition_ready>>
      /\ UNCHANGED <<partition_processed, cl_req_allowed, state, total_cls_processed>>
  BY DEF afuVars, params, isActive
<1>2. /\ Pipe' = Pipe /\ \A i : InPipe(i)' = InPipe(i)
      /\ \A T, S : /\ Follows(T, S)' <=> Follows(T, S)
                   /\ \A v : Latest(S, v)' <=> Latest(S, v)
                   /\ Has(S)' <=> Has(S)
  BY <1>1, SamePipeTypes, SameOrder
<1>3. ReadsInv'
  BY HostReads DEF OnceInv
<1>4. RequestInv'
  <2>1. None \notin HostLoads
    BY LoadsAre
  <2>2. c2' = None /\ answer' = None
    BY <1>1 DEF OnceInv, RequestInv
  <2>3. \A i \in Pipe : InPipe(i) \notin HostLoads
    BY <2>1 DEF OnceInv, RequestInv
  <2> QED
    BY <1>1, <1>2, <2>2, <2>3 DEF OnceInv, RequestInv
<1>5. FollowInv'
  BY <1>1, <1>2 DEF OnceInv, FollowInv, InPart
<1>6. LatestInv'
  <2>1. PICK n : n = TotalCls(scan)
    OBVIOUS
  <2>2. hpc' # "notify" => TotalCls(scan)' = n
    BY <2>1 DEF TotalCls
  <2>3. PICK v : v = Buffer
    OBVIOUS
  <2>4. hpc' # "notify" => Buffer' = v
    BY <2>3 DEF Buffer
  <2>5. /\ InPart => /\ Latest(ClsStores, n) \/ (total_cls = n /\ ~Has(ClsStores))
                     /\ Latest(PageStores, v) \/ (read_buff_address = v /\ ~Has(PageStores))
        /\ hpc = "answer" => Latest(ResultStores, v) \/ (write_buff_address = v /\ ~Has(ResultStores))
    BY <2>1, <2>3 DEF OnceInv, LatestInv, Carries
  <2>6. hpc' \in {"loop", "poll"} => Carries(ClsStores, TotalCls(scan), total_cls)'
    BY <1>1, <1>2, <2>2, <2>5 DEF Carries, InPart
  <2>7. hpc' = "poll" => /\ Carries(PageStores, Buffer, read_buff_address)'
                         /\ Carries(ResultStores, Buffer, write_buff_address)'
    BY <1>1, <1>2, <2>4, <2>5 DEF Carries, InPart
  <2> QED
    BY <2>6, <2>7 DEF LatestInv, InPart
<1>7. FlagInv'
  <2>1. answer' \in {answer, None} /\ None # TRUE
    BY NoneAssumption
  <2>2. InPart' => InPart
    BY DEF InPart
  <2> QED
    BY <1>1, <1>2, <2>1, <2>2 DEF OnceInv, FlagInv
<1> QED
  BY <1>3, <1>4, <1>5, <1>6, <1>7 DEF OnceInv

LEMMA SetupStores ==
  ASSUME TypeInv, OnceInv, Notify \/ WriteTotalCls \/ WriteFilterPredicate \/ WriteJobType
  PROVE  OnceInv'
<1>1. UNCHANGED <<afuVars, gap, answer, reading, scan>>
  BY DEF Notify, WriteTotalCls, WriteFilterPredicate, WriteJobType, Other
<1>2. PICK b : b \in Pages
  <2>1. scan \in Scan /\ 0 \in PartId(scan)
    BY Constants DEF PartId, TypeInv, HostTypes
  <2> QED
    BY <2>1, PagesAre
<1>3. scan \in Scan
  BY DEF TypeInv, HostTypes
<1> USE DEF QUERY_STATE, TOTAL_CLS, FILTER_PREDICATE, JOB_TYPE, COLUMN_ADDRESS, RESULT_ADDRESS,
            SCAN_PROCESSING
<1>4. ASSUME NEW k \in {TOTAL_CLS, FILTER_PREDICATE, JOB_TYPE, QUERY_STATE}, NEW d,
             WriteCSR(k, d) \in HostStores
      PROVE  /\ WriteCSR(k, d) \notin PageStores /\ WriteCSR(k, d) \notin ResultStores
             /\ WriteCSR(k, d).data = d
             /\ WriteCSR(k, d) \in ClsStores <=> k = TOTAL_CLS
  BY <1>4, StoresAre, CsrIs
<1>5. CASE Notify
  <2> DEFINE r == WriteCSR(QUERY_STATE, SCAN_PROCESSING)
  <2>1. hpc = "notify" /\ hpc' = "total_cls" /\ mmio' = Append(mmio, r)
    BY <1>5 DEF Notify, Access
  <2>2. r \in HostStores
    BY <1>2, <1>3, HostIs DEF HostStores
  <2>3. r \notin PageStores /\ r \notin ResultStores
    BY <1>4, <2>2
  <2> HIDE DEF r
  <2> QED
    BY <1>1, <2>1, <2>2, <2>3, SetupOnce DEF InPart
<1>6. CASE WriteTotalCls
  <2> DEFINE r == WriteCSR(TOTAL_CLS, TotalCls(scan))
  <2>1. hpc = "total_cls" /\ hpc' = "filter_predicate" /\ mmio' = Append(mmio, r)
    BY <1>6 DEF WriteTotalCls, Access
  <2>2. r \in HostStores
    BY <1>2, <1>3, HostIs DEF HostStores, ParamStores
  <2>3. r \notin PageStores /\ r \notin ResultStores /\ r \in ClsStores /\ r.data = TotalCls(scan)
    BY <1>4, <2>2
  <2> HIDE DEF r
  <2> QED
    BY <1>1, <2>1, <2>2, <2>3, SetupOnce DEF InPart
<1>7. CASE WriteFilterPredicate
  <2> DEFINE r == WriteCSR(FILTER_PREDICATE, scan)
  <2>1. hpc = "filter_predicate" /\ hpc' = "job_type" /\ mmio' = Append(mmio, r)
    BY <1>7 DEF WriteFilterPredicate, Access
  <2>2. r \in HostStores
    BY <1>2, <1>3, HostIs DEF HostStores, ParamStores
  <2>3. r \notin PageStores /\ r \notin ResultStores /\ r \notin ClsStores
    BY <1>4, <2>2
  <2> HIDE DEF r
  <2> QED
    BY <1>1, <2>1, <2>2, <2>3, SetupOnce DEF InPart
<1>8. CASE WriteJobType
  <2> DEFINE r == WriteCSR(JOB_TYPE, ScanType[scan])
  <2>1. hpc = "job_type" /\ hpc' = "loop" /\ mmio' = Append(mmio, r)
    BY <1>8 DEF WriteJobType, Access
  <2>2. r \in HostStores
    BY <1>2, <1>3, HostIs DEF HostStores, ParamStores
  <2>3. r \notin PageStores /\ r \notin ResultStores /\ r \notin ClsStores
    BY <1>4, <2>2
  <2> HIDE DEF r
  <2> QED
    BY <1>1, <2>1, <2>2, <2>3, SetupOnce DEF InPart
<1> QED
  BY <1>5, <1>6, <1>7, <1>8

LEMMA WaitOnce ==
  ASSUME TypeInv, OnceInv, LoopEnds \/ PollFails \/ Answer
  PROVE  OnceInv'
<1>1. UNCHANGED <<afuVars, gap, reading, mmio, scan, part>>
  BY DEF LoopEnds, PollFails, Answer, Other, busVars
<1>2. CASE LoopEnds
  <2>1. hpc = "loop" /\ hpc' = "copy" /\ answer' = answer
    BY <1>2 DEF LoopEnds, Other
  <2> QED
    BY <1>1, <2>1, SilentOnce
<1>3. CASE PollFails
  <2>1. hpc = "poll" /\ hpc' = "loop" /\ answer' = answer
    BY <1>3 DEF PollFails, busVars
  <2> QED
    BY <1>1, <2>1, SilentOnce
<1>4. CASE Answer
  <2>1. hpc = "answer" /\ hpc' \in {"loop", "poll"} /\ answer' = None /\ answer # None
    BY <1>4 DEF Answer
  <2> QED
    BY <1>1, <2>1, SilentOnce
<1> QED
  BY <1>2, <1>3, <1>4

LEMMA CopyOnce ==
  ASSUME TypeInv, OnceInv, CopyResults
  PROVE  OnceInv'
<1>1. hpc = "copy" /\ UNCHANGED <<afuVars, part, gap, answer, reading>>
  BY DEF CopyResults
<1>2. CASE scan < Len(ScanType)
  <2>1. hpc' = "notify" /\ mmio' = mmio
    BY <1>2 DEF CopyResults
  <2> QED
    BY <1>1, <2>1, SilentOnce
<1>3. CASE ~ (scan < Len(ScanType))
  <2> DEFINE r == WriteCSR(QUERY_STATE, QUERY_DONE)
  <2>1. UNCHANGED scan /\ hpc' = "done" /\ mmio' = Append(mmio, r)
    BY <1>3 DEF CopyResults
  <2>2. r \in HostStores
    BY DEF HostStores, EndStores
  <2>3. r \notin PageStores /\ r \notin ResultStores
    BY <2>2, StoresAre, CsrIs DEF QUERY_STATE, COLUMN_ADDRESS, RESULT_ADDRESS
  <2> HIDE DEF r
  <2> QED
    BY <1>1, <2>1, <2>2, <2>3, SetupOnce DEF InPart
<1> QED
  BY <1>2, <1>3

\* What the invariant does not speak of: memory, and what is on its way there.
LEMMA RestOnce ==
  ASSUME OnceInv, UNCHANGED <<afuVars, hpc, scan, part, mmio, gap, answer, reading>>
  PROVE  OnceInv'
<1>1. UNCHANGED <<csr_rx, csr_wr, c2, total_cls, read_buff_address, write_buff_address>>
      /\ UNCHANGED <<isActive, new_partition_ready>>
      /\ UNCHANGED <<partition_processed, cl_req_allowed, state, total_cls_processed>>
      /\ UNCHANGED <<c0, held, cl_received, cl_req_issued>>
  BY DEF afuVars, params, isActive
<1>2. /\ Pipe' = Pipe /\ \A i : InPipe(i)' = InPipe(i)
      /\ \A T, S : /\ Follows(T, S)' <=> Follows(T, S)
                   /\ \A v : Latest(S, v)' <=> Latest(S, v)
                   /\ Has(S)' <=> Has(S)
  BY <1>1, SamePipeTypes, SameOrder
<1>3. InPart' <=> InPart
  BY DEF InPart
<1>4. RequestInv' /\ FollowInv' /\ FlagInv' /\ ReadsInv'
  BY <1>1, <1>2, <1>3 DEF OnceInv, RequestInv, FollowInv, FlagInv, ReadsInv
<1>5. LatestInv'
  <2>1. PICK n : n = TotalCls(scan)
    OBVIOUS
  <2>2. TotalCls(scan)' = n
    BY <2>1 DEF TotalCls
  <2>3. PICK v : v = Buffer
    OBVIOUS
  <2>4. Buffer' = v
    BY <2>3 DEF Buffer
  <2>5. /\ Carries(ClsStores, TotalCls(scan), total_cls)'
             <=> Carries(ClsStores, TotalCls(scan), total_cls)
        /\ Carries(PageStores, Buffer, read_buff_address)'
             <=> Carries(PageStores, Buffer, read_buff_address)
        /\ Carries(ResultStores, Buffer, write_buff_address)'
             <=> Carries(ResultStores, Buffer, write_buff_address)
    BY <1>1, <1>2, <2>1, <2>2, <2>3, <2>4 DEF Carries
  <2> QED
    BY <1>3, <2>5 DEF OnceInv, LatestInv
<1> QED
  BY <1>4, <1>5 DEF OnceInv

LEMMA InitOnce == FpgaInit => OnceInv
<1> SUFFICES ASSUME FpgaInit PROVE OnceInv
  OBVIOUS
<1>1. /\ hpc = "notify" /\ mmio = <<>> /\ answer = None /\ reading = {}
      /\ csr_rx = None /\ csr_wr = None /\ c2 = None /\ held = [c0 |-> None, c1 |-> None]
      /\ new_partition_ready = FALSE /\ state = "waiting"
      /\ cl_req_issued = FALSE /\ cl_received = FALSE
      /\ partition_processed = FALSE /\ c0 = None
  BY DEF FpgaInit, AfuInit
<1>2. \A i \in Pipe : InPipe(i) = None
  BY <1>1 DEF Pipe, InPipe
<1>3. None \notin HostLoads /\ None \notin PageStores /\ None # TRUE
  BY LoadsAre, StoresAre, NoneAssumption DEF HostStores, ParamStores
<1>4. RequestInv
  BY <1>1, <1>2, <1>3 DEF RequestInv
<1>5. FollowInv /\ LatestInv
  BY <1>1, <1>2, <1>3 DEF FollowInv, LatestInv, InPart, Follows
<1>6. FlagInv /\ ReadsInv
  BY <1>1, <1>3 DEF FlagInv, ReadsInv
<1> QED
  BY <1>4, <1>5, <1>6 DEF OnceInv

LEMMA NextOnce == TypeInv /\ OnceInv /\ [Next]_vars => OnceInv'
<1> SUFFICES ASSUME TypeInv, OnceInv, [Next]_vars PROVE OnceInv'
  OBVIOUS
<1>1. ASSUME NEW full \in BOOLEAN,
             Tick(full) \/ TickRequest(full) \/ \E line \in reading : TickResponse(line, full)
      PROVE  OnceInv'
  BY <1>1, OnceEdge
<1>2. CASE Notify \/ WriteTotalCls \/ WriteFilterPredicate \/ WriteJobType
  BY <1>2, SetupStores
<1>3. CASE WriteColumnAddress
  BY <1>3, ColumnOnce
<1>4. CASE WriteResultAddress
  BY <1>4, ResultOnce
<1>5. CASE Poll
  BY <1>5, PollOnce
<1>6. CASE LoopEnds \/ PollFails \/ Answer
  BY <1>6, WaitOnce
<1>7. CASE CopyResults
  BY <1>7, CopyOnce
<1>8. ASSUME NEW w \in writing, WriteLands(w) PROVE OnceInv'
  <2>1. UNCHANGED <<afuVars, hpc, scan, part, mmio, gap, answer, reading>>
    BY <1>8 DEF WriteLands, hostVars
  <2> QED
    BY <2>1, RestOnce
<1>9. CASE UNCHANGED vars
  <2>1. UNCHANGED <<afuVars, hpc, scan, part, mmio, gap, answer, reading>>
    BY <1>9 DEF vars, hostVars, busVars
  <2> QED
    BY <2>1, RestOnce
<1> QED
  BY <1>1, <1>2, <1>3, <1>4, <1>5, <1>6, <1>7, <1>8, <1>9 DEF Next, Host

\* waitForProcessing never takes the flag of a partition for that of the next:
\* a completion on its way is about the buffers the host wrote last, and the
\* unit has read them to the end.  A failed read, which lets the host go on
\* while the unit works, does not change that.
THEOREM Completion == Spec => []CompletionIsCurrent
<1>1. TypeInv /\ OnceInv => CompletionIsCurrent
  <2> SUFFICES ASSUME TypeInv, OnceInv, answer = TRUE
               PROVE  /\ partition_processed /\ read_buff_address = Buffer
                      /\ write_buff_address = Buffer
                      /\ total_cls_processed \in {0, TotalCls(scan)}
                      /\ c0 = None /\ reading = {} /\ mmio = <<>>
    BY DEF CompletionIsCurrent
  <2>1. hpc = "answer" /\ (\A i \in Pipe : InPipe(i) = None) /\ InPart
    BY NoneAssumption DEF OnceInv, RequestInv, InPart
  <2>2. mmio = <<>>
    <3>1. mmio \in Seq(HostStores \cup HostLoads)
      BY DEF TypeInv, BusTypes
    <3>2. ASSUME mmio # <<>> PROVE FALSE
      <4>1. Len(mmio) \in Nat /\ Len(mmio) > 0 /\ mmio[1] \in HostStores \cup HostLoads
        BY <3>1, <3>2
      <4>2. 2 \in Pipe /\ InPipe(2) = mmio[1]
        BY <4>1 DEF Pipe, InPipe
      <4> QED
        BY <2>1, <4>1, <4>2, StoresAre, LoadsAre
    <3> QED
      BY <3>2
  <2>3. ~Has(ClsStores) /\ ~Has(PageStores) /\ ~Has(ResultStores)
    <3>1. None \notin HostStores
      BY StoresAre
    <3> QED
      BY <2>1, <3>1 DEF Has, HostStores, ParamStores
  <2>4. \A S, v : ~Has(S) => ~Latest(S, v)
    BY DEF Has, Latest
  <2>5. total_cls = TotalCls(scan) /\ read_buff_address = Buffer /\ write_buff_address = Buffer
    BY <2>1, <2>3, <2>4 DEF OnceInv, LatestInv, Carries
  <2>6. partition_processed /\ ~new_partition_ready /\ state \in {"idle", "waiting"}
    BY <2>1, <2>3 DEF OnceInv, FlagInv, FollowInv
  <2>7. total_cls_processed \in {0, TotalCls(scan)}
    BY <2>1, <2>3, <2>5, <2>6 DEF OnceInv, FlagInv
  <2>8. c0 = None /\ reading = {}
    BY <2>1, <2>6 DEF OnceInv, ReadsInv
  <2> QED
    BY <2>2, <2>5, <2>6, <2>7, <2>8
<1>2. TypeInv /\ OnceInv /\ [Next]_vars => (TypeInv /\ OnceInv)'
  BY NextTypes, NextOnce
<1> QED
  BY <1>1, <1>2, InitTypes, InitOnce, PTL DEF Spec

-----------------------------------------------------------------------------
(***************************************************************************)
(* FpgaScan implements AtomicScan.  A partition is filtered in the step in *)
(* which the host reads its completion, and handed on in CopyResults; all  *)
(* other steps leave AtomicScan's variables alone.                         *)
(***************************************************************************)
RightPage(s, p) == [l \in 0 .. TotalCls(s) - 1 |-> Right(s, p, l)]

LEMMA ConsIs ==
  ASSUME NEW S, NEW e \in S, NEW q \in Seq(S)
  PROVE  <<e>> \o q # <<>> /\ Head(<<e>> \o q) = e /\ Tail(<<e>> \o q) = q
<1>1. /\ <<e>> \o q \in Seq(S) /\ Len(<<e>> \o q) = Len(q) + 1 /\ Len(q) \in Nat
      /\ (<<e>> \o q)[1] = e
      /\ \A i \in 1 .. Len(q) : (<<e>> \o q)[i + 1] = q[i]
  OBVIOUS
<1>2. <<e>> \o q # <<>>
  BY <1>1
<1>3. Head(<<e>> \o q) = e
  BY <1>1
<1>4. /\ Tail(<<e>> \o q) \in Seq(S) /\ Len(Tail(<<e>> \o q)) = Len(q)
      /\ \A i \in 1 .. Len(q) : Tail(<<e>> \o q)[i] = (<<e>> \o q)[i + 1]
  BY <1>1, <1>2
<1>5. Tail(<<e>> \o q) = q
  BY <1>1, <1>4
<1> QED
  BY <1>2, <1>3, <1>5

\* The queue of a scan holds its first partitions.
LEMMA QueueIs ==
  ASSUME NEW s \in Scan
  PROVE  Queued(s) = 0 .. NumUnits(s) - 1 /\ NumUnits(s) \in Nat
<1>1. NumUnits(s) \in Nat
  BY Constants
<1>2. Queued(s) = ToSet(Units(NumUnits(s)))
  BY DEF Queued, MainWorkItems, HandlerWorkItems, NumUnits
<1>3. Units(NumUnits(s)) = [i \in 1 .. NumUnits(s) |-> i - 1]
  BY DEF Units
<1>4. ASSUME NEW p \in 0 .. NumUnits(s) - 1 PROVE p \in Queued(s)
  <2>1. PICK i \in 1 .. NumUnits(s) : p = i - 1
    <3>1. p + 1 \in 1 .. NumUnits(s) /\ p = (p + 1) - 1
      BY <1>1
    <3> QED
      BY <3>1
  <2> QED
    BY <1>2, <1>3, <2>1 DEF ToSet
<1> QED
  BY <1>1, <1>4, QueuedAre

LEMMA FunctionIsSeq ==
  ASSUME NEW S, NEW n \in Nat, NEW f \in [1 .. n -> S]
  PROVE  f \in Seq(S) /\ Len(f) = n
OBVIOUS

LEMMA AppendIs ==
  ASSUME NEW n \in Nat, NEW f, NEW g, NEW x,
         f = [i \in 1 .. n |-> f[i]], g = [i \in 1 .. n + 1 |-> g[i]],
         \A i \in 1 .. n : g[i] = f[i], g[n + 1] = x
  PROVE  g = Append(f, x) /\ Len(f) = n /\ Len(g) = n + 1
<1> DEFINE S == {f[i] : i \in 1 .. n} \cup {x}
<1>1. x \in S /\ \A i \in 1 .. n : f[i] \in S
  OBVIOUS
<1> HIDE DEF S
<1>2. f \in Seq(S) /\ Len(f) = n
  <2>1. f \in [1 .. n -> S]
    <3>1. [i \in 1 .. n |-> f[i]] \in [1 .. n -> S]
      BY <1>1
    <3> QED
      BY <3>1
  <2> QED
    BY <2>1, FunctionIsSeq, Zenon
<1>3. g \in Seq(S) /\ Len(g) = n + 1
  <2>1. \A i \in 1 .. n + 1 : i \in 1 .. n \/ i = n + 1
    OBVIOUS
  <2>2. \A i \in 1 .. n + 1 : g[i] \in S
    BY <1>1, <2>1
  <2>3. g \in [1 .. n + 1 -> S] /\ n + 1 \in Nat
    BY <2>2
  <2> QED
    BY <2>3, FunctionIsSeq, Zenon
<1>4. /\ Append(f, x) \in Seq(S) /\ Len(Append(f, x)) = n + 1
      /\ \A i \in 1 .. n : Append(f, x)[i] = f[i]
      /\ Append(f, x)[n + 1] = x
  BY <1>1, <1>2
<1>5. \A i \in 1 .. n + 1 : g[i] = Append(f, x)[i]
  <2>1. \A i \in 1 .. n + 1 : i \in 1 .. n \/ i = n + 1
    OBVIOUS
  <2> QED
    BY <1>4, <2>1
<1> QED
  BY <1>2, <1>3, <1>4, <1>5

\* What AtomicScan's constants are.
LEMMA AtomicConstants ==
  /\ Len([s \in Scan |-> Units(NumUnits(s))]) = Len(ScanType)
  /\ Len(ScanType) \in Nat \ {0} /\ Scan = 1 .. Len(ScanType)
  /\ \A s \in Scan : Units(NumUnits(s)) \in Seq(Nat)
<1>1. Len(ScanType) \in Nat \ {0} /\ Scan = 1 .. Len(ScanType)
  BY FpgaScanAssumption DEF Scan
<1>2. \A s \in Scan : Units(NumUnits(s)) \in Seq(Nat)
  BY Constants, UnitsAre
<1>3. [s \in Scan |-> Units(NumUnits(s))] \in Seq(Seq(Nat))
  BY <1>1, <1>2
<1>4. Len([s \in Scan |-> Units(NumUnits(s))]) = Len(ScanType)
  BY <1>1, <1>3
<1> QED
  BY <1>1, <1>2, <1>4

\* The pages finished are right, as long as the platform does its part.
LEMMA FinishedAre ==
  ASSUME J, kept, hpc # "done"
  PROVE  PagesFinished = [p \in 0 .. Finished - 1 |-> RightPage(scan, p)]
<1>1. FinishedInv
  BY DEF J, DataInv
<1>2. \A p \in 0 .. Finished - 1 :
        [l \in 0 .. TotalCls(scan) - 1 |-> memory[<<<<ScanType[scan], p>>, l>>]] = RightPage(scan, p)
  BY <1>1 DEF FinishedInv, RightPage
<1> QED
  BY <1>2 DEF PagesFinished

\* A step that takes no partition and ends no scan stutters.
LEMMA SameView ==
  ASSUME J, J', kept, kept', ~lied, ~lied', scan' = scan, result' = result,
         hpc' = "done" <=> hpc = "done", Unfinished' = Unfinished, Finished' = Finished
  PROVE  UNCHANGED Atomic!atomicVars
<1>1. HandedOver' = HandedOver
  BY DEF HandedOver, Queued
<1>2. PagesFinished' = PagesFinished
  <2>1. CASE hpc = "done"
    BY <2>1 DEF PagesFinished
  <2>2. CASE hpc # "done"
    <3>1. hpc' # "done" /\ FinishedInv'
      BY <2>2 DEF J, DataInv
    <3>2. \A p \in 0 .. Finished - 1, l \in 0 .. TotalCls(scan) - 1 :
            memory'[<<<<ScanType[scan], p>>, l>>] = Right(scan, p, l)
      BY <3>1 DEF FinishedInv, Right
    <3>3. \A p \in 0 .. Finished - 1 :
            [l \in 0 .. TotalCls(scan) - 1 |-> memory'[<<<<ScanType[scan], p>>, l>>]]
              = RightPage(scan, p)
      BY <3>2 DEF RightPage
    <3>4. PagesFinished' = [p \in 0 .. Finished - 1 |-> RightPage(scan, p)]
      BY <3>1, <3>3 DEF PagesFinished
    <3> QED
      BY <2>2, <3>4, FinishedAre
  <2> QED
    BY <2>1, <2>2
<1> QED
  BY <1>1, <1>2 DEF Atomic!atomicVars

\* The host takes the completion of its partition.
LEMMA AnswerIsFilter ==
  ASSUME J, J', kept, kept', Answer, answer = TRUE
  PROVE  Atomic!FilterPartition
<1>1. /\ hpc = "answer" /\ hpc' = "loop" /\ UNCHANGED <<scan, queue, part, result>>
      /\ queue \in Seq(Nat) /\ scan \in Scan /\ InPart /\ ~InPart'
  BY DEF Answer, InPart, J, QueueInv, PipeInv
<1>2. /\ part \in Nat /\ Finished = part /\ Finished' = part + 1
      /\ part \in 0 .. NumUnits(scan) - 1
  <2>1. NumUnits(scan) \in Nat /\ Len(queue) \in Nat
    BY <1>1, Constants
  <2>2. part = NumUnits(scan) - Len(queue) - 1 /\ part >= 0
    BY <1>1 DEF J, QueueInv
  <2>3. Finished = NumUnits(scan) - Len(queue) - 1
    BY <1>1 DEF Finished
  <2>4. Finished' = NumUnits(scan) - Len(queue) - 0
    BY <1>1 DEF Finished, NumUnits
  <2> QED
    BY <2>1, <2>2, <2>3, <2>4
<1>3. /\ Unfinished # <<>> /\ Head(Unfinished) = part
      /\ Unfinished' = Tail(Unfinished)
  <2>1. Unfinished = <<part>> \o queue /\ Unfinished' = queue
    BY <1>1 DEF Unfinished
  <2>2. <<part>> \o queue # <<>> /\ Head(<<part>> \o queue) = part /\ Tail(<<part>> \o queue) = queue
    BY <1>1, <1>2, ConsIs
  <2> QED
    BY <2>1, <2>2
<1>4. HandedOver' = HandedOver /\ Len(HandedOver) + 1 = scan
  <2>1. HandedOver' = HandedOver
    BY <1>1 DEF HandedOver, Queued
  <2>2. scan - 1 \in Nat /\ scan \in Nat
    BY <1>1, AtomicConstants
  <2>3. HandedOver = [s \in 1 .. scan - 1 |-> [p \in Queued(s) |-> result[s][p]]]
    BY <1>1 DEF HandedOver
  <2>4. Len(HandedOver) = scan - 1
    BY <2>2, <2>3
  <2> QED
    BY <2>1, <2>2, <2>4
<1>5. PagesFinished = [p \in 0 .. part - 1 |-> RightPage(scan, p)]
  BY <1>1, <1>2, FinishedAre
<1>6. PagesFinished' = [p \in 0 .. part |-> RightPage(scan, p)]
  <2>1. hpc' # "done" /\ FinishedInv' /\ \A p \in 0 .. part : p \in 0 .. Finished' - 1
    BY <1>1, <1>2 DEF J, DataInv
  <2>2. \A p \in 0 .. part, l \in 0 .. TotalCls(scan) - 1 :
          memory'[<<<<ScanType[scan], p>>, l>>] = Right(scan, p, l)
    BY <1>1, <2>1 DEF FinishedInv, Right
  <2>3. \A p \in 0 .. part :
          [l \in 0 .. TotalCls(scan) - 1 |-> memory'[<<<<ScanType[scan], p>>, l>>]]
            = RightPage(scan, p)
    BY <2>2 DEF RightPage
  <2>4. 0 .. Finished' - 1 = 0 .. part
    BY <1>2
  <2>5. PagesFinished' = [p \in 0 .. Finished' - 1 |->
          [l \in 0 .. TotalCls(scan) - 1 |-> memory'[<<<<ScanType[scan], p>>, l>>]]]
    BY <1>1, <2>1 DEF PagesFinished
  <2> QED
    BY <2>3, <2>4, <2>5
<1>7. PagesFinished' = [p \in DOMAIN PagesFinished \cup {part} |->
                          IF p = part THEN RightPage(scan, part) ELSE PagesFinished[p]]
  <2>1. (0 .. part - 1) \cup {part} = 0 .. part /\ \A p \in 0 .. part : p # part => p \in 0 .. part - 1
    BY <1>2
  <2> QED
    BY <1>5, <1>6, <2>1
<1>8. [s \in Scan |-> [p \in Queued(s) |-> [l \in 0 .. TotalCls(s) - 1 |-> Right(s, p, l)]]]
        [scan][part] = RightPage(scan, part)
  BY <1>1, <1>2, QueueIs DEF RightPage
<1> QED
  BY <1>3, <1>4, <1>7, <1>8 DEF Atomic!FilterPartition

\* The pages of a scan are handed on when its queue is empty.
LEMMA CopyIsHandOver ==
  ASSUME J, J', kept, kept', CopyResults
  PROVE  Atomic!HandOver
<1>1. /\ hpc = "copy" /\ queue = <<>> /\ scan \in Scan /\ scan \in Nat \ {0} /\ scan - 1 \in Nat
      /\ DOMAIN result = Scan /\ Scan = 1 .. Len(ScanType) /\ Len(ScanType) \in Nat \ {0}
  <2>1. hpc = "copy" /\ queue = <<>> /\ scan \in Scan /\ DOMAIN result = Scan
    BY DEF CopyResults, J, QueueInv, PipeInv, DataInv
  <2> QED
    BY <2>1, AtomicConstants
<1>2. result' = [result EXCEPT ![scan] =
         [p \in PartId(scan) |->
            [l \in 0 .. TotalCls(scan) - 1 |-> memory[<<<<ScanType[scan], p>>, l>>]]]]
  BY DEF CopyResults
<1>3. Unfinished = <<>> /\ Finished = NumUnits(scan) /\ NumUnits(scan) \in Nat
  <2>1. ~InPart /\ Len(queue) = 0 /\ NumUnits(scan) \in Nat
    BY <1>1, Constants DEF InPart
  <2> QED
    BY <1>1, <2>1 DEF Unfinished, Finished
<1>4. HandedOver = [s \in 1 .. scan - 1 |-> [p \in Queued(s) |-> result[s][p]]]
  BY <1>1 DEF HandedOver
<1>5. HandedOver' = [s \in 1 .. (scan - 1) + 1 |-> [p \in Queued(s) |-> result'[s][p]]]
  <2>1. CASE scan < Len(ScanType)
    <3>1. scan' = scan + 1 /\ hpc' = "notify"
      BY <2>1 DEF CopyResults
    <3>2. scan' - 1 = (scan - 1) + 1
      BY <1>1, <3>1
    <3> QED
      BY <3>1, <3>2 DEF HandedOver, Queued
  <2>2. CASE ~(scan < Len(ScanType))
    <3>1. scan' = scan /\ hpc' = "done"
      BY <2>2 DEF CopyResults
    <3>2. scan' = (scan - 1) + 1
      BY <1>1, <3>1
    <3> QED
      BY <3>1, <3>2 DEF HandedOver, Queued
  <2> QED
    BY <2>1, <2>2
<1>6. \A s \in 1 .. scan - 1 : HandedOver'[s] = HandedOver[s]
  <2>1. \A s \in 1 .. scan - 1 : s \in Scan /\ s # scan /\ s \in 1 .. (scan - 1) + 1
    BY <1>1
  <2>2. \A s \in 1 .. scan - 1 : result'[s] = result[s]
    BY <1>1, <1>2, <2>1
  <2> QED
    BY <1>4, <1>5, <2>1, <2>2
<1>7. HandedOver'[(scan - 1) + 1] = PagesFinished
  <2>1. (scan - 1) + 1 = scan /\ scan \in 1 .. (scan - 1) + 1
    BY <1>1
  <2>2. HandedOver'[scan] = [p \in Queued(scan) |-> result'[scan][p]]
    BY <1>5, <2>1
  <2>3. Queued(scan) = 0 .. Finished - 1 /\ \A p \in Queued(scan) : p \in PartId(scan)
    BY <1>1, <1>3, QueueIs, QueuedAre
  <2>4. \A p \in Queued(scan) :
          result'[scan][p] = [l \in 0 .. TotalCls(scan) - 1 |-> memory[<<<<ScanType[scan], p>>, l>>]]
    BY <1>1, <1>2, <2>3
  <2>5. PagesFinished = [p \in 0 .. Finished - 1 |->
          [l \in 0 .. TotalCls(scan) - 1 |-> memory[<<<<ScanType[scan], p>>, l>>]]]
    BY <1>1 DEF PagesFinished
  <2> QED
    BY <2>1, <2>2, <2>3, <2>4, <2>5
<1>8. HandedOver' = Append(HandedOver, PagesFinished) /\ Len(HandedOver) = scan - 1
        /\ Len(HandedOver') = (scan - 1) + 1
  <2>1. HandedOver = [s \in 1 .. scan - 1 |-> HandedOver[s]]
    BY <1>4
  <2>2. HandedOver' = [s \in 1 .. (scan - 1) + 1 |-> HandedOver'[s]]
    BY <1>5
  <2> QED
    BY <1>1, <1>6, <1>7, <2>1, <2>2, AppendIs
<1>9. PagesFinished' = Atomic!NoPages
  <2>1. CASE scan < Len(ScanType)
    <3>1. /\ scan' = scan + 1 /\ hpc' = "notify" /\ scan + 1 \in Scan
          /\ queue' = Units(Partitions[scan + 1]) /\ NumUnits(scan + 1) = Partitions[scan + 1]
      BY <1>1, <2>1 DEF CopyResults, HandlerWorkItems, NumUnits
    <3>2. Len(queue') = NumUnits(scan + 1) /\ NumUnits(scan + 1) \in Nat
      BY <3>1, Constants, UnitsAre
    <3>3. Finished' = NumUnits(scan + 1) - Len(queue') - 0
      BY <3>1 DEF Finished, NumUnits, InPart
    <3>4. Finished' = 0
      BY <3>2, <3>3
    <3>5. \A p : p \notin 0 .. Finished' - 1
      BY <3>4
    <3> QED
      BY <3>1, <3>5 DEF PagesFinished, Atomic!NoPages
  <2>2. CASE ~(scan < Len(ScanType))
    <3>1. hpc' = "done"
      BY <2>2 DEF CopyResults
    <3> QED
      BY <3>1 DEF PagesFinished, Atomic!NoPages
  <2> QED
    BY <2>1, <2>2
<1> DEFINE items == [s \in Scan |-> Units(NumUnits(s))]
<1>10. Unfinished' = IF Len(HandedOver') < Len(items) THEN items[Len(HandedOver') + 1] ELSE <<>>
  <2>1. Len(items) = Len(ScanType) /\ Len(HandedOver') = scan
    BY <1>1, <1>8, AtomicConstants
  <2>2. CASE scan < Len(ScanType)
    <3>1. /\ hpc' = "notify" /\ scan + 1 \in Scan
          /\ queue' = Units(Partitions[scan + 1]) /\ NumUnits(scan + 1) = Partitions[scan + 1]
      BY <1>1, <2>2 DEF CopyResults, HandlerWorkItems, NumUnits
    <3>2. Unfinished' = items[scan + 1]
      BY <3>1 DEF Unfinished, InPart
    <3> QED
      BY <2>1, <2>2, <3>2
  <2>3. CASE ~(scan < Len(ScanType))
    <3>1. hpc' = "done" /\ queue' = queue
      BY <2>3 DEF CopyResults
    <3>2. Unfinished' = <<>>
      BY <1>1, <3>1 DEF Unfinished, InPart
    <3> QED
      BY <2>1, <2>3, <3>2
  <2> QED
    BY <2>2, <2>3
<1>11. Len(HandedOver) < Len(items)
  BY <1>1, <1>8, AtomicConstants
<1> QED
  BY <1>3, <1>8, <1>9, <1>10, <1>11 DEF Atomic!HandOver

\* What the other steps of the host leave alone.
LEMMA OtherSteps ==
  ASSUME J, J', kept, kept', Host, ~(Answer /\ answer = TRUE), ~CopyResults, ~lied, ~lied'
  PROVE  UNCHANGED Atomic!atomicVars
<1>1. scan' = scan /\ result' = result /\ hpc # "done" /\ hpc' # "done"
  BY DEF Host, Notify, WriteTotalCls, WriteFilterPredicate, WriteJobType, WriteColumnAddress,
         WriteResultAddress, LoopEnds, Poll, PollFails, Answer, Access, Other
<1>2. queue \in Seq(Nat) /\ NumUnits(scan) \in Nat
  <2>1. queue \in Seq(Nat) /\ scan \in Scan
    BY DEF J, QueueInv, PipeInv
  <2> QED
    BY <2>1, Constants
<1>3. CASE WriteColumnAddress
  <2>1. /\ hpc = "loop" /\ hpc' = "result_address" /\ queue # <<>>
        /\ queue' = Tail(queue) /\ part' = Head(queue)
    BY <1>3 DEF WriteColumnAddress, Access
  <2>2. ~InPart /\ InPart'
    BY <2>1 DEF InPart
  <2>3. Unfinished' = Unfinished
    <3>1. <<Head(queue)>> \o Tail(queue) = queue
      BY <1>2, <2>1
    <3> QED
      BY <2>1, <2>2, <3>1 DEF Unfinished
  <2>4. Finished' = Finished
    <3>1. Len(queue) \in Nat /\ Len(Tail(queue)) = Len(queue) - 1
      BY <1>2, <2>1
    <3>2. Finished = NumUnits(scan) - Len(queue) - 0
      BY <2>2 DEF Finished
    <3>3. Finished' = NumUnits(scan) - Len(Tail(queue)) - 1
      BY <1>1, <2>1, <2>2 DEF Finished, NumUnits
    <3>4. \A n, k \in Nat : n - k - 0 = n - (k - 1) - 1
      OBVIOUS
    <3>5. NumUnits(scan) - Len(queue) - 0 = NumUnits(scan) - (Len(queue) - 1) - 1
      BY <1>2, <3>1, <3>4
    <3> QED
      BY <3>1, <3>2, <3>3, <3>5
  <2> QED
    BY <1>1, <2>3, <2>4, SameView
<1>4. CASE ~WriteColumnAddress
  <2>1. queue' = queue /\ part' = part /\ (InPart' <=> InPart)
    <3>1. CASE Answer
      <4>1. hpc = "answer" /\ hpc' = "poll" /\ UNCHANGED <<queue, part>>
        <5>1. answer # None /\ answer \in BOOLEAN \cup {None}
          BY <3>1 DEF Answer, J, PipeInv
        <5>2. answer = FALSE
          BY <3>1, <5>1
        <5> QED
          BY <3>1, <5>2 DEF Answer
      <4> QED
        BY <4>1 DEF InPart
    <3>2. CASE ~Answer
      BY <1>4, <3>2 DEF Host, Notify, WriteTotalCls, WriteFilterPredicate, WriteJobType,
         WriteResultAddress, LoopEnds, Poll, PollFails, Access, InPart
    <3> QED
      BY <3>1, <3>2
  <2>2. Unfinished' = Unfinished
    BY <2>1 DEF Unfinished
  <2>3. Finished' = Finished
    <3>1. Len(queue') = Len(queue) /\ NumUnits(scan)' = NumUnits(scan)
      <4>1. queue' = queue /\ scan' = scan
        BY <1>1, <2>1
      <4> QED
        BY <4>1 DEF NumUnits
    <3>2. CASE InPart
      BY <2>1, <3>1, <3>2 DEF Finished
    <3>3. CASE ~InPart
      BY <2>1, <3>1, <3>3 DEF Finished
    <3> QED
      BY <3>2, <3>3
  <2> QED
    BY <1>1, <2>2, <2>3, SameView
<1> QED
  BY <1>3, <1>4

\* The edges of the clock and the writes that land leave the host alone.
LEMMA PlatformIs ==
  ASSUME [Next]_vars, ~Host
  PROVE  UNCHANGED hostVars /\ (kept' => kept)
<1>1. ASSUME NEW full \in BOOLEAN,
             Tick(full) \/ TickRequest(full) \/ \E line \in reading : TickResponse(line, full)
      PROVE  UNCHANGED hostVars /\ (kept' => kept)
  <2>1. UNCHANGED hostVars
    <3>1. \E rx : Edge(rx, full)
      BY <1>1, EdgeIs
    <3> QED
      BY <3>1 DEF Edge, Ports
  <2>2. kept' => kept
    BY <1>1 DEF Tick, TickRequest, TickResponse
  <2> QED
    BY <2>1, <2>2
<1>2. ASSUME NEW w \in writing, WriteLands(w)
      PROVE  UNCHANGED hostVars /\ (kept' => kept)
  BY <1>2 DEF WriteLands
<1>3. CASE UNCHANGED vars
  BY <1>3 DEF vars, busVars
<1> QED
  BY <1>1, <1>2, <1>3 DEF Next

\* A poll that fails lies from then on; nothing a host does puts kept back.
LEMMA HostBreaks ==
  ASSUME Host
  PROVE  (lied => lied') /\ (kept' => kept)
<1>1. CASE Answer
  BY <1>1 DEF Answer
<1>2. CASE CopyResults
  BY <1>2 DEF CopyResults
<1>3. CASE PollFails
  BY <1>3 DEF PollFails, busVars
<1>4. CASE ~Answer /\ ~CopyResults /\ ~PollFails
  BY <1>4 DEF Host, Notify, WriteTotalCls, WriteFilterPredicate, WriteJobType,
              WriteColumnAddress, WriteResultAddress, LoopEnds, Poll, Access, Other
<1> QED
  BY <1>1, <1>2, <1>3, <1>4

LEMMA PlatformStutters ==
  ASSUME J, J', kept, kept', ~lied, ~lied', UNCHANGED hostVars
  PROVE  UNCHANGED Atomic!atomicVars
<1>1. UNCHANGED <<hpc, scan, queue, part, result>>
  BY DEF hostVars
<1>2. InPart' <=> InPart
  BY <1>1 DEF InPart
<1>3. Unfinished' = Unfinished
  BY <1>1, <1>2 DEF Unfinished
<1>4. Finished' = Finished
  <2>1. Len(queue') = Len(queue) /\ NumUnits(scan)' = NumUnits(scan)
    BY <1>1 DEF NumUnits
  <2>2. CASE InPart
    BY <1>2, <2>1, <2>2 DEF Finished
  <2>3. CASE ~InPart
    BY <1>2, <2>1, <2>3 DEF Finished
  <2> QED
    BY <2>2, <2>3
<1> QED
  BY <1>1, <1>3, <1>4, SameView

LEMMA RefinesInit == FpgaInit => Atomic!AtomicInit
<1> SUFFICES ASSUME FpgaInit PROVE Atomic!AtomicInit
  OBVIOUS
<1>1. /\ hpc = "notify" /\ scan = 1 /\ queue = Units(NumUnits(1)) /\ kept = TRUE /\ lied = FALSE
      /\ ~InPart
  BY DEF FpgaInit, MainWorkItems, NumUnits, InPart
<1>2. 1 \in Scan /\ NumUnits(1) \in Nat
  BY Constants
<1>3. Unfinished = [s \in Scan |-> Units(NumUnits(s))][1]
  BY <1>1, <1>2 DEF Unfinished
<1>4. PagesFinished = Atomic!NoPages
  <2>1. Len(queue) = NumUnits(1)
    BY <1>1, <1>2, UnitsAre
  <2>2. Finished = NumUnits(1) - Len(queue) - 0
    BY <1>1 DEF Finished
  <2>3. Finished = 0
    BY <1>2, <2>1, <2>2
  <2>4. \A p : p \notin 0 .. Finished - 1
    BY <2>3
  <2> QED
    BY <1>1, <2>4 DEF PagesFinished, Atomic!NoPages
<1>5. HandedOver = <<>>
  <2>1. \A s : s \notin 1 .. scan - 1
    BY <1>1
  <2>2. HandedOver = [s \in 1 .. scan - 1 |-> [p \in Queued(s) |-> result[s][p]]]
    BY <1>1 DEF HandedOver
  <2>3. HandedOver \in [1 .. 0 -> {}]
    BY <1>1, <2>1, <2>2
  <2>4. HandedOver \in Seq({})
    BY <2>3
  <2> QED
    BY <2>3, <2>4
<1> QED
  BY <1>1, <1>3, <1>4, <1>5 DEF Atomic!AtomicInit

LEMMA RefinesNext ==
  ASSUME IInv, IInv', [Next]_vars
  PROVE  [Atomic!AtomicNext]_(Atomic!atomicVars)
<1>1. CASE lied' \/ ~kept'
  BY <1>1 DEF Atomic!AtomicNext
<1>2. CASE ~lied' /\ kept'
  <2>1. kept /\ ~lied
    <3>1. CASE Host
      BY <1>2, <3>1, HostBreaks
    <3>2. CASE ~Host
      BY <1>2, <3>2, PlatformIs DEF hostVars
    <3> QED
      BY <3>1, <3>2
  <2>2. J /\ J'
    BY <1>2, <2>1 DEF IInv
  <2>3. UNCHANGED (lied \/ ~kept)
    BY <1>2, <2>1
  <2>4. CASE Answer /\ answer = TRUE
    BY <1>2, <2>1, <2>2, <2>3, <2>4, AnswerIsFilter DEF Atomic!AtomicNext
  <2>5. CASE CopyResults
    BY <1>2, <2>1, <2>2, <2>3, <2>5, CopyIsHandOver DEF Atomic!AtomicNext
  <2>6. CASE Host /\ ~(Answer /\ answer = TRUE) /\ ~CopyResults
    BY <1>2, <2>1, <2>2, <2>6, OtherSteps
  <2>7. CASE ~Host
    BY <1>2, <2>1, <2>2, <2>7, PlatformIs, PlatformStutters
  <2> QED
    BY <2>4, <2>5, <2>6, <2>7
<1> QED
  BY <1>1, <1>2

\* The whole offloaded operator is a unit that filters one queued partition at
\* a time and hands the pages of a scan on together: the registers, the polls,
\* the pipe of stores and the cache lines cannot be told from outside.
THEOREM ScanRefinement == Spec => ImplementsAtomicScan
<1>1. IInv /\ IInv' /\ [Next]_vars => [Atomic!AtomicNext]_(Atomic!atomicVars)
  BY RefinesNext
<1> QED
  BY <1>1, RefinesInit, Invariant, PTL DEF Spec, ImplementsAtomicScan, Atomic!AtomicSpec

=============================================================================
