--------------------------- MODULE FpgaJoinProofs ---------------------------
(***************************************************************************)
(* FpgaJoin's invariants hold for any number of partitions and of cache    *)
(* lines in the bitmap and in a page, any number of write credits and any  *)
(* gap between MMIO requests.                                              *)
(*                                                                         *)
(* The inductive invariant: the host's MMIO accesses are a program (Prog)  *)
(* and the requests between host and unit the part of it that has not been *)
(* decoded (PipeInv); the number of accesses decoded so far (Decoded)      *)
(* gives the parameter registers (ParamInv), the queue gives the partition *)
(* (QueueInv), and a line is counted only within its page (CountInv).      *)
(* Unless the host polls early, the unit works exactly while the host      *)
(* waits for it (CtrlInv) and the bitmap register holds the lines counted  *)
(* (MapInv); and while the platform keeps what the code relies on, every   *)
(* result line is on its way or in its place (DataInv).                    *)
(***************************************************************************)
EXTENDS FpgaJoin, FiniteSetTheorems, TLAPS

LoadPC == {"notify", "job_type", "bitmap_cls", "reading_bitmap", "bitmap_address",
           "poll_bitmap", "answer_bitmap"}
JoinPC == {"fk_cls", "bitmap_ready", "loop", "copy", "done"} \cup PartPC

\* Accesses the host has made when it is about to make the next one.
Place(l) ==
  CASE l = "notify" -> 0 [] l = "job_type" -> 1 [] l = "bitmap_cls" -> 2
    [] l = "reading_bitmap" -> 3 [] l = "bitmap_address" -> 4 [] l = "poll_bitmap" -> 5
    [] l \in {"answer_bitmap", "fk_cls"} -> 6 [] l = "bitmap_ready" -> 7
    [] l \in {"loop", "copy"} -> 8 [] l \in {"result_address", "done"} -> 9
    [] l = "poll" -> 10 [] l = "answer" -> 11

Prog(i) ==
  CASE i = 1 -> WriteCSR(QUERY_STATE, JOIN_PROCESSING)
    [] i = 2 -> WriteCSR(JOB_TYPE, 4)
    [] i = 3 -> WriteCSR(TOTAL_CLS, BitMapCls)
    [] i = 4 -> WriteCSR(BITMAP_STATE, 1)
    [] i = 5 -> WriteCSR(COLUMN_ADDRESS, 0)
    [] i = 7 -> WriteCSR(TOTAL_CLS, PageLines)
    [] i = 8 -> WriteCSR(BITMAP_STATE, 0)
    [] i = 9 -> IF hpc = "done" THEN WriteCSR(QUERY_STATE, SCAN_PROCESSING)
                                ELSE WriteCSR(COLUMN_ADDRESS, part + 1)
    [] i = 10 -> WriteCSR(RESULT_ADDRESS, part)
    [] OTHER -> ReadCSR(JOIN_PROCESSED)

One(b) == IF b THEN 1 ELSE 0

Arrived == Place(hpc) - Len(mmio)
Seen == Arrived - One(csr_rx # None)
Decoded == Seen - One(csr_wr # None)
PipeEmpty == mmio = <<>> /\ csr_rx = None /\ csr_wr = None

Request == {ReadCSR(k) : k \in Nat} \cup {WriteCSR(k, d) : k \in Nat, d \in Nat}

PipeInv ==
  /\ hpc \in LoadPC \cup JoinPC
  /\ gap \in 0 .. MinGap - 1
  /\ mmio \in Seq(Request)
  /\ Decoded >= 0 /\ (hpc \in JoinPC => Decoded >= 6)
  /\ \A i \in 1 .. Len(mmio) : mmio[i] = Prog(Arrived + i)
  /\ csr_rx # None => csr_rx = Prog(Arrived)
  /\ csr_wr # None => csr_wr = Prog(Seen) /\ csr_wr.op = "write"
  /\ {c2, answer} \subseteq BOOLEAN \cup {None}
  /\ c2 # None \/ answer # None =>
       PipeEmpty /\ hpc \in {"answer_bitmap", "answer"} /\ (c2 = None \/ answer = None)
  /\ {kept, early} \subseteq BOOLEAN

QueueInv ==
  /\ queue \in Seq(Nat) /\ Len(queue) <= Partitions
  /\ \A i \in 1 .. Len(queue) : queue[i] = Partitions - Len(queue) + i - 1
  /\ part \in PartId
  /\ hpc \in LoadPC \cup {"fk_cls", "bitmap_ready"} => Len(queue) = Partitions
  /\ hpc \in PartPC => part = Partitions - Len(queue) - 1
  /\ hpc \in {"copy", "done"} => Len(queue) = 0
  /\ hpc \in {"loop", "copy"} /\ Len(queue) < Partitions => PipeEmpty

ParamInv ==
  /\ query_state = IF Decoded = 0 \/ (hpc = "done" /\ Decoded = 9)
                   THEN SCAN_PROCESSING ELSE JOIN_PROCESSING
  /\ cls_to_process = IF Decoded < 3 THEN 0 ELSE IF Decoded < 7 THEN BitMapCls ELSE PageLines
  /\ reading_bitmap \in BOOLEAN /\ (reading_bitmap <=> Decoded \in 4 .. 7)
  /\ bitmap_ready \in BOOLEAN
  /\ Decoded \in 4 .. 7 => ~bitmap_ready
  /\ Decoded >= 8 => bitmap_ready
  /\ Decoded >= 5 => cl_address \in 0 .. Partitions
  /\ Decoded \in 5 .. 7 => cl_address = 0
  /\ Decoded >= 9 /\ hpc # "done" => cl_address = part + 1
  /\ Decoded >= 10 => result_address = part

\* The unit's registers and how it counts lines, whatever the host does.
CountInv ==
  /\ state \in {"waiting", "idle", "req", "rsp", "processing"}
  /\ {new_partition_ready, cl_req_allowed, cl_req_issued, cl_received, cl_processed,
      partition_processed} \subseteq BOOLEAN
  /\ cls_processed \in 0 .. PageLines
  /\ new_partition_ready \/ state # "waiting" => Decoded >= 5
  /\ state = "idle" /\ cl_req_allowed => cls_processed < cls_to_process
  /\ state \in {"req", "rsp", "processing"} => cls_processed < cls_to_process
  /\ {c0} \cup reading \subseteq {None} \cup ((0 .. Partitions) \X LineNo)

\* The host waits for a page: its address has been decoded.
Loading == hpc \in LoadPC /\ Decoded >= 5
Joining == hpc \in PartPC /\ Decoded >= 9

Fetched == LineOf(cl_address)

CtrlInv ==
  /\ c1 # None => state = "idle" /\ Joining
  /\ cl_received => state = "rsp"
  /\ cl_processed => state = "processing"
  /\ cl_req_issued => state = "req"
  /\ c0 # None => cl_req_issued /\ c0 = Fetched
  /\ reading # {} => state = "rsp" /\ ~cl_received /\ reading = {Fetched}
  /\ state = "idle" => /\ partition_processed <=> cls_processed = cls_to_process
                       /\ cl_req_allowed <=> cls_processed < cls_to_process
  /\ state \in {"req", "rsp", "processing"} => ~partition_processed
  /\ new_partition_ready => state = "waiting"
  /\ new_partition_ready \/ state # "waiting" => Loading \/ Joining
  /\ state = "waiting" /\ ~new_partition_ready /\ (Loading \/ Joining) =>
       partition_processed /\ cls_processed = cls_to_process
  /\ c2 = TRUE \/ answer = TRUE =>
       state = "waiting" /\ partition_processed /\ ~new_partition_ready

\* The bitmap register with its first n lines loaded.
Loaded(n) == [i \in 0 .. MapLines - 1 |-> IF i < n THEN <<0, i>> ELSE None]

LinesLoaded ==
  IF hpc \in JoinPC THEN BitMapCls
  ELSE IF ~Loading \/ new_partition_ready THEN 0
  ELSE IF state = "waiting" THEN BitMapCls
  ELSE IF cl_processed THEN cls_processed + 1 ELSE cls_processed

MapInv ==
  /\ state = "processing" \/ cl_received => rsp_data = Fetched
  /\ bit_map = Loaded(LinesLoaded)

\* Lines of the current partition that have been looked up and offered.
LinesDone == IF ~Joining \/ new_partition_ready THEN 0
             ELSE IF state = "waiting" THEN PageLines ELSE cls_processed

RightWrite(l) == [line |-> <<part, l>>, bits |-> Joined(part, l)]

UnitData ==
  /\ Joining /\ (state = "processing" \/ cl_received) => Decoded >= 10
  /\ Joining /\ cl_processed => bit_result = [keys |-> Fetched, map |-> LoadedMap]
  /\ c1 # None => cls_processed >= 1 /\ c1 = RightWrite(cls_processed - 1)

WritesInv ==
  /\ writing \subseteq {RightWrite(l) : l \in 0 .. LinesDone - 1}
  /\ DOMAIN memory = PartId \X LineNo
  /\ \A l \in 0 .. LinesDone - 1 :
       memory[<<part, l>>] = Joined(part, l) \/ RightWrite(l) \in writing \cup {c1}

FinishedInv ==
  \A p \in 0 .. Finished - 1, l \in LineNo : memory[<<p, l>>] = Joined(p, l)

DataInv == UnitData /\ WritesInv /\ FinishedInv /\ JoinComplete

IInv ==
  /\ PipeInv /\ QueueInv /\ ParamInv /\ CountInv
  /\ ~early => CtrlInv /\ MapInv
  /\ ~early /\ kept => DataInv

-----------------------------------------------------------------------------
LEMMA Constants ==
  /\ Partitions \in Nat \ {0} /\ PageLines \in Nat \ {0} /\ PageLines < 128
  /\ MapLines \in Nat \ {0} /\ MinGap \in Nat \ {0} /\ WriteCredits \in Nat \ {0}
  /\ BitMapCls \in Nat \ {0} /\ BitMapCls <= PageLines /\ BitMapCls <= MapLines
  /\ BitMapCls % 128 = BitMapCls /\ PageLines % 128 = PageLines
<1>1. /\ Partitions \in Nat \ {0} /\ PageLines \in Nat \ {0} /\ PageLines < 128
      /\ MapLines \in Nat \ {0} /\ MinGap \in Nat \ {0} /\ WriteCredits \in Nat \ {0}
      /\ BitMapSize \in Nat \ {0} /\ CL_SIZE \in Nat \ {0}
      /\ BitMapCls <= PageLines /\ BitMapCls <= MapLines
  BY FpgaJoinAssumption
<1>2. BitMapSize \div CL_SIZE \in Nat
  BY <1>1
<1>3. BitMapCls \in Nat \ {0}
  BY <1>2 DEF BitMapCls
<1>4. BitMapCls % 128 = BitMapCls /\ PageLines % 128 = PageLines
  BY <1>1, <1>3
<1> QED
  BY <1>1, <1>3, <1>4

-----------------------------------------------------------------------------
(* The accesses of the host, in program order. *)

LEMMA PlaceIs ==
  /\ Place("notify") = 0 /\ Place("job_type") = 1 /\ Place("bitmap_cls") = 2
  /\ Place("reading_bitmap") = 3 /\ Place("bitmap_address") = 4 /\ Place("poll_bitmap") = 5
  /\ Place("answer_bitmap") = 6 /\ Place("fk_cls") = 6 /\ Place("bitmap_ready") = 7
  /\ Place("loop") = 8 /\ Place("copy") = 8 /\ Place("result_address") = 9
  /\ Place("done") = 9 /\ Place("poll") = 10 /\ Place("answer") = 11
BY DEF Place

LEMMA ProgIs ==
  /\ Prog(1) = WriteCSR(QUERY_STATE, JOIN_PROCESSING)
  /\ Prog(2) = WriteCSR(JOB_TYPE, 4)
  /\ Prog(3) = WriteCSR(TOTAL_CLS, BitMapCls)
  /\ Prog(4) = WriteCSR(BITMAP_STATE, 1)
  /\ Prog(5) = WriteCSR(COLUMN_ADDRESS, 0)
  /\ Prog(6) = ReadCSR(JOIN_PROCESSED)
  /\ Prog(7) = WriteCSR(TOTAL_CLS, PageLines)
  /\ Prog(8) = WriteCSR(BITMAP_STATE, 0)
  /\ Prog(9) = IF hpc = "done" THEN WriteCSR(QUERY_STATE, SCAN_PROCESSING)
                               ELSE WriteCSR(COLUMN_ADDRESS, part + 1)
  /\ Prog(10) = WriteCSR(RESULT_ADDRESS, part)
  /\ Prog(11) = ReadCSR(JOIN_PROCESSED)
BY DEF Prog

LEMMA CsrIs ==
  /\ \A k, d : /\ WriteCSR(k, d).op = "write" /\ WriteCSR(k, d).csr = k
               /\ WriteCSR(k, d).data = d
  /\ \A k : ReadCSR(k).op = "read" /\ ReadCSR(k).csr = k
  /\ \A l : ReadRsp(l).op = "rsp" /\ ReadRsp(l).line = l
BY DEF WriteCSR, ReadCSR, ReadRsp

LEMMA RequestIs ==
  /\ \A k \in Nat, d \in Nat : WriteCSR(k, d) \in Request
  /\ \A k \in Nat : ReadCSR(k) \in Request
BY DEF Request

LEMMA Present ==
  /\ None # ReadCSR(JOIN_PROCESSED)
  /\ \A k \in 0 .. 7 : /\ \A n \in 0 .. 127 : None # WriteCSR(k, n)
                       /\ \A p \in 0 .. Partitions : None # WriteCSR(k, p)
  /\ \A p \in 0 .. Partitions, l \in LineNo :
       /\ None # <<p, l>> /\ None # ReadRsp(<<p, l>>)
       /\ None # [line |-> <<p, l>>, bits |-> Joined(p, l)]
<1>1. \A p \in 0 .. Partitions : p \in PartId \cup {Partitions}
  BY Constants DEF PartId
<1> QED
  BY <1>1, NoneAssumption, Zenon

\* Every access is there, and two of them are reads.
LEMMA AccessIs ==
  ASSUME QueueInv, NEW i \in 1 .. 11
  PROVE  /\ Prog(i) # None /\ Prog(i) \in Request
         /\ Prog(i).op = IF i \in {6, 11} THEN "read" ELSE "write"
         /\ i \in {6, 11} => Prog(i).csr = JOIN_PROCESSED
<1>1. /\ part \in Nat /\ part + 1 \in Nat /\ part \in 0 .. Partitions /\ part + 1 \in 0 .. Partitions
      /\ BitMapCls \in Nat /\ BitMapCls \in 0 .. 127 /\ PageLines \in Nat /\ PageLines \in 0 .. 127
  BY Constants DEF QueueInv, PartId
<1>2. CASE i \in {6, 11}
  <2>1. Prog(i) = ReadCSR(JOIN_PROCESSED)
    BY <1>2, ProgIs
  <2>2. ReadCSR(JOIN_PROCESSED) \in Request
    BY RequestIs DEF JOIN_PROCESSED
  <2> QED
    BY <1>2, <2>1, <2>2, CsrIs, Present
<1>3. CASE i \notin {6, 11}
  <2>1. \E k \in 0 .. 7, d \in Nat : Prog(i) = WriteCSR(k, d) /\ (d \in 0 .. 127 \/ d \in 0 .. Partitions)
    <3>1. CASE i \in {1, 2, 3, 4, 5}
      BY <1>1, <3>1, ProgIs DEF QUERY_STATE, JOIN_PROCESSING, JOB_TYPE, TOTAL_CLS, BITMAP_STATE,
         COLUMN_ADDRESS
    <3>2. CASE i \in {7, 8, 9, 10}
      BY <1>1, <3>2, ProgIs DEF QUERY_STATE, SCAN_PROCESSING, TOTAL_CLS, BITMAP_STATE,
         COLUMN_ADDRESS, RESULT_ADDRESS
    <3> QED
      BY <1>3, <3>1, <3>2
  <2>2. PICK k \in 0 .. 7, d \in Nat :
               Prog(i) = WriteCSR(k, d) /\ (d \in 0 .. 127 \/ d \in 0 .. Partitions)
    BY <2>1
  <2>3. WriteCSR(k, d) \in Request /\ None # WriteCSR(k, d)
    BY <2>2, RequestIs, Present
  <2> QED
    BY <1>3, <2>2, <2>3, CsrIs
<1> QED
  BY <1>2, <1>3

\* How far the accesses have come.
LEMMA StagesAre ==
  ASSUME PipeInv
  PROVE  /\ Place(hpc) \in 0 .. 11 /\ Len(mmio) \in Nat /\ Arrived \in Int /\ Seen \in Int
         /\ Decoded \in 0 .. Place(hpc)
         /\ Arrived = Place(hpc) - Len(mmio)
         /\ Seen = IF csr_rx # None THEN Arrived - 1 ELSE Arrived
         /\ Decoded = IF csr_wr # None THEN Seen - 1 ELSE Seen
         /\ Seen >= 0 /\ Arrived >= 0
         /\ csr_rx # None => Arrived \in 1 .. 11
         /\ csr_wr # None => Seen \in 1 .. 11
         /\ hpc \in LoadPC <=> Place(hpc) <= 6 /\ hpc # "fk_cls"
<1>1. Place(hpc) \in 0 .. 11 /\ (hpc \in LoadPC <=> Place(hpc) <= 6 /\ hpc # "fk_cls")
  BY PlaceIs DEF PipeInv, LoadPC, JoinPC, PartPC
<1>2. Len(mmio) \in Nat /\ Decoded >= 0
  BY DEF PipeInv
<1>3. /\ Arrived = Place(hpc) - Len(mmio)
      /\ Seen = IF csr_rx # None THEN Arrived - 1 ELSE Arrived
      /\ Decoded = IF csr_wr # None THEN Seen - 1 ELSE Seen
  BY <1>1, <1>2 DEF Arrived, Seen, Decoded, One
<1>4. Arrived \in Int /\ Arrived <= Place(hpc)
  BY <1>1, <1>2, <1>3
<1>5. Seen \in Int /\ Seen <= Arrived
  BY <1>3, <1>4
<1>6. Decoded \in 0 .. Place(hpc) /\ Decoded <= Seen
  <2>1. Decoded = Seen \/ Decoded = Seen - 1
    BY <1>3
  <2>2. Decoded <= Seen /\ Decoded \in Int
    BY <1>5, <2>1
  <2> QED
    BY <1>1, <1>2, <1>4, <1>5, <2>2
<1>7. Seen >= 0 /\ Arrived >= 0
  BY <1>4, <1>5, <1>6
<1>8. csr_rx # None => Arrived \in 1 .. 11
  <2> SUFFICES ASSUME csr_rx # None PROVE Arrived \in 1 .. 11
    OBVIOUS
  <2>1. Seen = Arrived - 1
    BY <1>3
  <2> QED
    BY <1>1, <1>4, <1>7, <2>1
<1>9. csr_wr # None => Seen \in 1 .. 11
  <2> SUFFICES ASSUME csr_wr # None PROVE Seen \in 1 .. 11
    OBVIOUS
  <2>1. Decoded = Seen - 1
    BY <1>3
  <2>2. Seen <= Place(hpc)
    BY <1>1, <1>4, <1>5
  <2> QED
    BY <1>1, <1>2, <1>5, <2>1, <2>2
<1> QED
  BY <1>1, <1>2, <1>3, <1>4, <1>5, <1>6, <1>7, <1>8, <1>9

-----------------------------------------------------------------------------
(* A clock edge: Tick, TickRequest and TickResponse by what they bring. *)

NextGap == IF gap > 0 THEN gap - 1 ELSE 0

Delivers(rx) ==
  \/ /\ rx = None /\ mmio' = mmio /\ gap' = NextGap
     /\ reading' = reading \cup Requested
  \/ /\ mmio # <<>> /\ gap = 0
     /\ rx = Head(mmio) /\ mmio' = Tail(mmio) /\ gap' = MinGap - 1
     /\ reading' = reading \cup Requested
  \/ \E line \in reading :
       /\ rx = ReadRsp(line) /\ mmio' = mmio /\ gap' = NextGap
       /\ reading' = (reading \ {line}) \cup Requested
       /\ kept' => ~ResultAddressPending

Edge(rx, full) ==
  /\ Clock(rx, full, c1TxAlmFull) /\ Ports /\ Delivers(rx)
  /\ kept' => kept /\ ~Dropped
  /\ kept' \in BOOLEAN

LEMMA EdgeIs ==
  ASSUME NEW full, kept \in BOOLEAN,
         Tick(full) \/ TickRequest(full) \/ \E line \in reading : TickResponse(line, full)
  PROVE  \E rx : Edge(rx, full)
<1>1. CASE Tick(full)
  <2>1. Edge(None, full)
    BY <1>1 DEF Tick, Edge, Delivers, NextGap
  <2> QED
    BY <2>1
<1>2. CASE TickRequest(full)
  <2>1. Edge(Head(mmio), full)
    BY <1>2 DEF TickRequest, Edge, Delivers, NextGap
  <2> QED
    BY <2>1
<1>3. ASSUME NEW line \in reading, TickResponse(line, full)
      PROVE  \E rx : Edge(rx, full)
  <2>1. Edge(ReadRsp(line), full)
    BY <1>3 DEF TickResponse, Edge, Delivers, NextGap
  <2> QED
    BY <2>1
<1> QED
  BY <1>1, <1>2, <1>3

LEMMA SameProg ==
  ASSUME UNCHANGED <<hpc, part>>, NEW i
  PROVE  Prog(i)' = Prog(i)
BY DEF Prog

LEMMA HeadIs ==
  ASSUME NEW S, NEW q \in Seq(S), q # <<>>
  PROVE  /\ Tail(q) \in Seq(S) /\ Len(Tail(q)) = Len(q) - 1
         /\ Len(q) \in Nat /\ Len(q) >= 1 /\ Head(q) = q[1] /\ Head(q) \in S
OBVIOUS

LEMMA TailIs ==
  ASSUME NEW S, NEW q \in Seq(S), q # <<>>, NEW i \in 1 .. Len(Tail(q))
  PROVE  Tail(q)[i] = q[i + 1] /\ i + 1 \in 1 .. Len(q)
OBVIOUS

\* The host's read leaves the request register.
Polled == csr_rx # None /\ csr_rx.op = "read"

\* What an edge decodes: the store in csr_wr, the host's read, or nothing.
Advance ==
  /\ UNCHANGED hostVars /\ Place(hpc)' = Place(hpc)
  /\ Decoded \in 0 .. 11 /\ Decoded' \in Decoded .. Place(hpc) /\ Place(hpc) \in 0 .. 11
  /\ Decoded' = Seen + One(Polled) /\ Decoded = Seen - One(csr_wr # None)
  /\ csr_wr # None => /\ Decoded + 1 \in 1 .. 11 /\ csr_wr = Prog(Decoded + 1)
                      /\ csr_wr.op = "write"
  /\ Polled => /\ hpc \in {"answer_bitmap", "answer"} /\ Decoded' = Place(hpc)
               /\ csr_rx.csr = JOIN_PROCESSED

LEMMA PipeEdge ==
  ASSUME PipeInv, QueueInv, NEW rx, NEW full, Edge(rx, full)
  PROVE  PipeInv' /\ QueueInv' /\ Advance
<1>1. UNCHANGED hostVars /\ UNCHANGED <<hpc, part, queue>> /\ Place(hpc)' = Place(hpc)
  BY DEF Edge, Ports, hostVars
<1>2. \A i : Prog(i)' = Prog(i)
  BY <1>1, SameProg
<1>3. /\ csr_rx' = IF rx # None /\ rx.op # "rsp" THEN rx ELSE None
      /\ csr_wr' = IF csr_rx # None /\ csr_rx.op = "write" THEN csr_rx ELSE None
      /\ c2' = IF csr_rx # None /\ csr_rx.op = "read"
               THEN csr_rx.csr = JOIN_PROCESSED /\ partition_processed ELSE None
      /\ answer' = IF c2 # None THEN c2 ELSE answer
  BY DEF Edge, Clock, CsrMgr, Ports
<1>4. /\ Place(hpc) \in 0 .. 11 /\ Len(mmio) \in Nat /\ Arrived \in Int /\ Seen \in Int
      /\ Decoded \in 0 .. Place(hpc)
      /\ Arrived = Place(hpc) - Len(mmio)
      /\ Seen = IF csr_rx # None THEN Arrived - 1 ELSE Arrived
      /\ Decoded = IF csr_wr # None THEN Seen - 1 ELSE Seen
      /\ Seen >= 0 /\ Arrived >= 0
      /\ csr_rx # None => Arrived \in 1 .. 11
      /\ csr_wr # None => Seen \in 1 .. 11
  BY StagesAre
<1>14. /\ Place(hpc) \in Int /\ Len(mmio) \in Int /\ Place(hpc) <= 11 /\ Arrived >= 0
       /\ Arrived = Place(hpc) - Len(mmio)
  BY <1>4
<1>5. \A i \in 1 .. 11 : /\ Prog(i) # None /\ Prog(i) \in Request
                         /\ Prog(i).op = IF i \in {6, 11} THEN "read" ELSE "write"
                         /\ i \in {6, 11} => Prog(i).csr = JOIN_PROCESSED
  BY AccessIs
\* Where the host's requests are after the edge.
<1>6. \/ mmio' = mmio /\ csr_rx' = None /\ gap' = NextGap
      \/ /\ mmio # <<>> /\ gap' = MinGap - 1 /\ mmio' = Tail(mmio)
         /\ csr_rx' = Prog(Arrived + 1) /\ csr_rx' # None
  <2>1. CASE rx = None /\ mmio' = mmio /\ gap' = NextGap
    BY <1>3, <2>1
  <2>2. CASE mmio # <<>> /\ rx = Head(mmio) /\ mmio' = Tail(mmio) /\ gap' = MinGap - 1
    <3>1. Len(mmio) >= 1 /\ Head(mmio) = mmio[1]
      BY <2>2, HeadIs DEF PipeInv
    <3>4. Arrived + 1 \in 1 .. 11
      BY <1>14, <3>1
    <3>2. rx = Prog(Arrived + 1) /\ Arrived + 1 \in 1 .. 11
      BY <2>2, <3>1, <3>4 DEF PipeInv
    <3>3. rx # None /\ rx.op # "rsp"
      BY <1>5, <3>2
    <3> QED
      BY <1>3, <2>2, <3>2, <3>3
  <2>3. CASE \E line \in reading : rx = ReadRsp(line) /\ mmio' = mmio /\ gap' = NextGap
    BY <1>3, <2>3, CsrIs
  <2> QED
    BY <2>1, <2>2, <2>3 DEF Edge, Delivers
<1>7. /\ mmio' \in Seq(Request) /\ Len(mmio') \in Nat /\ Len(mmio') <= Len(mmio)
      /\ Seen' = Arrived /\ Arrived' = Place(hpc) - Len(mmio')
      /\ Arrived' = IF csr_rx' # None THEN Arrived + 1 ELSE Arrived
      /\ gap' \in 0 .. MinGap - 1
      /\ csr_rx' # None => csr_rx' = Prog(Arrived')
      /\ \A i \in 1 .. Len(mmio') : mmio'[i] = Prog(Arrived' + i)
  <2>1. Arrived' = Place(hpc) - Len(mmio') /\ Seen' = Arrived' - One(csr_rx' # None)
    BY <1>1 DEF Arrived, Seen
  <2>2. mmio \in Seq(Request) /\ gap \in 0 .. MinGap - 1 /\ MinGap \in Nat \ {0}
        /\ \A i \in 1 .. Len(mmio) : mmio[i] = Prog(Arrived + i)
    BY Constants DEF PipeInv
  <2>3. CASE mmio' = mmio /\ csr_rx' = None /\ gap' = NextGap
    <3>1. Arrived' = Arrived /\ Seen' = Arrived
      BY <1>4, <2>1, <2>3 DEF One
    <3> QED
      BY <1>4, <2>1, <2>2, <2>3, <3>1 DEF NextGap
  <2>4. CASE /\ mmio # <<>> /\ gap' = MinGap - 1 /\ mmio' = Tail(mmio)
             /\ csr_rx' = Prog(Arrived + 1) /\ csr_rx' # None
    <3>1. mmio' \in Seq(Request) /\ Len(mmio') = Len(mmio) - 1 /\ Len(mmio) >= 1
      BY <2>2, <2>4, HeadIs
    <3>2. Arrived' = Arrived + 1
      BY <1>14, <2>1, <3>1
    <3>3. Seen' = Arrived
      BY <1>4, <2>1, <2>4, <3>2 DEF One
    <3>4. ASSUME NEW i \in 1 .. Len(mmio') PROVE mmio'[i] = Prog(Arrived' + i)
      <4>1. mmio'[i] = mmio[i + 1] /\ i + 1 \in 1 .. Len(mmio) /\ i \in Int
        BY <2>2, <2>4, TailIs
      <4>2. Arrived + (i + 1) = Arrived' + i
        BY <1>4, <3>2, <4>1
      <4> QED
        BY <2>2, <4>1, <4>2
    <3>5. gap' \in 0 .. MinGap - 1
      BY <2>2, <2>4
    <3> QED
      BY <1>4, <2>1, <2>4, <3>1, <3>2, <3>3, <3>4, <3>5
  <2> QED
    BY <1>6, <2>3, <2>4
<1>8. /\ csr_rx # None => csr_rx = Prog(Arrived) /\ (csr_rx.op = "read" <=> Arrived \in {6, 11})
                          /\ csr_rx.op \in {"read", "write"}
      /\ csr_wr' # None <=> csr_rx # None /\ ~Polled
      /\ csr_wr' # None => csr_wr' = Prog(Arrived) /\ csr_wr'.op = "write"
  <2>1. csr_rx # None => csr_rx = Prog(Arrived)
    BY DEF PipeInv
  <2> QED
    BY <1>3, <1>4, <1>5, <2>1 DEF Polled
<1>9. Decoded' = Seen + One(Polled) /\ Decoded = Seen - One(csr_wr # None)
  <2>1. Decoded' = Arrived - One(csr_wr' # None)
    BY <1>7 DEF Decoded
  <2> QED
    BY <1>4, <1>8, <2>1 DEF One, Polled
<1>10. Polled => /\ hpc \in {"answer_bitmap", "answer"} /\ Arrived = Place(hpc) /\ mmio = <<>>
                 /\ csr_rx.csr = JOIN_PROCESSED
  <2>1. SUFFICES ASSUME Polled
                 PROVE  hpc \in {"answer_bitmap", "answer"} /\ Arrived = Place(hpc)
    <3>1. Polled => csr_rx.csr = JOIN_PROCESSED
      BY <1>4, <1>5, <1>8 DEF Polled
    <3>2. Arrived = Place(hpc) => mmio = <<>>
      <4>1. Arrived = Place(hpc) => Len(mmio) = 0
        BY <1>14
      <4> QED
        BY <4>1 DEF PipeInv
    <3> QED
      BY <3>1, <3>2
  <2>2. Arrived \in {6, 11} /\ Seen = Arrived - 1
    BY <1>4, <1>8, <2>1 DEF Polled
  <2>3. hpc \in JoinPC => Arrived # 6
    BY <1>4, <2>2 DEF PipeInv
  <2>4. hpc \in LoadPC \cup JoinPC /\ Place(hpc) >= Arrived
    BY <1>4 DEF PipeInv
  <2> QED
    BY <2>2, <2>3, <2>4, PlaceIs DEF LoadPC, JoinPC, PartPC
<1>11. Advance
  <2>1. Decoded' \in Decoded .. Place(hpc)
    <3>1. CASE Polled
      <4>1. Decoded' = Seen + 1 /\ Seen = Arrived - 1
        BY <1>4, <1>9, <3>1 DEF One, Polled
      <4>2. Arrived = Place(hpc)
        BY <1>10, <3>1
      <4>3. Place(hpc) \in 0 .. 11 /\ Decoded \in 0 .. Place(hpc)
        BY <1>4
      <4> QED
        BY <4>1, <4>2, <4>3
    <3>2. CASE ~Polled
      <4>1. Decoded' = Seen
        BY <1>4, <1>9, <3>2 DEF One
      <4>2. Seen <= Place(hpc) /\ Decoded <= Seen /\ Seen \in Int
        <5>1. Place(hpc) \in 0 .. 11 /\ Decoded \in 0 .. Place(hpc) /\ Len(mmio) \in Nat
              /\ Arrived = Place(hpc) - Len(mmio) /\ Seen \in Int
          BY <1>4
        <5>2. (Seen = Arrived \/ Seen = Arrived - 1) /\ (Decoded = Seen \/ Decoded = Seen - 1)
          BY <1>4
        <5>3. Arrived <= Place(hpc) /\ Arrived \in Int
          BY <5>1
        <5>4. Seen <= Arrived
          BY <5>1, <5>2, <5>3
        <5>5. Seen <= Place(hpc)
          BY <5>1, <5>3, <5>4
        <5>6. Decoded <= Seen
          BY <5>1, <5>2
        <5> QED
          BY <5>1, <5>5, <5>6
      <4>3. Place(hpc) \in 0 .. 11 /\ Decoded \in 0 .. Place(hpc)
        BY <1>4
      <4> QED
        BY <4>1, <4>2, <4>3
    <3> QED
      BY <3>1, <3>2
  <2>2. csr_wr # None => /\ Decoded + 1 \in 1 .. 11 /\ csr_wr = Prog(Decoded + 1)
                         /\ csr_wr.op = "write"
    <3>1. csr_wr # None => Decoded + 1 = Seen
      BY <1>4
    <3> QED
      BY <1>4, <3>1 DEF PipeInv
  <2>3. Polled => Decoded' = Place(hpc)
    BY <1>4, <1>9, <1>10 DEF One, Polled
  <2>4. Decoded \in 0 .. 11 /\ Place(hpc) \in 0 .. 11
    <3>1. Place(hpc) \in 0 .. 11
      BY <1>4
    <3>2. Decoded \in 0 .. Place(hpc)
      BY <1>4
    <3> QED
      BY <3>1, <3>2
  <2>5. Polled => hpc \in {"answer_bitmap", "answer"} /\ csr_rx.csr = JOIN_PROCESSED
    BY <1>10
  <2> QED
    BY <1>1, <1>9, <2>1, <2>2, <2>3, <2>4, <2>5 DEF Advance
<1>12. PipeInv'
  <2>1. {c2', answer'} \subseteq BOOLEAN \cup {None}
    BY <1>3 DEF PipeInv
  <2>2. PipeEmpty /\ mmio = <<>> => mmio' = mmio /\ csr_rx' = None /\ csr_wr' = None /\ c2' = None
    BY <1>3, <1>6 DEF PipeEmpty
  <2>3. c2' # None \/ answer' # None =>
          PipeEmpty' /\ hpc' \in {"answer_bitmap", "answer"} /\ (c2' = None \/ answer' = None)
    <3>1. CASE Polled
      <4>1. mmio' = <<>> /\ csr_rx' = None /\ csr_wr' = None
        BY <1>6, <1>8, <1>10, <3>1
      <4>2. answer' = None
        BY <1>3, <3>1 DEF PipeInv, PipeEmpty, Polled
      <4> QED
        BY <1>1, <1>10, <3>1, <4>1, <4>2 DEF PipeEmpty
    <3>2. CASE ~Polled
      <4>1. c2' = None
        BY <1>3, <3>2 DEF Polled
      <4>2. answer' # None => PipeEmpty /\ mmio = <<>> /\ hpc \in {"answer_bitmap", "answer"}
        BY <1>3 DEF PipeInv, PipeEmpty
      <4> QED
        BY <1>1, <2>2, <4>1, <4>2 DEF PipeEmpty
    <3> QED
      BY <3>1, <3>2
  <2>4. Decoded' >= 0 /\ (hpc' \in JoinPC => Decoded' >= 6)
    BY <1>1, <1>4, <1>11 DEF PipeInv, Advance
  <2>5. {kept', early'} \subseteq BOOLEAN
    BY DEF Edge, Ports
  <2>6. hpc' \in LoadPC \cup JoinPC
    BY <1>1 DEF PipeInv
  <2>7. \A i \in 1 .. Len(mmio') : mmio'[i] = Prog(Arrived + i)'
    BY <1>2, <1>7
  <2>8. csr_rx' # None => csr_rx' = Prog(Arrived)'
    BY <1>2, <1>7
  <2>9. csr_wr' # None => csr_wr' = Prog(Seen)' /\ csr_wr'.op = "write"
    BY <1>2, <1>7, <1>8
  <2> QED
    BY <1>7, <2>1, <2>3, <2>4, <2>5, <2>6, <2>7, <2>8, <2>9 DEF PipeInv
<1>13. QueueInv'
  <2>1. PipeEmpty => PipeEmpty'
    BY <1>3, <1>6 DEF PipeEmpty
  <2> QED
    BY <1>1, <2>1 DEF QueueInv
<1> QED
  BY <1>11, <1>12, <1>13

-----------------------------------------------------------------------------
(* The parameter registers. *)

Applies(k, d) == csr_wr.csr = k /\ csr_wr.data = d

\* The store an edge decodes, by its place in the program.
LEMMA StoreIs ==
  ASSUME PipeInv, QueueInv, Advance, csr_wr # None
  PROVE  /\ Decoded' >= Decoded + 1 /\ Decoded' \in {Decoded + 1, Decoded + 2}
         /\ Decoded' = Decoded + 2 => Decoded' \in {6, 11}
         /\ \/ Decoded = 0 /\ Applies(QUERY_STATE, JOIN_PROCESSING)
            \/ Decoded = 1 /\ Applies(JOB_TYPE, 4)
            \/ Decoded = 2 /\ Applies(TOTAL_CLS, BitMapCls)
            \/ Decoded = 3 /\ Applies(BITMAP_STATE, 1)
            \/ Decoded = 4 /\ Applies(COLUMN_ADDRESS, 0) /\ hpc \in LoadPC
            \/ Decoded = 6 /\ Applies(TOTAL_CLS, PageLines)
            \/ Decoded = 7 /\ Applies(BITMAP_STATE, 0)
            \/ Decoded = 8 /\ hpc = "done" /\ Applies(QUERY_STATE, SCAN_PROCESSING)
            \/ Decoded = 8 /\ hpc \in PartPC /\ Applies(COLUMN_ADDRESS, part + 1)
            \/ Decoded = 9 /\ hpc \in PartPC /\ Applies(RESULT_ADDRESS, part)
<1>1. /\ Decoded \in 0 .. 11 /\ Decoded + 1 \in 1 .. 11 /\ csr_wr = Prog(Decoded + 1)
      /\ csr_wr.op = "write"
      /\ Decoded' = Seen + One(Polled) /\ Decoded = Seen - One(csr_wr # None)
      /\ Seen \in Int /\ Decoded' \in Decoded .. Place(hpc) /\ Place(hpc) \in 0 .. 11
  BY StagesAre DEF Advance
<1>2. Decoded' \in {Decoded + 1, Decoded + 2} /\ (Polled <=> Decoded' = Decoded + 2)
  BY <1>1 DEF One
<1>3. Polled => Decoded' \in {6, 11}
  BY PlaceIs DEF Advance
<1>4. Prog(Decoded + 1).op = IF Decoded + 1 \in {6, 11} THEN "read" ELSE "write"
  BY <1>1, AccessIs
<1>5. Decoded \in {0, 1, 2, 3, 4, 6, 7, 8, 9} /\ Place(hpc) >= Decoded + 1
  BY <1>1, <1>2, <1>4
<1>6. Decoded = 4 => hpc \in LoadPC
  BY <1>5 DEF PipeInv
<1>7. Decoded = 8 => hpc = "done" \/ hpc \in PartPC
  BY <1>5, PlaceIs DEF PipeInv, LoadPC, JoinPC, PartPC
<1>8. Decoded = 9 => hpc # "done" /\ hpc \in PartPC
  BY <1>5, PlaceIs DEF PipeInv, LoadPC, JoinPC, PartPC
<1>9. hpc \in PartPC => hpc # "done"
  BY DEF PartPC
<1>10. Decoded' >= Decoded + 1 /\ (Decoded' = Decoded + 2 => Decoded' \in {6, 11})
  BY <1>1, <1>2, <1>3
<1>11. ASSUME NEW k, NEW d, Prog(Decoded + 1) = WriteCSR(k, d)
       PROVE  Applies(k, d)
  BY <1>1, <1>11, CsrIs DEF Applies
<1>12. Decoded = 0 => Applies(QUERY_STATE, JOIN_PROCESSING)
  BY <1>11, ProgIs
<1>13. Decoded = 1 => Applies(JOB_TYPE, 4)
  BY <1>11, ProgIs
<1>14. Decoded = 2 => Applies(TOTAL_CLS, BitMapCls)
  BY <1>11, ProgIs
<1>15. Decoded = 3 => Applies(BITMAP_STATE, 1)
  BY <1>11, ProgIs
<1>16. Decoded = 4 => Applies(COLUMN_ADDRESS, 0)
  BY <1>11, ProgIs
<1>17. Decoded = 6 => Applies(TOTAL_CLS, PageLines)
  BY <1>11, ProgIs
<1>18. Decoded = 7 => Applies(BITMAP_STATE, 0)
  BY <1>11, ProgIs
<1>19. Decoded = 8 /\ hpc = "done" => Applies(QUERY_STATE, SCAN_PROCESSING)
  BY <1>11, ProgIs
<1>20. Decoded = 8 /\ hpc # "done" => Applies(COLUMN_ADDRESS, part + 1)
  BY <1>11, ProgIs
<1>21. Decoded = 9 => Applies(RESULT_ADDRESS, part)
  BY <1>11, ProgIs
<1> QED
  BY <1>2, <1>5, <1>6, <1>7, <1>8, <1>9, <1>10, <1>12, <1>13, <1>14, <1>15, <1>16, <1>17, <1>18,
     <1>19, <1>20, <1>21

\* What an edge makes of the registers.
LEMMA LatchIs ==
  ASSUME NEW rx, NEW full, Edge(rx, full)
  PROVE  /\ csr_wr = None \/ ~isActive => UNCHANGED <<cl_address, result_address, cls_to_process,
                                                     reading_bitmap, bitmap_ready>>
         /\ csr_wr = None => query_state' = query_state
         /\ csr_wr # None => \A k, d : Applies(k, d) =>
              /\ query_state' = IF k = 7 THEN d ELSE query_state
              /\ isActive =>
                   /\ cl_address' = IF k = 4 THEN d ELSE cl_address
                   /\ result_address' = IF k = 5 THEN d ELSE result_address
                   /\ cls_to_process' = IF k = 0 THEN d % 128 ELSE cls_to_process
                   /\ reading_bitmap' = IF k = 6 THEN d = 1 ELSE reading_bitmap
                   /\ bitmap_ready' = IF k = 6 THEN d = 0 ELSE bitmap_ready
         /\ isActive => new_partition_ready' = (csr_wr # None /\ csr_wr.csr = 4)
         /\ ~isActive => new_partition_ready' = new_partition_ready
<1>1. /\ QueryState /\ Parameters
  BY DEF Edge, Clock
<1>2. csr_wr = None \/ ~isActive => UNCHANGED <<cl_address, result_address, cls_to_process,
                                               reading_bitmap, bitmap_ready>>
  BY <1>1 DEF Parameters, Latch, Written
<1>3. ASSUME csr_wr # None, NEW k, NEW d, Applies(k, d)
      PROVE  /\ query_state' = IF k = 7 THEN d ELSE query_state
             /\ isActive =>
                  /\ cl_address' = IF k = 4 THEN d ELSE cl_address
                  /\ result_address' = IF k = 5 THEN d ELSE result_address
                  /\ cls_to_process' = IF k = 0 THEN d % 128 ELSE cls_to_process
                  /\ reading_bitmap' = IF k = 6 THEN d = 1 ELSE reading_bitmap
                  /\ bitmap_ready' = IF k = 6 THEN d = 0 ELSE bitmap_ready
  BY <1>1, <1>3 DEF QueryState, Parameters, Latch, Written, Applies, QUERY_STATE, TOTAL_CLS,
     COLUMN_ADDRESS, RESULT_ADDRESS, BITMAP_STATE
<1>4. csr_wr = None => query_state' = query_state
  BY <1>1 DEF QueryState, Written
<1>5. /\ isActive => new_partition_ready' = (csr_wr # None /\ csr_wr.csr = 4)
      /\ ~isActive => new_partition_ready' = new_partition_ready
  BY <1>1 DEF Parameters, Written, COLUMN_ADDRESS
<1> QED
  BY <1>2, <1>3, <1>4, <1>5

LEMMA ParamEdge ==
  ASSUME PipeInv, QueueInv, ParamInv, Advance, NEW rx, NEW full, Edge(rx, full)
  PROVE  ParamInv'
<1>1. /\ hpc' = hpc /\ part' = part /\ part \in 0 .. Partitions /\ part + 1 \in 0 .. Partitions
      /\ Decoded \in 0 .. 11 /\ Decoded' \in Decoded .. 11
      /\ BitMapCls % 128 = BitMapCls /\ PageLines % 128 = PageLines
  BY Constants DEF Advance, hostVars, QueueInv, PartId
<1>2. /\ csr_wr = None => Decoded' = Decoded \/ (Decoded' = Decoded + 1 /\ Decoded' \in {6, 11})
  <2> SUFFICES ASSUME csr_wr = None
               PROVE  Decoded' = Decoded \/ (Decoded' = Decoded + 1 /\ Decoded' \in {6, 11})
    OBVIOUS
  <2>1. Seen = Decoded
    BY StagesAre
  <2>2. CASE Polled
    <3>1. Place(hpc) \in {6, 11}
      BY <2>2, PlaceIs DEF Advance
    <3> QED
      BY <2>1, <2>2, <3>1 DEF Advance, One
  <2>3. CASE ~Polled
    BY <1>1, <2>1, <2>3 DEF Advance, One
  <2> QED
    BY <2>2, <2>3
<1>3. CASE csr_wr = None
  <2>1. UNCHANGED <<cl_address, result_address, cls_to_process, reading_bitmap, bitmap_ready,
                    query_state>>
    BY <1>3, LatchIs
  <2> QED
    BY <1>1, <1>2, <1>3, <2>1 DEF ParamInv
<1>4. CASE csr_wr # None
  <2> DEFINE Step(k, d) ==
        /\ query_state' = IF k = 7 THEN d ELSE query_state
        /\ isActive =>
             /\ cl_address' = IF k = 4 THEN d ELSE cl_address
             /\ result_address' = IF k = 5 THEN d ELSE result_address
             /\ cls_to_process' = IF k = 0 THEN d % 128 ELSE cls_to_process
             /\ reading_bitmap' = IF k = 6 THEN d = 1 ELSE reading_bitmap
             /\ bitmap_ready' = IF k = 6 THEN d = 0 ELSE bitmap_ready
  <2>1. \A k, d : Applies(k, d) => Step(k, d)
    BY <1>4, LatchIs
  <2>2. Decoded' \in {Decoded + 1, Decoded + 2} /\ (Decoded' = Decoded + 2 => Decoded' \in {6, 11})
    BY <1>4, StoreIs
  <2>3. \/ Decoded = 0 /\ Step(7, 1)
        \/ Decoded = 1 /\ Step(2, 4)
        \/ Decoded = 2 /\ Step(0, BitMapCls)
        \/ Decoded = 3 /\ Step(6, 1)
        \/ Decoded = 4 /\ Step(4, 0)
        \/ Decoded = 6 /\ Step(0, PageLines)
        \/ Decoded = 7 /\ Step(6, 0)
        \/ Decoded = 8 /\ hpc = "done" /\ Step(7, 0)
        \/ Decoded = 8 /\ hpc # "done" /\ Step(4, part + 1)
        \/ Decoded = 9 /\ hpc # "done" /\ Step(5, part)
    <3>1. hpc \in PartPC => hpc # "done"
      BY DEF PartPC
    <3> HIDE DEF Step
    <3> QED
      BY <1>4, <2>1, <3>1, StoreIs DEF QUERY_STATE, TOTAL_CLS, COLUMN_ADDRESS, RESULT_ADDRESS,
         BITMAP_STATE, JOB_TYPE, JOIN_PROCESSING, SCAN_PROCESSING
  <2>4. CASE Decoded = 0 /\ Step(7, 1)
    <3>1. Decoded' = 1 /\ query_state' = 1 /\ ~isActive
      BY <2>2, <2>4 DEF ParamInv, isActive, JOIN_PROCESSING, SCAN_PROCESSING
    <3>2. UNCHANGED <<cl_address, result_address, cls_to_process, reading_bitmap, bitmap_ready>>
      BY <3>1, LatchIs
    <3> QED
      BY <1>1, <2>4, <3>1, <3>2 DEF ParamInv, JOIN_PROCESSING, SCAN_PROCESSING
  <2>5. CASE Decoded = 1 /\ Step(2, 4)
    BY <1>1, <2>2, <2>5 DEF ParamInv, isActive, JOIN_PROCESSING, SCAN_PROCESSING
  <2>6. CASE Decoded = 2 /\ Step(0, BitMapCls)
    <3>1. Decoded' = 3 /\ isActive
      BY <1>1, <2>2, <2>6 DEF ParamInv, isActive, JOIN_PROCESSING, SCAN_PROCESSING
    <3>2. /\ cls_to_process' = BitMapCls
          /\ UNCHANGED <<cl_address, result_address, query_state, reading_bitmap, bitmap_ready>>
      BY <1>1, <2>6, <3>1
    <3> QED
      BY <1>1, <2>6, <3>1, <3>2 DEF ParamInv
  <2>7. CASE Decoded = 3 /\ Step(6, 1)
    <3>1. Decoded' = 4 /\ isActive
      BY <1>1, <2>2, <2>7 DEF ParamInv, isActive, JOIN_PROCESSING, SCAN_PROCESSING
    <3>2. reading_bitmap' = (1 = 1) /\ bitmap_ready' = (1 = 0)
      BY <2>7, <3>1
    <3>3. UNCHANGED <<cl_address, result_address, cls_to_process, query_state>>
      BY <2>7, <3>1
    <3>4. /\ reading_bitmap' /\ reading_bitmap' \in BOOLEAN /\ ~bitmap_ready'
          /\ bitmap_ready' \in BOOLEAN
      <4>1. 0 # 1
        OBVIOUS
      <4> QED
        BY <3>2, <4>1, Zenon
    <3>5. query_state' = JOIN_PROCESSING /\ cls_to_process' = BitMapCls
      BY <2>7, <3>3 DEF ParamInv
    <3> QED
      BY <1>1, <3>1, <3>4, <3>5 DEF ParamInv
  <2>8. CASE Decoded = 4 /\ Step(4, 0)
    <3>1. Decoded' \in {5, 6} /\ isActive
      BY <1>1, <2>2, <2>8 DEF ParamInv, isActive, JOIN_PROCESSING, SCAN_PROCESSING
    <3>2. /\ cl_address' = 0
          /\ UNCHANGED <<result_address, cls_to_process, query_state, reading_bitmap, bitmap_ready>>
      BY <2>8, <3>1
    <3>3. 0 \in 0 .. Partitions
      BY Constants
    <3> QED
      BY <1>1, <2>8, <3>1, <3>2, <3>3 DEF ParamInv
  <2>9. CASE Decoded = 6 /\ Step(0, PageLines)
    <3>1. /\ Decoded' = 7 /\ cls_to_process' = PageLines /\ query_state' = query_state
          /\ UNCHANGED <<cl_address, result_address, reading_bitmap, bitmap_ready>>
      BY <1>1, <2>2, <2>9 DEF ParamInv, isActive, JOIN_PROCESSING, SCAN_PROCESSING
    <3> QED
      BY <1>1, <2>9, <3>1 DEF ParamInv
  <2>10. CASE Decoded = 7 /\ Step(6, 0)
    <3>1. Decoded' = 8 /\ isActive
      BY <1>1, <2>2, <2>10 DEF ParamInv, isActive, JOIN_PROCESSING, SCAN_PROCESSING
    <3>2. reading_bitmap' = (0 = 1) /\ bitmap_ready' = (0 = 0)
      BY <2>10, <3>1
    <3>3. UNCHANGED <<cl_address, result_address, cls_to_process, query_state>>
      BY <2>10, <3>1
    <3>4. /\ ~reading_bitmap' /\ reading_bitmap' \in BOOLEAN /\ bitmap_ready'
          /\ bitmap_ready' \in BOOLEAN
      <4>1. 0 # 1
        OBVIOUS
      <4> QED
        BY <3>2, <4>1, Zenon
    <3>5. query_state' = JOIN_PROCESSING /\ cls_to_process' = PageLines
          /\ cl_address' \in 0 .. Partitions
      BY <2>10, <3>3 DEF ParamInv
    <3> QED
      BY <1>1, <3>1, <3>4, <3>5 DEF ParamInv
  <2>11. CASE Decoded = 8 /\ hpc = "done" /\ Step(7, 0)
    <3>1. Decoded' = 9 /\ query_state' = 0 /\ isActive
      BY <2>2, <2>11 DEF ParamInv, isActive, JOIN_PROCESSING, SCAN_PROCESSING
    <3> QED
      BY <1>1, <2>11, <3>1 DEF ParamInv, JOIN_PROCESSING, SCAN_PROCESSING
  <2>12. CASE Decoded = 8 /\ hpc # "done" /\ Step(4, part + 1)
    <3>1. /\ Decoded' = 9 /\ cl_address' = part + 1
          /\ UNCHANGED <<result_address, cls_to_process, query_state, reading_bitmap, bitmap_ready>>
      BY <1>1, <2>2, <2>12 DEF ParamInv, isActive, JOIN_PROCESSING, SCAN_PROCESSING
    <3> QED
      BY <1>1, <2>12, <3>1 DEF ParamInv
  <2>13. CASE Decoded = 9 /\ hpc # "done" /\ Step(5, part)
    <3>1. /\ Decoded' \in {10, 11} /\ result_address' = part
          /\ UNCHANGED <<cl_address, cls_to_process, query_state, reading_bitmap, bitmap_ready>>
      BY <1>1, <2>2, <2>13 DEF ParamInv, isActive, JOIN_PROCESSING, SCAN_PROCESSING
    <3> QED
      BY <1>1, <2>13, <3>1 DEF ParamInv
  <2> QED
    BY <2>3, <2>4, <2>5, <2>6, <2>7, <2>8, <2>9, <2>10, <2>11, <2>12, <2>13
<1> QED
  BY <1>3, <1>4

-----------------------------------------------------------------------------
(* The unit's registers. *)

\* The parameters as the unit uses them.
LEMMA ParamsAre ==
  ASSUME PipeInv, QueueInv, ParamInv
  PROVE  /\ cls_to_process \in 0 .. PageLines /\ PageLines \in Nat
         /\ Decoded \in 0 .. 11
         /\ Decoded >= 5 => cls_to_process >= 1 /\ cl_address \in 0 .. Partitions
         /\ query_state \in {SCAN_PROCESSING, JOIN_PROCESSING}
         /\ Decoded >= 1 /\ hpc # "done" => isActive
         /\ Decoded >= 1 /\ Decoded < 9 => isActive
<1>1. Decoded \in 0 .. 11
  <2>1. Place(hpc) \in 0 .. 11 /\ Decoded \in 0 .. Place(hpc)
    BY StagesAre
  <2> QED
    BY <2>1
<1> QED
  BY <1>1, Constants DEF ParamInv, isActive

\* An address, once decoded, makes the unit ready; nothing else does.
LEMMA ReadyIs ==
  ASSUME PipeInv, QueueInv, ParamInv, Advance, NEW rx, NEW full, Edge(rx, full)
  PROVE  /\ new_partition_ready' = IF isActive THEN Written(COLUMN_ADDRESS)
                                   ELSE new_partition_ready
         /\ Written(COLUMN_ADDRESS) =>
              /\ Decoded' >= Decoded + 1
              /\ (Decoded = 4 /\ hpc \in LoadPC) \/ (Decoded = 8 /\ hpc \in PartPC)
<1>1. new_partition_ready' = IF isActive THEN Written(COLUMN_ADDRESS) ELSE new_partition_ready
  BY DEF Edge, Clock, Parameters
<1>2. ASSUME Written(COLUMN_ADDRESS)
      PROVE  /\ Decoded' >= Decoded + 1
             /\ (Decoded = 4 /\ hpc \in LoadPC) \/ (Decoded = 8 /\ hpc \in PartPC)
  <2>1. csr_wr # None /\ csr_wr.csr = 4
    BY <1>2 DEF Written, COLUMN_ADDRESS
  <2> QED
    BY <2>1, StoreIs DEF Applies, QUERY_STATE, TOTAL_CLS, JOB_TYPE, BITMAP_STATE, RESULT_ADDRESS
<1> QED
  BY <1>1, <1>2

LEMMA CountEdge ==
  ASSUME PipeInv, QueueInv, ParamInv, CountInv, Advance, ParamInv', PipeInv', QueueInv',
         NEW rx, NEW full, Edge(rx, full)
  PROVE  CountInv'
<1>1. /\ cls_to_process \in 0 .. PageLines /\ PageLines \in Nat /\ Decoded \in 0 .. 11
      /\ Decoded >= 5 => cls_to_process >= 1 /\ cl_address \in 0 .. Partitions
      /\ query_state \in {SCAN_PROCESSING, JOIN_PROCESSING}
      /\ cls_to_process' \in 0 .. PageLines /\ Decoded' \in 0 .. 11 /\ Decoded' >= Decoded
  BY ParamsAre, Constants DEF Advance, ParamInv
<1>2. cls_to_process' >= cls_to_process
  BY <1>1, Constants DEF ParamInv
<1>3. /\ state \in {"waiting", "idle", "req", "rsp", "processing"}
      /\ {new_partition_ready, cl_req_allowed, cl_req_issued, cl_received, cl_processed,
          partition_processed} \subseteq BOOLEAN
      /\ cls_processed \in 0 .. PageLines
      /\ new_partition_ready \/ state # "waiting" => Decoded >= 5
      /\ state = "idle" /\ cl_req_allowed => cls_processed < cls_to_process
      /\ state \in {"req", "rsp", "processing"} => cls_processed < cls_to_process
      /\ {c0} \cup reading \subseteq {None} \cup ((0 .. Partitions) \X LineNo)
  BY DEF CountInv
<1>4. new_partition_ready' \in BOOLEAN /\ (new_partition_ready' => Decoded' >= 5)
  <2>1. new_partition_ready' = (csr_wr # None /\ csr_wr.csr = COLUMN_ADDRESS)
        \/ new_partition_ready' = new_partition_ready
    BY ReadyIs DEF Written
  <2>2. Written(COLUMN_ADDRESS) => Decoded' >= 5
    <3>1. Written(COLUMN_ADDRESS) => Decoded' >= Decoded + 1 /\ (Decoded = 4 \/ Decoded = 8)
      BY ReadyIs
    <3> QED
      BY <1>1, <3>1
  <2>3. Decoded >= 5 => Decoded' >= 5
    BY <1>1
  <2>4. new_partition_ready \in BOOLEAN /\ (new_partition_ready => Decoded >= 5)
    BY <1>3
  <2>5. new_partition_ready' \in BOOLEAN
    <3>1. (csr_wr # None /\ csr_wr.csr = COLUMN_ADDRESS) \in BOOLEAN
      OBVIOUS
    <3> QED
      BY <2>1, <2>4, <3>1, Zenon
  <2>6. new_partition_ready' => Written(COLUMN_ADDRESS) \/ new_partition_ready
    BY <2>1, Zenon DEF Written
  <2> QED
    BY <2>2, <2>3, <2>4, <2>5, <2>6, Zenon
<1>5. /\ state' \in {"waiting", "idle", "req", "rsp", "processing"}
      /\ state' # "waiting" => Decoded' >= 5
  BY <1>1, <1>3 DEF Edge, Clock, StateMachine
<1>6. {cl_req_allowed', cl_req_issued', cl_received', cl_processed', partition_processed'}
        \subseteq BOOLEAN
  <2>1. cl_req_allowed' \in BOOLEAN /\ partition_processed' \in BOOLEAN
    <3>1. \/ cl_req_allowed' = TRUE /\ partition_processed' = FALSE
          \/ /\ cl_req_allowed' = (cls_processed + 1 < cls_to_process)
             /\ partition_processed' = (cls_processed + 1 = cls_to_process)
          \/ cl_req_allowed' = FALSE /\ partition_processed' = partition_processed
          \/ cl_req_allowed' = cl_req_allowed /\ partition_processed' = partition_processed
      BY DEF Edge, Clock, Progress, NewPartition, LineCounted
    <3>2. cl_req_allowed \in BOOLEAN /\ partition_processed \in BOOLEAN
      BY <1>3
    <3>3. /\ (cls_processed + 1 < cls_to_process) \in BOOLEAN
          /\ (cls_processed + 1 = cls_to_process) \in BOOLEAN
          /\ TRUE \in BOOLEAN /\ FALSE \in BOOLEAN
      OBVIOUS
    <3> QED
      BY <3>1, <3>2, <3>3, Zenon
  <2>2. cl_req_issued' \in BOOLEAN
    BY <1>3 DEF Edge, Clock, ReadRequest
  <2>3. cl_received' \in BOOLEAN
    BY <1>3 DEF Edge, Clock, ReadResponse
  <2>4. cl_processed' \in BOOLEAN
    BY <1>3 DEF Edge, Clock, LineProcessed
  <2> QED
    BY <2>1, <2>2, <2>3, <2>4
\* How the count goes on.
<1>7. /\ cls_processed' \in 0 .. PageLines
      /\ state' = "idle" /\ cl_req_allowed' => cls_processed' < cls_to_process'
      /\ state' \in {"req", "rsp", "processing"} => cls_processed' < cls_to_process'
  <2>1. CASE state = "waiting" /\ new_partition_ready
    <3>1. cls_processed' = 0 /\ state' = "idle"
      BY <2>1 DEF Edge, Clock, Progress, NewPartition, StateMachine
    <3> QED
      BY <1>1, <1>2, <1>3, <2>1, <3>1
  <2>2. CASE state = "waiting" /\ ~new_partition_ready
    <3>1. cls_processed' = cls_processed /\ state' = "waiting"
      BY <2>2 DEF Edge, Clock, Progress, StateMachine
    <3> QED
      BY <1>3, <3>1
  <2>3. CASE state = "idle"
    <3>1. /\ cls_processed' = cls_processed
          /\ state' = IF partition_processed THEN "waiting"
                      ELSE IF cl_req_allowed THEN "req" ELSE "idle"
          /\ state' = "idle" => cl_req_allowed' = FALSE
      BY <2>3 DEF Edge, Clock, Progress, StateMachine
    <3>2. cl_req_allowed \in BOOLEAN /\ (cl_req_allowed => cls_processed < cls_to_process)
      BY <1>3, <2>3
    <3>3. cl_req_allowed => cls_processed < cls_to_process'
      BY <1>1, <1>2, <1>3, <3>2
    <3>4. state' = "req" => cl_req_allowed
      BY <3>1
    <3> QED
      BY <1>3, <3>1, <3>3, <3>4
  <2>4. CASE state \in {"req", "rsp"} \/ (state = "processing" /\ ~cl_processed)
    <3>1. cls_processed' = cls_processed /\ state' \in {"req", "rsp", "processing"}
      BY <2>4 DEF Edge, Clock, Progress, StateMachine
    <3> QED
      BY <1>1, <1>2, <1>3, <2>4, <3>1
  <2>5. CASE state = "processing" /\ cl_processed
    <3>1. /\ cls_processed' = cls_processed + 1 /\ state' = "idle"
          /\ cl_req_allowed' = (cls_processed + 1 < cls_to_process)
      BY <2>5 DEF Edge, Clock, Progress, LineCounted, StateMachine
    <3>2. /\ cls_processed < cls_to_process /\ cls_processed + 1 \in 0 .. PageLines
          /\ cls_processed + 1 < cls_to_process => cls_processed + 1 < cls_to_process'
      BY <1>1, <1>2, <1>3, <2>5
    <3>3. cl_req_allowed' => cls_processed + 1 < cls_to_process
      BY <3>1, Zenon
    <3>4. cls_processed' = cls_processed + 1 /\ state' = "idle"
      BY <3>1
    <3>5. /\ cls_processed' \in 0 .. PageLines
          /\ cls_processed + 1 < cls_to_process => cls_processed' < cls_to_process'
      BY <3>2, <3>4
    <3>6. state' \notin {"req", "rsp", "processing"}
      BY <3>4
    <3> QED
      BY <3>3, <3>5, <3>6, Zenon
  <2>6. state \in {"waiting", "idle", "req", "rsp", "processing"}
    BY <1>3
  <2> QED
    BY <2>1, <2>2, <2>3, <2>4, <2>5, <2>6, Zenon
\* What is asked of memory is a line of a buffer.
<1>8. {c0'} \cup reading' \subseteq {None} \cup ((0 .. Partitions) \X LineNo)
  <2>1. c0' \in {None} \cup ((0 .. Partitions) \X LineNo)
    <3>1. CASE state = "req"
      <4>1. cls_processed \in LineNo /\ cl_address \in 0 .. Partitions
        BY <1>1, <1>3, <3>1 DEF LineNo
      <4> QED
        BY <3>1, <4>1 DEF Edge, Clock, ReadRequest, LineOf
    <3>2. CASE state # "req"
      BY <1>3, <3>2 DEF Edge, Clock, ReadRequest
    <3> QED
      BY <3>1, <3>2
  <2>2. Requested \subseteq {c0}
    BY <1>1 DEF Requested, Bus, SCAN_PROCESSING, JOIN_PROCESSING
  <2>3. reading' \subseteq reading \cup Requested
    BY DEF Edge, Delivers
  <2> QED
    BY <1>3, <2>1, <2>2, <2>3
<1> QED
  BY <1>4, <1>5, <1>6, <1>7, <1>8 DEF CountInv

-----------------------------------------------------------------------------
(* The unit's work: the bitmap, or a partition. *)

LEMMA WorkIs ==
  ASSUME PipeInv, QueueInv, ParamInv, Loading \/ Joining
  PROVE  /\ isActive /\ hpc # "done" /\ Decoded >= 5 /\ Decoded \in 0 .. 11
         /\ Bus = [c0 |-> c0, c1 |-> c1] /\ cl_address \in 0 .. Partitions
         /\ Loading => /\ Decoded \in {5, 6} /\ cls_to_process = BitMapCls /\ cl_address = 0
                       /\ reading_bitmap /\ ~bitmap_ready /\ ~Joining /\ hpc \notin PartPC
         /\ Joining => /\ Decoded \in {9, 10, 11} /\ cls_to_process = PageLines
                       /\ cl_address = part + 1 /\ ~reading_bitmap /\ bitmap_ready
                       /\ hpc \notin LoadPC
<1>1. Decoded >= 5 /\ Decoded \in 0 .. 11 /\ hpc # "done"
  BY ParamsAre DEF Loading, Joining, LoadPC, PartPC
<1>2. isActive /\ cl_address \in 0 .. Partitions
  BY <1>1, ParamsAre
<1>3. Bus = [c0 |-> c0, c1 |-> c1]
  BY <1>2 DEF Bus, isActive, JOIN_PROCESSING, SCAN_PROCESSING
<1>4. hpc \notin LoadPC \/ hpc \notin PartPC
  BY DEF LoadPC, PartPC
<1>5. Loading => Decoded \in {5, 6}
  <2>1. Loading => Place(hpc) <= 6
    BY PlaceIs DEF Loading, LoadPC
  <2>2. Decoded \in 0 .. Place(hpc) /\ Place(hpc) \in 0 .. 11
    BY StagesAre
  <2>3. Loading => Decoded >= 5
    BY DEF Loading
  <2> QED
    BY <2>1, <2>2, <2>3
<1>6. Joining => Decoded \in {9, 10, 11}
  BY <1>1 DEF Joining
<1>7. Loading => /\ cls_to_process = BitMapCls /\ cl_address = 0 /\ reading_bitmap /\ ~bitmap_ready
                 /\ ~Joining /\ hpc \notin PartPC
  BY <1>4, <1>5 DEF ParamInv, Loading, Joining
<1>8. Joining => /\ cls_to_process = PageLines /\ cl_address = part + 1 /\ ~reading_bitmap
                 /\ bitmap_ready /\ hpc \notin LoadPC
  BY <1>1, <1>4, <1>6 DEF ParamInv, Joining
<1> QED
  BY <1>1, <1>2, <1>3, <1>5, <1>6, <1>7, <1>8

\* While the host waits for a page, an edge leaves the parameters of that page.
LEMMA KeepsWork ==
  ASSUME PipeInv, QueueInv, ParamInv, Advance, PipeInv', QueueInv', ParamInv',
         Loading \/ Joining, NEW rx, NEW full, Edge(rx, full)
  PROVE  /\ Loading' <=> Loading
         /\ Joining' <=> Joining
         /\ ~Written(COLUMN_ADDRESS) /\ new_partition_ready' = FALSE
         /\ UNCHANGED <<hpc, part, cls_to_process, cl_address>>
<1>1. hpc' = hpc /\ part' = part /\ Decoded' >= Decoded /\ Decoded \in Int /\ Decoded' \in Int
  BY DEF Advance, hostVars
<1>2. (Loading' <=> Loading) /\ (Joining' <=> Joining)
  BY <1>1, WorkIs DEF Loading, Joining
<1>3. ~Written(COLUMN_ADDRESS)
  BY ReadyIs, WorkIs
<1>4. new_partition_ready' = FALSE
  <2>1. isActive /\ Written(COLUMN_ADDRESS) = FALSE
    BY <1>3, WorkIs DEF Written
  <2> QED
    BY <2>1, ReadyIs
<1>5. cls_to_process' = cls_to_process /\ cl_address' = cl_address
  <2>1. CASE Loading
    <3>1. Place(hpc) <= 6 /\ Place(hpc) \in 0 .. 11 /\ Decoded' <= Place(hpc)
      BY <2>1, PlaceIs DEF Loading, LoadPC, Advance
    <3>2. Decoded \in {5, 6} /\ Decoded' \in {5, 6}
      BY <1>1, <2>1, <3>1, WorkIs
    <3> QED
      BY <3>2 DEF ParamInv
  <2>2. CASE Joining
    <3>1. Decoded \in {9, 10, 11} /\ Decoded' >= 9 /\ hpc # "done"
      BY <1>1, <2>2, WorkIs
    <3> QED
      BY <1>1, <3>1 DEF ParamInv
  <2> QED
    BY <2>1, <2>2
<1> QED
  BY <1>1, <1>2, <1>3, <1>4, <1>5

\* It starts with the address and with nothing else.
LEMMA StartsWork ==
  ASSUME PipeInv, QueueInv, ParamInv, Advance, PipeInv', QueueInv', ParamInv',
         ~Loading, ~Joining, NEW rx, NEW full, Edge(rx, full)
  PROVE  /\ Loading' \/ Joining' <=> Written(COLUMN_ADDRESS)
         /\ Written(COLUMN_ADDRESS) => isActive
         /\ Written(COLUMN_ADDRESS) /\ Joining' => Decoded' = 9 /\ Decoded = 8 /\ hpc \in PartPC
         /\ Written(COLUMN_ADDRESS) /\ Loading' => Decoded = 4 /\ hpc \in LoadPC
<1>1. hpc' = hpc /\ Decoded' >= Decoded /\ Decoded \in 0 .. 11 /\ Decoded' \in 0 .. 11
      /\ Place(hpc) \in 0 .. 11 /\ Decoded' <= Place(hpc)
  BY DEF Advance, hostVars
<1>2. hpc \in LoadPC => hpc \notin PartPC
  BY DEF LoadPC, PartPC
<1>3. ASSUME Written(COLUMN_ADDRESS)
      PROVE  /\ Loading' \/ Joining'
             /\ isActive
             /\ Joining' => Decoded' = 9 /\ Decoded = 8 /\ hpc \in PartPC
             /\ Loading' => Decoded = 4 /\ hpc \in LoadPC
  <2>1. /\ Decoded' >= Decoded + 1
        /\ (Decoded = 4 /\ hpc \in LoadPC) \/ (Decoded = 8 /\ hpc \in PartPC)
    BY <1>3, ReadyIs
  <2>2. isActive
    BY <1>1, <2>1, ParamsAre DEF PartPC
  <2>3. Decoded = 8 => Decoded' = 9
    <3>1. csr_wr # None
      BY <1>3 DEF Written
    <3>2. Decoded' \in {Decoded + 1, Decoded + 2} /\ (Decoded' = Decoded + 2 => Decoded' \in {6, 11})
      BY <3>1, StoreIs
    <3> QED
      BY <3>2
  <2> QED
    BY <1>1, <1>2, <2>1, <2>2, <2>3 DEF Loading, Joining
<1>4. ASSUME Loading' \/ Joining'
      PROVE  Written(COLUMN_ADDRESS)
  <2>1. (Decoded < 5 /\ Decoded' >= 5) \/ (Decoded < 9 /\ Decoded' >= 9 /\ hpc \in PartPC)
    BY <1>1, <1>4 DEF Loading, Joining
  <2>2. csr_wr # None
    <3> SUFFICES ASSUME csr_wr = None PROVE FALSE
      OBVIOUS
    <3>1. Decoded' = Decoded \/ (Decoded' = Decoded + 1 /\ Decoded' \in {6, 11})
      <4>1. Polled => Decoded' \in {6, 11}
        BY PlaceIs DEF Advance
      <4>2. Decoded' = Seen + One(Polled) /\ Decoded = Seen - 0 /\ Seen \in Int
        BY StagesAre DEF Advance, One
      <4>3. CASE Polled
        BY <4>1, <4>2, <4>3 DEF One
      <4>4. CASE ~Polled
        BY <4>2, <4>4 DEF One
      <4> QED
        BY <4>3, <4>4
    <3> QED
      BY <1>1, <2>1, <3>1
  <2>3. Decoded' \in {Decoded + 1, Decoded + 2} /\ (Decoded' = Decoded + 2 => Decoded' \in {6, 11})
    BY <2>2, StoreIs
  <2>4. Decoded = 4 \/ (Decoded = 8 /\ hpc \in PartPC)
    BY <1>1, <2>1, <2>3
  <2>5. csr_wr.csr = COLUMN_ADDRESS
    BY <2>2, <2>4, StoreIs DEF Applies, PartPC
  <2> QED
    BY <2>2, <2>5 DEF Written
<1> QED
  BY <1>3, <1>4

LEMMA FetchedIs ==
  ASSUME PipeInv, QueueInv, ParamInv, CountInv, state \in {"req", "rsp", "processing"}
  PROVE  /\ Fetched = <<cl_address, cls_processed>> /\ Fetched \in (0 .. Partitions) \X LineNo
         /\ cls_processed \in LineNo /\ cls_processed < cls_to_process
         /\ cl_address \in 0 .. Partitions
         /\ Fetched # None /\ ReadRsp(Fetched) # None
<1>1. /\ cls_processed \in LineNo /\ cls_processed < cls_to_process
      /\ cl_address \in 0 .. Partitions
  BY ParamsAre DEF CountInv, LineNo
<1>2. Fetched = <<cl_address, cls_processed>>
  BY DEF Fetched, LineOf
<1> QED
  BY <1>1, <1>2, Present

IsRsp(rx) == rx # None /\ rx.op = "rsp"

\* Memory answers only what was asked for last.
LEMMA DeliveredIs ==
  ASSUME PipeInv, QueueInv, ParamInv, CountInv, CtrlInv, NEW rx, NEW full, Edge(rx, full)
  PROVE  /\ \/ ~IsRsp(rx) /\ reading' = reading \cup Requested
            \/ /\ IsRsp(rx) /\ reading = {Fetched} /\ rx.line = Fetched /\ reading' = Requested
               /\ state = "rsp" /\ (kept' => ~ResultAddressPending)
         /\ Requested = IF c0 # None THEN {c0} ELSE {}
<1>1. Requested = IF c0 # None THEN {c0} ELSE {}
  <2>1. CASE Loading \/ Joining
    BY <2>1, WorkIs DEF Requested
  <2>2. CASE ~Loading /\ ~Joining
    <3>1. c0 = None
      BY <2>2 DEF CtrlInv
    <3>2. query_state \in {SCAN_PROCESSING, JOIN_PROCESSING}
      BY ParamsAre
    <3> QED
      BY <3>1, <3>2 DEF Requested, Bus, SCAN_PROCESSING, JOIN_PROCESSING
  <2> QED
    BY <2>1, <2>2
<1>2. CASE rx = None /\ reading' = reading \cup Requested
  BY <1>1, <1>2 DEF IsRsp
<1>3. CASE mmio # <<>> /\ rx = Head(mmio) /\ reading' = reading \cup Requested
  <2>1. Len(mmio) \in Nat /\ Arrived = Place(hpc) - Len(mmio) /\ Place(hpc) \in 0 .. 11
        /\ Arrived >= 0 /\ Arrived \in Int
    BY StagesAre
  <2>2. Len(mmio) >= 1 /\ Head(mmio) = mmio[1]
    BY <1>3, HeadIs DEF PipeInv
  <2>3. mmio[1] = Prog(Arrived + 1)
    BY <2>1, <2>2 DEF PipeInv
  <2>4. Arrived + 1 \in 1 .. 11
    <3>1. Len(mmio) >= 1 /\ Len(mmio) \in Int /\ Place(hpc) \in Int /\ Place(hpc) <= 11
      BY <2>1, <2>2
    <3>2. Arrived + 1 <= 11
      BY <2>1, <3>1
    <3>3. Arrived + 1 >= 1 /\ Arrived + 1 \in Int
      BY <2>1
    <3> QED
      BY <3>2, <3>3
  <2>5. rx.op \in {"read", "write"}
    BY <1>3, <2>2, <2>3, <2>4, AccessIs
  <2> QED
    BY <1>1, <1>3, <2>5 DEF IsRsp
<1>4. CASE \E line \in reading :
             /\ rx = ReadRsp(line) /\ reading' = (reading \ {line}) \cup Requested
             /\ kept' => ~ResultAddressPending
  <2>1. PICK line \in reading :
             /\ rx = ReadRsp(line) /\ reading' = (reading \ {line}) \cup Requested
             /\ kept' => ~ResultAddressPending
    BY <1>4
  <2>2. reading = {Fetched} /\ line = Fetched /\ state = "rsp"
    BY DEF CtrlInv
  <2>3. ReadRsp(Fetched) # None
    BY <2>2, FetchedIs
  <2>4. rx # None /\ rx.op = "rsp" /\ rx.line = Fetched
    BY <2>1, <2>2, <2>3, CsrIs
  <2> QED
    BY <1>1, <2>1, <2>2, <2>4 DEF IsRsp
<1> QED
  BY <1>2, <1>3, <1>4 DEF Edge, Delivers

\* The answer to the host's poll passes the CSR manager.
LEMMA AnswerIs ==
  ASSUME PipeInv, NEW rx, NEW full, Edge(rx, full), c2' = TRUE \/ answer' = TRUE
  PROVE  \/ c2 = TRUE \/ answer = TRUE
         \/ Polled /\ partition_processed /\ (~early' => ~Written(COLUMN_ADDRESS)
                                                         /\ ~new_partition_ready)
<1>1. TRUE # None
  BY NoneAssumption
<1>2. /\ c2' = IF csr_rx # None /\ csr_rx.op = "read"
               THEN csr_rx.csr = JOIN_PROCESSED /\ partition_processed ELSE None
      /\ answer' = IF c2 # None THEN c2 ELSE answer
      /\ early' = (early \/ EarlyPoll)
  BY DEF Edge, Clock, CsrMgr, Ports
<1>3. Polled /\ ~early' => ~Written(COLUMN_ADDRESS) /\ ~new_partition_ready
  BY <1>2 DEF EarlyPoll, Polled
<1>4. c2' = TRUE => Polled /\ partition_processed
  BY <1>1, <1>2 DEF Polled
<1>5. answer' = TRUE => c2 = TRUE \/ answer = TRUE
  BY <1>1, <1>2
<1> QED
  BY <1>3, <1>4, <1>5

\* The unit waits: it may take up the page whose address has arrived.
LEMMA WaitingEdge ==
  ASSUME PipeInv, QueueInv, ParamInv, CountInv, CtrlInv, Advance,
         PipeInv', QueueInv', ParamInv', CountInv', ~early',
         NEW rx, NEW full, Edge(rx, full), state = "waiting"
  PROVE  CtrlInv'
<1>1. /\ c0 = None /\ c1 = None /\ ~cl_received /\ ~cl_req_issued /\ ~cl_processed
      /\ reading = {}
      /\ new_partition_ready => Loading \/ Joining
      /\ ~new_partition_ready /\ (Loading \/ Joining) =>
           partition_processed /\ cls_processed = cls_to_process
      /\ c2 = TRUE \/ answer = TRUE => partition_processed /\ ~new_partition_ready
  BY DEF CtrlInv
<1>2. {cl_received, cl_req_issued, cl_processed, partition_processed, new_partition_ready,
       cl_req_allowed} \subseteq BOOLEAN
  BY DEF CountInv
<1>3. /\ c1' = None /\ c0' = c0 /\ cl_req_issued' = cl_req_issued /\ cl_received' = cl_received
      /\ cl_processed' = cl_processed
  <2>1. ~Offered
    BY <1>1 DEF Offered
  <2> QED
    BY <1>1, <2>1 DEF Edge, Clock, WriteRequest, ReadRequest, ReadResponse, LineProcessed
<1>4. reading' = {}
  BY <1>1, DeliveredIs
<1>5. /\ c1' = None /\ c0' = None /\ ~cl_req_issued' /\ ~cl_received' /\ ~cl_processed'
      /\ reading' = {}
  BY <1>1, <1>2, <1>3, <1>4
<1>6. CASE new_partition_ready
  <2>1. Loading \/ Joining
    BY <1>1, <1>6
  <2>2. /\ (Loading' \/ Joining') /\ new_partition_ready' = FALSE
        /\ cls_to_process' = cls_to_process /\ cls_to_process \in Nat /\ cls_to_process >= 1
    <3>1. cls_to_process \in Nat /\ cls_to_process >= 1
      BY <2>1, ParamsAre, WorkIs
    <3>2. /\ (Loading' \/ Joining') /\ new_partition_ready' = FALSE
          /\ cls_to_process' = cls_to_process
      BY <2>1, KeepsWork
    <3> QED
      BY <3>1, <3>2
  <2>3. /\ state' = "idle" /\ cl_req_allowed' = TRUE /\ partition_processed' = FALSE
        /\ cls_processed' = 0
    BY <1>6 DEF Edge, Clock, Progress, NewPartition, StateMachine
  <2>4. ~(c2' = TRUE \/ answer' = TRUE)
    BY <1>1, <1>6, AnswerIs
  <2>5. cls_processed' # cls_to_process' /\ cls_processed' < cls_to_process'
    BY <2>2, <2>3
  <2> QED
    BY <1>5, <2>2, <2>3, <2>4, <2>5 DEF CtrlInv
<1>7. CASE ~new_partition_ready
  <2>1. state' = "waiting" /\ UNCHANGED <<cls_processed, partition_processed, cl_req_allowed>>
    BY <1>1, <1>7 DEF Edge, Clock, StateMachine, Progress
  <2>2. new_partition_ready' = IF isActive THEN Written(COLUMN_ADDRESS) ELSE FALSE
    BY <1>2, <1>7, ReadyIs
  <2>3. CASE Loading \/ Joining
    <3>1. /\ (Loading' \/ Joining') /\ new_partition_ready' = FALSE
          /\ cls_to_process' = cls_to_process
      BY <2>3, KeepsWork
    <3>2. partition_processed' /\ cls_processed' = cls_to_process'
      BY <1>1, <1>7, <2>1, <2>3, <3>1
    <3> QED
      BY <1>5, <2>1, <3>1, <3>2 DEF CtrlInv
  <2>4. CASE ~(Loading \/ Joining)
    <3>1. /\ Loading' \/ Joining' <=> Written(COLUMN_ADDRESS)
          /\ Written(COLUMN_ADDRESS) => isActive
      BY <2>4, StartsWork
    <3>2. new_partition_ready' => Loading' \/ Joining'
      BY <2>2, <3>1
    <3>3. Loading' \/ Joining' => new_partition_ready'
      BY <2>2, <3>1
    <3>4. c2' = TRUE \/ answer' = TRUE => partition_processed' /\ ~new_partition_ready'
      <4>1. c2 = TRUE \/ answer = TRUE => ~Written(COLUMN_ADDRESS) /\ partition_processed
        <5>1. TRUE # None
          BY NoneAssumption
        <5>2. c2 = TRUE \/ answer = TRUE => csr_wr = None
          BY <5>1 DEF PipeInv, PipeEmpty
        <5> QED
          BY <1>1, <5>2 DEF Written
      <4>2. c2' = TRUE \/ answer' = TRUE => ~Written(COLUMN_ADDRESS) /\ partition_processed
        BY <4>1, AnswerIs
      <4> QED
        BY <2>1, <2>2, <4>2
    <3> QED
      BY <1>5, <2>1, <3>2, <3>3, <3>4 DEF CtrlInv
  <2> QED
    BY <2>3, <2>4
<1> QED
  BY <1>6, <1>7

\* The unit is at work on a page: request, response, lookup, count.
LEMMA BusyEdge ==
  ASSUME PipeInv, QueueInv, ParamInv, CountInv, CtrlInv, Advance,
         PipeInv', QueueInv', ParamInv', CountInv', ~early',
         NEW rx, NEW full, Edge(rx, full), state # "waiting"
  PROVE  CtrlInv'
<1>1. Loading \/ Joining
  BY DEF CtrlInv
<1>2. /\ Loading' <=> Loading
      /\ Joining' <=> Joining
      /\ new_partition_ready' = FALSE /\ ~new_partition_ready
      /\ UNCHANGED <<cls_to_process, cl_address>>
  BY <1>1, KeepsWork DEF CtrlInv
<1>3. {cl_received, cl_req_issued, cl_processed, partition_processed, cl_req_allowed}
        \subseteq BOOLEAN /\ cls_processed \in Nat /\ cls_to_process \in Nat
      /\ state \in {"idle", "req", "rsp", "processing"}
  BY ParamsAre DEF CountInv
\* The host sees a flag that was set: the unit has just finished.
<1>4. c2' = TRUE \/ answer' = TRUE => state = "idle" /\ partition_processed
  <2>1. ~(c2 = TRUE \/ answer = TRUE)
    BY DEF CtrlInv
  <2> QED
    BY <1>3, <2>1, AnswerIs DEF CtrlInv
<1>5. CASE state = "idle"
  <2>1. /\ c0 = None /\ ~cl_req_issued /\ ~cl_received /\ ~cl_processed /\ reading = {}
        /\ partition_processed <=> cls_processed = cls_to_process
        /\ cl_req_allowed <=> cls_processed < cls_to_process
    BY <1>5 DEF CtrlInv
  <2>2. /\ c0' = c0 /\ cl_req_issued' = cl_req_issued /\ cl_received' = cl_received
        /\ cl_processed' = cl_processed /\ c1' = None
    <3>1. ~Offered
      BY <1>5 DEF Offered
    <3> QED
      BY <1>5, <3>1 DEF Edge, Clock, ReadRequest, ReadResponse, LineProcessed, WriteRequest
  <2>3. reading' = {}
    BY <2>1, DeliveredIs
  <2>4. cls_processed <= PageLines /\ cls_to_process <= PageLines
    BY <1>3, ParamsAre DEF CountInv
  <2>5. CASE partition_processed
    <3>1. state' = "waiting" /\ UNCHANGED <<cls_processed, partition_processed, cl_req_allowed>>
      BY <1>5, <2>5 DEF Edge, Clock, StateMachine, Progress
    <3> QED
      BY <1>1, <1>2, <1>3, <2>1, <2>2, <2>3, <2>5, <3>1 DEF CtrlInv
  <2>6. CASE ~partition_processed /\ cl_req_allowed
    <3>1. state' = "req" /\ UNCHANGED <<cls_processed, partition_processed>>
      BY <1>5, <2>6 DEF Edge, Clock, StateMachine, Progress
    <3> QED
      BY <1>1, <1>2, <1>3, <1>4, <2>1, <2>2, <2>3, <2>6, <3>1 DEF CtrlInv
  <2>7. CASE ~partition_processed /\ ~cl_req_allowed
    <3>1. /\ state' = "idle" /\ cl_req_allowed' = FALSE
          /\ UNCHANGED <<cls_processed, partition_processed>>
      BY <1>5, <2>7 DEF Edge, Clock, StateMachine, Progress
    <3>2. /\ partition_processed' <=> cls_processed' = cls_to_process'
          /\ cl_req_allowed' <=> cls_processed' < cls_to_process'
      <4>1. ~(cls_processed < cls_to_process) /\ cls_processed # cls_to_process
        BY <2>1, <2>7
      <4> QED
        BY <1>2, <2>7, <3>1, <4>1
    <3> QED
      BY <1>1, <1>2, <1>3, <1>4, <2>1, <2>2, <2>3, <2>7, <3>1, <3>2 DEF CtrlInv
  <2> QED
    BY <2>5, <2>6, <2>7
<1>6. ASSUME state \in {"req", "rsp"} \/ (state = "processing" /\ ~cl_processed)
      PROVE  /\ UNCHANGED <<cls_processed, partition_processed, cl_req_allowed>>
             /\ ~partition_processed /\ ~partition_processed'
             /\ c1 = None /\ c1' = None /\ Fetched' = Fetched
             /\ ~(c2' = TRUE \/ answer' = TRUE)
  <2>1. UNCHANGED <<cls_processed, partition_processed, cl_req_allowed>>
    BY <1>6 DEF Edge, Clock, Progress
  <2>2. ~partition_processed /\ c1 = None
    BY <1>6 DEF CtrlInv
  <2>3. ~Offered
    BY <1>6 DEF Offered
  <2>4. c1' = None
    BY <2>3 DEF Edge, Clock, WriteRequest
  <2> QED
    BY <1>2, <1>4, <1>6, <2>1, <2>2, <2>4 DEF Fetched, LineOf
<1>7. CASE state = "req"
  <2>1. /\ ~cl_received /\ reading = {} /\ ~cl_processed
        /\ c0 # None => cl_req_issued /\ c0 = Fetched
    BY <1>7 DEF CtrlInv
  <2>2. /\ cl_processed' = cl_processed /\ cl_received' = cl_received
    BY <1>7 DEF Edge, Clock, LineProcessed, ReadResponse
  <2>3. /\ cl_req_issued' = (~full /\ ~cl_req_issued)
        /\ c0' = IF ~full /\ ~cl_req_issued THEN Fetched ELSE None
    BY <1>7 DEF Edge, Clock, ReadRequest, Fetched
  <2>4. state' = IF cl_req_issued THEN "rsp" ELSE "req"
    BY <1>7 DEF Edge, Clock, StateMachine
  <2>5. reading' = IF c0 # None THEN {c0} ELSE {}
    BY <2>1, DeliveredIs
  <2>6. c0' # None => cl_req_issued' /\ c0' = Fetched'
    BY <1>6, <1>7, <2>3
  <2>7. cl_req_issued' => state' = "req"
    BY <2>3, <2>4
  <2>8. reading' # {} => state' = "rsp" /\ ~cl_received' /\ reading' = {Fetched'}
    BY <1>6, <1>7, <2>1, <2>2, <2>4, <2>5
  <2> QED
    BY <1>1, <1>2, <1>6, <1>7, <2>1, <2>2, <2>4, <2>6, <2>7, <2>8 DEF CtrlInv
<1>8. CASE state = "rsp"
  <2>1. /\ c0 = None /\ ~cl_processed
        /\ reading # {} => ~cl_received /\ reading = {Fetched}
    BY <1>8 DEF CtrlInv
  <2>2. /\ cl_processed' = cl_processed /\ cl_received' = IsRsp(rx)
        /\ c0' = c0 /\ cl_req_issued' = FALSE
    BY <1>8 DEF Edge, Clock, LineProcessed, ReadResponse, ReadRequest, IsRsp
  <2>3. state' = IF cl_received THEN "processing" ELSE "rsp"
    BY <1>8 DEF Edge, Clock, StateMachine
  <2>4. \/ ~IsRsp(rx) /\ reading' = reading
        \/ IsRsp(rx) /\ reading # {} /\ reading' = {}
    BY <2>1, DeliveredIs
  <2>5. cl_received' => state' = "rsp" /\ reading' = {}
    BY <2>1, <2>2, <2>3, <2>4
  <2>6. reading' # {} => state' = "rsp" /\ ~cl_received' /\ reading' = {Fetched'}
    BY <1>6, <1>8, <2>1, <2>2, <2>3, <2>4
  <2> QED
    BY <1>1, <1>2, <1>6, <1>8, <2>1, <2>2, <2>3, <2>5, <2>6 DEF CtrlInv
<1>9. CASE state = "processing" /\ ~cl_processed
  <2>1. /\ c0 = None /\ ~cl_req_issued /\ reading = {}
    BY <1>9 DEF CtrlInv
  <2>2. /\ cl_received' = FALSE /\ c0' = c0 /\ cl_req_issued' = cl_req_issued
        /\ state' = "processing"
    BY <1>9 DEF Edge, Clock, ReadResponse, ReadRequest, StateMachine
  <2>3. reading' = {}
    BY <2>1, DeliveredIs
  <2> QED
    BY <1>1, <1>2, <1>6, <1>9, <2>1, <2>2, <2>3 DEF CtrlInv
<1>10. CASE state = "processing" /\ cl_processed
  <2>1. /\ c0 = None /\ ~cl_req_issued /\ reading = {} /\ ~partition_processed
    BY <1>10 DEF CtrlInv
  <2>2. /\ cl_received' = FALSE /\ c0' = c0 /\ cl_req_issued' = cl_req_issued
        /\ state' = "idle" /\ cl_processed' = ~cl_processed
    BY <1>10 DEF Edge, Clock, ReadResponse, ReadRequest, StateMachine, LineProcessed
  <2>3. reading' = {}
    BY <2>1, DeliveredIs
  <2>4. /\ cls_processed' = cls_processed + 1
        /\ cl_req_allowed' = (cls_processed + 1 < cls_to_process)
        /\ partition_processed' = (cls_processed + 1 = cls_to_process)
    BY <1>10 DEF Edge, Clock, Progress, LineCounted
  <2>5. /\ partition_processed' <=> cls_processed' = cls_to_process'
        /\ cl_req_allowed' <=> cls_processed' < cls_to_process'
    BY <1>2, <2>4
  <2>6. c1' # None => Joining'
    <3>1. c1' # None => bitmap_ready
      BY DEF Edge, Clock, WriteRequest, Offered
    <3>2. Loading => ~bitmap_ready
      BY WorkIs
    <3> QED
      BY <1>1, <1>2, <3>1, <3>2
  <2>7. ~(c2' = TRUE \/ answer' = TRUE)
    BY <1>4, <1>10
  <2> QED
    BY <1>1, <1>2, <1>10, <2>1, <2>2, <2>3, <2>5, <2>6, <2>7 DEF CtrlInv
<1> QED
  BY <1>3, <1>5, <1>7, <1>8, <1>9, <1>10

LEMMA CtrlEdge ==
  ASSUME PipeInv, QueueInv, ParamInv, CountInv, CtrlInv, Advance,
         PipeInv', QueueInv', ParamInv', CountInv', ~early',
         NEW rx, NEW full, Edge(rx, full)
  PROVE  CtrlInv'
BY WaitingEdge, BusyEdge

-----------------------------------------------------------------------------
(* The bitmap register. *)

LEMMA LoadNext ==
  ASSUME NEW n \in 0 .. MapLines - 1
  PROVE  [Loaded(n) EXCEPT ![n] = <<0, n>>] = Loaded(n + 1)
<1> DEFINE D == 0 .. MapLines - 1
<1>1. ASSUME NEW i \in D
      PROVE  (IF i = n THEN <<0, n>> ELSE IF i < n THEN <<0, i>> ELSE None)
               = IF i < n + 1 THEN <<0, i>> ELSE None
  <2>1. i \in Int /\ n \in Int /\ (i < n + 1 <=> i = n \/ i < n)
    BY Constants
  <2> QED
    BY <2>1
<1>2. [Loaded(n) EXCEPT ![n] = <<0, n>>]
        = [i \in D |-> IF i = n THEN <<0, n>> ELSE IF i < n THEN <<0, i>> ELSE None]
  BY DEF Loaded
<1>3. Loaded(n + 1) = [i \in D |-> IF i < n + 1 THEN <<0, i>> ELSE None]
  BY DEF Loaded
<1> HIDE DEF D
<1> QED
  BY <1>1, <1>2, <1>3

\* The line being looked at is the line that was asked for.
LEMMA RspEdge ==
  ASSUME PipeInv, QueueInv, ParamInv, CountInv, CtrlInv, MapInv, Advance,
         PipeInv', QueueInv', ParamInv', CountInv', CtrlInv', ~early',
         NEW rx, NEW full, Edge(rx, full)
  PROVE  state' = "processing" \/ cl_received' => rsp_data' = Fetched'
<1>1. {cl_received, cl_processed} \subseteq BOOLEAN
      /\ state \in {"waiting", "idle", "req", "rsp", "processing"}
      /\ (cl_received' => state' = "rsp")
      /\ (state = "processing" \/ cl_received => rsp_data = Fetched)
      /\ (cl_received => state = "rsp")
  BY DEF CtrlInv, CountInv, MapInv
<1>2. CASE state = "rsp"
  <2>1. Loading \/ Joining
    BY <1>2 DEF CtrlInv
  <2>2. Fetched' = Fetched
    <3>1. cl_address' = cl_address
      BY <2>1, KeepsWork
    <3>2. cls_processed' = cls_processed
      BY <1>2 DEF Edge, Clock, Progress
    <3> QED
      BY <3>1, <3>2 DEF Fetched, LineOf
  <2>3. /\ cl_received' = IsRsp(rx) /\ rsp_data' = IF IsRsp(rx) THEN rx.line ELSE rsp_data
        /\ state' = IF cl_received THEN "processing" ELSE "rsp"
    BY <1>2 DEF Edge, Clock, ReadResponse, IsRsp, StateMachine
  <2>4. IsRsp(rx) => rx.line = Fetched
    BY DeliveredIs
  <2> QED
    BY <1>1, <2>2, <2>3, <2>4
<1>3. CASE state = "processing" /\ ~cl_processed
  <2>1. Loading \/ Joining
    BY <1>3 DEF CtrlInv
  <2>2. Fetched' = Fetched
    <3>1. cl_address' = cl_address
      BY <2>1, KeepsWork
    <3>2. cls_processed' = cls_processed
      BY <1>3 DEF Edge, Clock, Progress
    <3> QED
      BY <3>1, <3>2 DEF Fetched, LineOf
  <2>3. rsp_data' = rsp_data
    BY <1>3 DEF Edge, Clock, ReadResponse
  <2> QED
    BY <1>1, <1>3, <2>2, <2>3
<1>4. CASE state \in {"waiting", "idle", "req"} \/ (state = "processing" /\ cl_processed)
  <2>1. state' # "processing"
    BY <1>4 DEF Edge, Clock, StateMachine
  <2>2. cl_received' = cl_received \/ cl_received' = FALSE
    BY <1>4 DEF Edge, Clock, ReadResponse
  <2>3. state # "rsp"
    BY <1>4
  <2> QED
    BY <1>1, <2>1, <2>2, <2>3
<1> QED
  BY <1>1, <1>2, <1>3, <1>4

LEMMA MapEdge ==
  ASSUME PipeInv, QueueInv, ParamInv, CountInv, CtrlInv, MapInv, Advance,
         PipeInv', QueueInv', ParamInv', CountInv', CtrlInv', ~early',
         NEW rx, NEW full, Edge(rx, full)
  PROVE  MapInv'
<1>1. bit_map = Loaded(LinesLoaded) /\ (state = "processing" => rsp_data = Fetched)
  BY DEF MapInv
<1>2. hpc' = hpc /\ (hpc \in JoinPC => hpc \notin LoadPC) /\ hpc \in LoadPC \cup JoinPC
      /\ {cl_processed, new_partition_ready} \subseteq BOOLEAN
      /\ (cl_processed => state = "processing") /\ (cl_processed' => state' = "processing")
      /\ state \in {"waiting", "idle", "req", "rsp", "processing"}
      /\ cls_processed \in Nat
  BY Constants DEF Advance, hostVars, LoadPC, JoinPC, PartPC, PipeInv, CtrlInv, CountInv
<1>3. ASSUME ~(LookUp /\ reading_bitmap)
      PROVE  bit_map' = bit_map
  BY <1>3 DEF Edge, Clock, LoadBitMap
<1>4. state # "waiting" => Loading \/ Joining
  BY DEF CtrlInv
<1>5. CASE hpc \in JoinPC
  <2>1. LookUp => ~reading_bitmap
    <3>1. LookUp => Joining
      BY <1>2, <1>4, <1>5 DEF LookUp, Loading
    <3> QED
      BY <3>1, WorkIs
  <2>2. LinesLoaded = BitMapCls /\ LinesLoaded' = BitMapCls
    BY <1>2, <1>5 DEF LinesLoaded, BitMapCls
  <2> QED
    BY <1>1, <1>3, <2>1, <2>2, RspEdge DEF MapInv, Loaded
<1>6. CASE hpc \in LoadPC /\ ~Loading
  <2>1. state = "waiting"
    BY <1>4, <1>6, WorkIs DEF Joining, LoadPC, PartPC
  <2>2. bit_map' = bit_map
    BY <1>3, <2>1 DEF LookUp
  <2>3. Loading' => new_partition_ready'
    <3>1. ~Joining
      BY <1>6 DEF Joining, LoadPC, PartPC
    <3>2. Loading' => Written(COLUMN_ADDRESS) /\ isActive
      BY <1>6, <3>1, StartsWork
    <3> QED
      BY <3>2, ReadyIs
  <2>4. LinesLoaded = 0 /\ LinesLoaded' = 0
    BY <1>2, <1>6, <2>3 DEF LinesLoaded
  <2> QED
    BY <1>1, <2>2, <2>4, RspEdge DEF MapInv, Loaded
<1>7. CASE Loading
  <2>1. /\ Loading' /\ new_partition_ready' = FALSE /\ cls_to_process = BitMapCls
        /\ reading_bitmap /\ cl_address = 0
    BY <1>7, KeepsWork, WorkIs
  <2>2. hpc \notin JoinPC /\ hpc' \notin JoinPC
    BY <1>2, <1>7 DEF Loading
  <2>3. /\ LinesLoaded = IF new_partition_ready THEN 0 ELSE IF state = "waiting" THEN BitMapCls
                         ELSE IF cl_processed THEN cls_processed + 1 ELSE cls_processed
        /\ LinesLoaded' = IF state' = "waiting" THEN BitMapCls
                          ELSE IF cl_processed' THEN cls_processed' + 1 ELSE cls_processed'
    BY <1>7, <2>1, <2>2 DEF LinesLoaded, BitMapCls
  <2>4. state # "waiting" => ~new_partition_ready
    BY DEF CtrlInv
  <2>5. CASE state = "waiting"
    <3>1. bit_map' = bit_map /\ ~cl_processed'
      <4>1. bit_map' = bit_map /\ state' # "processing"
        BY <1>3, <2>5 DEF LookUp, Edge, Clock, StateMachine
      <4> QED
        BY <1>2, <4>1
    <3>2. CASE new_partition_ready
      <4>1. state' = "idle" /\ cls_processed' = 0
        BY <2>5, <3>2 DEF Edge, Clock, StateMachine, Progress, NewPartition
      <4>2. LinesLoaded' = LinesLoaded
        BY <2>3, <3>1, <3>2, <4>1
      <4> QED
        BY <1>1, <3>1, <4>2, RspEdge DEF MapInv, Loaded
    <3>3. CASE ~new_partition_ready
      <4>1. state' = "waiting"
        BY <2>5, <3>3 DEF Edge, Clock, StateMachine
      <4>2. LinesLoaded' = LinesLoaded
        BY <2>3, <2>5, <3>3, <4>1
      <4> QED
        BY <1>1, <3>1, <4>2, RspEdge DEF MapInv, Loaded
    <3> QED
      BY <3>2, <3>3
  <2>6. CASE state \in {"idle", "req", "rsp"}
    <3>1. bit_map' = bit_map /\ cls_processed' = cls_processed /\ ~cl_processed
          /\ cl_processed' = cl_processed
      <4>1. bit_map' = bit_map
        BY <1>3, <2>6 DEF LookUp
      <4> QED
        BY <1>2, <2>6, <4>1 DEF Edge, Clock, Progress, LineProcessed
    <3>2. state' = "waiting" => cls_processed = BitMapCls
      <4>1. state' = "waiting" => state = "idle" /\ partition_processed
        BY <2>6 DEF Edge, Clock, StateMachine
      <4>2. state = "idle" /\ partition_processed => cls_processed = cls_to_process
        BY DEF CtrlInv
      <4> QED
        BY <2>1, <4>1, <4>2
    <3>3. LinesLoaded' = LinesLoaded
      BY <2>3, <2>4, <2>6, <3>1, <3>2
    <3> QED
      BY <1>1, <3>1, <3>3, RspEdge DEF MapInv, Loaded
  <2>7. CASE state = "processing" /\ ~cl_processed
    <3>1. /\ Fetched = <<0, cls_processed>> /\ cls_processed < BitMapCls
          /\ rsp_data = <<0, cls_processed>>
      BY <1>1, <2>1, <2>7, FetchedIs
    <3>2. cls_processed \in 0 .. MapLines - 1
      BY <1>2, <3>1, Constants
    <3>3. LinesLoaded = cls_processed
      BY <2>3, <2>4, <2>7
    <3>4. DOMAIN bit_map = 0 .. MapLines - 1
      BY <1>1 DEF Loaded
    <3>5. bit_map' = [bit_map EXCEPT ![cls_processed] = <<0, cls_processed>>]
      BY <2>1, <2>7, <3>1, <3>2, <3>4 DEF Edge, Clock, LoadBitMap, LookUp
    <3>6. state' = "processing" /\ cl_processed' = ~cl_processed /\ cls_processed' = cls_processed
      BY <2>7 DEF Edge, Clock, StateMachine, LineProcessed, Progress
    <3>7. LinesLoaded' = cls_processed + 1
      BY <2>3, <2>7, <3>6
    <3>8. bit_map' = Loaded(cls_processed + 1)
      BY <1>1, <3>2, <3>3, <3>5, LoadNext
    <3> QED
      BY <3>7, <3>8, RspEdge DEF MapInv, Loaded
  <2>8. CASE state = "processing" /\ cl_processed
    <3>1. bit_map' = bit_map
      BY <1>3, <2>8 DEF LookUp
    <3>2. state' = "idle" /\ cl_processed' = ~cl_processed /\ cls_processed' = cls_processed + 1
      BY <2>8 DEF Edge, Clock, StateMachine, LineProcessed, Progress, LineCounted
    <3>3. LinesLoaded' = LinesLoaded
      BY <2>3, <2>4, <2>8, <3>2
    <3> QED
      BY <1>1, <3>1, <3>3, RspEdge DEF MapInv, Loaded
  <2> QED
    BY <1>2, <2>5, <2>6, <2>7, <2>8
<1> QED
  BY <1>2, <1>5, <1>6, <1>7

-----------------------------------------------------------------------------
(* What a clock edge does to the results. *)

\* The state of the unit and of the bus, as every proof below starts from it.
Good == PipeInv /\ QueueInv /\ ParamInv /\ CountInv /\ CtrlInv /\ MapInv

\* Between its address and the result address a partition has a store under way.
LEMMA PendingIs ==
  ASSUME Good, Joining, Decoded = 9, csr_wr = None, ~ResultAddressPending
  PROVE  FALSE
<1>1. /\ Place(hpc) \in 0 .. 11 /\ Len(mmio) \in Nat /\ Arrived \in Int
      /\ Arrived = Place(hpc) - Len(mmio)
      /\ Seen = IF csr_rx # None THEN Arrived - 1 ELSE Arrived
      /\ Decoded = Seen
  BY StagesAre DEF Good
<1>2. /\ hpc # "result_address" /\ csr_rx # WriteCSR(RESULT_ADDRESS, part)
      /\ \A i \in 1 .. Len(mmio) : mmio[i] # WriteCSR(RESULT_ADDRESS, part)
  BY DEF ResultAddressPending, ToSet, Good, PipeInv
<1>3. Place(hpc) >= 10
  BY <1>2, PlaceIs DEF Joining, PartPC
<1>4. CASE csr_rx = None
  <2>1. Arrived = 9 /\ Len(mmio) >= 1
    BY <1>1, <1>3, <1>4
  <2>2. 1 \in 1 .. Len(mmio) /\ Arrived + 1 = 10
    BY <1>1, <2>1
  <2>3. mmio[1] = Prog(10)
    BY <2>2 DEF Good, PipeInv
  <2> QED
    BY <1>2, <2>2, <2>3, ProgIs
<1>5. CASE csr_rx # None
  <2>1. Arrived = 10
    BY <1>1, <1>5
  <2>2. csr_rx = Prog(10)
    BY <1>5, <2>1 DEF Good, PipeInv
  <2> QED
    BY <1>2, <2>2, ProgIs
<1> QED
  BY <1>4, <1>5

LEMMA UnitDataEdge ==
  ASSUME Good, UnitData, Advance, Good', ~early', kept', NEW rx, NEW full, Edge(rx, full)
  PROVE  UnitData'
<1> USE DEF Good
<1>1. /\ {cl_received, cl_processed} \subseteq BOOLEAN
      /\ (cl_processed => state = "processing") /\ (cl_processed' => state' = "processing")
      /\ cls_processed \in Nat
  BY Constants DEF CtrlInv, CountInv
<1>2. /\ kept /\ ~Dropped
      /\ IsRsp(rx) => ~ResultAddressPending
  BY DeliveredIs DEF Edge
<1>3. ASSUME Joining'
      PROVE  Joining \/ (~Loading /\ state = "waiting" /\ state' # "processing" /\ ~cl_received')
  <2>1. Loading => Joining
    BY <1>3, KeepsWork
  <2>2. ~Joining => state = "waiting"
    BY <2>1 DEF CtrlInv
  <2>3. state = "waiting" => state' # "processing" /\ ~cl_received'
    <3>1. state = "waiting" => state' # "processing" /\ cl_received' = cl_received
      BY DEF Edge, Clock, StateMachine, ReadResponse
    <3> QED
      BY <3>1 DEF CtrlInv
  <2> QED
    BY <2>1, <2>2, <2>3
<1>4. ASSUME Joining', state' = "processing" \/ cl_received'
      PROVE  Decoded' >= 10
  <2>1. Joining
    BY <1>3, <1>4
  <2>2. Decoded \in {9, 10, 11} /\ Decoded' >= Decoded /\ Decoded' \in Int
    BY <2>1, WorkIs DEF Advance
  <2>3. CASE state = "processing" \/ cl_received
    BY <2>1, <2>2, <2>3 DEF UnitData
  <2>4. CASE ~(state = "processing" \/ cl_received)
    <3>1. state' # "processing"
      BY <2>4 DEF Edge, Clock, StateMachine
    <3>2. IsRsp(rx)
      BY <1>4, <2>4, <3>1 DEF Edge, Clock, ReadResponse, IsRsp
    <3>3. CASE csr_wr # None
      BY <2>2, <3>3, StoreIs
    <3>4. CASE csr_wr = None
      BY <1>2, <2>1, <2>2, <3>2, <3>4, PendingIs
    <3> QED
      BY <3>3, <3>4
  <2> QED
    BY <2>3, <2>4
<1>5. ASSUME Joining', cl_processed'
      PROVE  bit_result' = [keys |-> Fetched', map |-> LoadedMap]
  <2>1. Joining
    BY <1>1, <1>3, <1>5
  <2>2. LookUp
    <3>1. cl_processed' = IF state = "processing" THEN ~cl_processed ELSE cl_processed
      BY DEF Edge, Clock, LineProcessed
    <3> QED
      BY <1>1, <1>5, <3>1 DEF LookUp
  <2>3. bit_result' = [keys |-> rsp_data, map |-> bit_map]
    BY <2>1, <2>2, WorkIs DEF Edge, Clock, Join
  <2>4. rsp_data = Fetched /\ bit_map = LoadedMap
    BY <2>1, <2>2 DEF MapInv, LookUp, LinesLoaded, Joining, JoinPC, Loaded, LoadedMap
  <2>5. Fetched' = Fetched
    <3>1. cl_address' = cl_address
      BY <2>1, KeepsWork
    <3>2. cls_processed' = cls_processed
      BY <2>2 DEF Edge, Clock, Progress, LookUp
    <3> QED
      BY <3>1, <3>2 DEF Fetched, LineOf
  <2> QED
    BY <2>3, <2>4, <2>5
<1>6. ASSUME c1' # None
      PROVE  cls_processed' >= 1 /\ c1' = RightWrite(cls_processed - 1)'
  <2>1. Offered /\ c1' = [line |-> LineOf(result_address), bits |-> bit_result]
    BY <1>6 DEF Edge, Clock, WriteRequest
  <2>2. Joining
    <3>1. Loading \/ Joining
      BY <2>1 DEF Offered, CtrlInv
    <3> QED
      BY <2>1, <3>1, WorkIs DEF Offered
  <2>3. cls_processed' = cls_processed + 1
    BY <2>1 DEF Offered, Edge, Clock, Progress, LineCounted
  <2>4. result_address = part
    BY <2>1, <2>2 DEF Offered, UnitData, ParamInv
  <2>5. bit_result = [keys |-> <<part + 1, cls_processed>>, map |-> LoadedMap]
    BY <2>1, <2>2, WorkIs, FetchedIs DEF Offered, UnitData
  <2>6. c1' = RightWrite(cls_processed)
    BY <2>1, <2>4, <2>5 DEF RightWrite, Joined, LineOf
  <2>7. part' = part /\ cls_processed' - 1 = cls_processed /\ cls_processed' >= 1
    <3>1. cls_processed \in Int /\ cls_processed >= 0
      BY <1>1
    <3>2. part' = part
      BY <2>2, KeepsWork
    <3> QED
      BY <2>3, <3>1, <3>2
  <2>8. RightWrite(cls_processed - 1)' = RightWrite(cls_processed)
    BY <2>7 DEF RightWrite, Joined
  <2> QED
    BY <2>6, <2>7, <2>8
<1> QED
  BY <1>4, <1>5, <1>6 DEF UnitData

\* The lines that are done, and the line that an edge adds to them.
LEMMA LinesDoneEdge ==
  ASSUME Good, Advance, Good', NEW rx, NEW full, Edge(rx, full)
  PROVE  /\ LinesDone \in 0 .. PageLines
         /\ \/ LinesDone' = LinesDone
            \/ Offered /\ Joining /\ LinesDone = cls_processed /\ LinesDone' = LinesDone + 1
<1> USE DEF Good
<1>1. /\ PageLines \in Nat /\ cls_processed \in 0 .. PageLines
      /\ state \in {"waiting", "idle", "req", "rsp", "processing"}
      /\ {cl_processed, new_partition_ready} \subseteq BOOLEAN
      /\ state # "waiting" => ~new_partition_ready /\ (Loading \/ Joining)
  BY Constants DEF CountInv, CtrlInv
<1>2. LinesDone \in 0 .. PageLines
  BY <1>1 DEF LinesDone
<1>3. CASE ~Joining
  <2>1. Joining' => new_partition_ready'
    <3>1. Joining' => ~Loading
      BY <1>3, KeepsWork
    <3>2. Joining' => Written(COLUMN_ADDRESS) /\ isActive
      BY <1>3, <3>1, StartsWork
    <3> QED
      BY <3>2, ReadyIs
  <2>2. LinesDone = 0 /\ LinesDone' = 0
    BY <1>3, <2>1 DEF LinesDone
  <2> QED
    BY <1>2, <2>2
<1>4. CASE Joining
  <2>1. /\ Joining' /\ new_partition_ready' = FALSE /\ cls_to_process = PageLines /\ bitmap_ready
    BY <1>4, KeepsWork, WorkIs
  <2>2. /\ LinesDone = IF new_partition_ready THEN 0 ELSE IF state = "waiting" THEN PageLines
                       ELSE cls_processed
        /\ LinesDone' = IF state' = "waiting" THEN PageLines ELSE cls_processed'
    BY <1>4, <2>1 DEF LinesDone, LineNo
  <2>3. CASE state = "waiting" /\ new_partition_ready
    <3>1. state' = "idle" /\ cls_processed' = 0
      BY <2>3 DEF Edge, Clock, StateMachine, Progress, NewPartition
    <3> QED
      BY <1>2, <2>2, <2>3, <3>1
  <2>4. CASE state = "waiting" /\ ~new_partition_ready
    <3>1. state' = "waiting"
      BY <2>4 DEF Edge, Clock, StateMachine
    <3> QED
      BY <1>2, <2>2, <2>4, <3>1
  <2>5. CASE state \in {"idle", "req", "rsp"} \/ (state = "processing" /\ ~cl_processed)
    <3>1. cls_processed' = cls_processed
      BY <2>5 DEF Edge, Clock, Progress
    <3>2. state' = "waiting" => cls_processed = PageLines
      <4>1. state' = "waiting" => state = "idle" /\ partition_processed
        BY <2>5 DEF Edge, Clock, StateMachine
      <4>2. state = "idle" /\ partition_processed => cls_processed = cls_to_process
        BY DEF CtrlInv
      <4> QED
        BY <2>1, <4>1, <4>2
    <3>3. state # "waiting"
      BY <2>5
    <3> QED
      BY <1>1, <1>2, <2>2, <3>1, <3>2, <3>3
  <2>6. CASE state = "processing" /\ cl_processed
    <3>1. cls_processed' = cls_processed + 1 /\ state' = "idle"
      BY <2>6 DEF Edge, Clock, Progress, LineCounted, StateMachine
    <3>2. Offered
      BY <2>1, <2>6 DEF Offered
    <3> QED
      BY <1>1, <1>2, <1>4, <2>2, <2>6, <3>1, <3>2
  <2> QED
    BY <1>1, <2>3, <2>4, <2>5, <2>6
<1> QED
  BY <1>2, <1>3, <1>4

\* Every line that is done is in memory or on its way.
LEMMA WritesEdge ==
  ASSUME Good, UnitData, WritesInv, Advance, Good', UnitData', ~early', kept',
         NEW rx, NEW full, Edge(rx, full)
  PROVE  WritesInv'
<1> USE DEF Good
<1>1. /\ UNCHANGED <<memory, part>> /\ ~Dropped
      /\ writing' = IF Bus.c1 # None THEN writing \cup {Bus.c1} ELSE writing
  BY DEF Edge, Ports, hostVars
<1>2. Bus.c1 = c1 /\ (c1 # None => state = "idle" /\ Joining)
  <2>1. c1 # None => state = "idle" /\ Joining
    BY DEF CtrlInv
  <2>2. CASE Loading \/ Joining
    BY <2>1, <2>2, WorkIs
  <2>3. CASE ~(Loading \/ Joining)
    <3>1. c1 = None /\ query_state \in {SCAN_PROCESSING, JOIN_PROCESSING}
      BY <2>1, <2>3, ParamsAre
    <3> QED
      BY <2>1, <3>1 DEF Bus, SCAN_PROCESSING, JOIN_PROCESSING
  <2> QED
    BY <2>2, <2>3
<1>3. \A l : RightWrite(l)' = RightWrite(l) /\ Joined(part, l)' = Joined(part, l)
  BY <1>1 DEF RightWrite, Joined
<1>4. /\ LinesDone \in 0 .. PageLines /\ PageLines \in Nat
      /\ \/ LinesDone' = LinesDone
         \/ Offered /\ Joining /\ LinesDone = cls_processed /\ LinesDone' = LinesDone + 1
  BY LinesDoneEdge, Constants
<1>5. \A l \in 0 .. LinesDone - 1 : l \in 0 .. LinesDone' - 1
  BY <1>4
<1>6. writing' \subseteq {RightWrite(l) : l \in 0 .. LinesDone' - 1}
  <2>1. writing \subseteq {RightWrite(l) : l \in 0 .. LinesDone' - 1}
    BY <1>5 DEF WritesInv
  <2>2. c1 # None => c1 \in {RightWrite(l) : l \in 0 .. LinesDone' - 1}
    <3> SUFFICES ASSUME c1 # None PROVE c1 \in {RightWrite(l) : l \in 0 .. LinesDone' - 1}
      OBVIOUS
    <3>1. cls_processed >= 1 /\ c1 = RightWrite(cls_processed - 1) /\ cls_processed \in Int
      BY DEF UnitData, CountInv
    <3>2. LinesDone = cls_processed
      BY <1>2 DEF LinesDone, CtrlInv
    <3>3. cls_processed - 1 \in 0 .. LinesDone - 1
      BY <3>1, <3>2
    <3> QED
      BY <1>5, <3>1, <3>3
  <2> QED
    BY <1>1, <1>2, <2>1, <2>2
<1>7. ASSUME NEW l \in 0 .. LinesDone' - 1
      PROVE  memory'[<<part, l>>] = Joined(part, l) \/ RightWrite(l) \in writing' \cup {c1'}
  <2>1. CASE l \in 0 .. LinesDone - 1
    <3>1. memory[<<part, l>>] = Joined(part, l) \/ RightWrite(l) \in writing \cup {c1}
      BY <2>1 DEF WritesInv
    <3>2. RightWrite(l) # None
      <4>1. part \in 0 .. Partitions /\ l \in LineNo
        BY <1>4, <2>1, Constants DEF LineNo, QueueInv, PartId
      <4> QED
        BY <4>1, Present DEF RightWrite
    <3> QED
      BY <1>1, <1>2, <3>1, <3>2
  <2>2. CASE l \notin 0 .. LinesDone - 1
    <3>1. Offered /\ Joining /\ l = cls_processed
      BY <1>4, <2>2
    <3>2. c1' = [line |-> <<result_address, cls_processed>>, bits |-> bit_result]
      BY <1>1, <3>1 DEF Edge, Clock, WriteRequest, Dropped, LineOf
    <3>3. result_address = part
      BY <3>1 DEF Offered, UnitData, ParamInv
    <3>4. bit_result = [keys |-> <<part + 1, cls_processed>>, map |-> LoadedMap]
      BY <3>1, WorkIs, FetchedIs DEF Offered, UnitData
    <3> QED
      BY <3>1, <3>2, <3>3, <3>4 DEF RightWrite, Joined
  <2> QED
    BY <2>1, <2>2
<1>8. DOMAIN memory = PartId \X LineNo
  BY DEF WritesInv
<1> QED
  BY <1>1, <1>3, <1>6, <1>7, <1>8 DEF WritesInv

LEMMA DataEdge ==
  ASSUME Good, DataInv, Advance, Good', ~early', kept', kept, ~early,
         NEW rx, NEW full, Edge(rx, full)
  PROVE  DataInv'
<1>1. UNCHANGED <<hpc, queue, result, memory>>
  BY DEF Advance, hostVars, Edge, Ports
<1>2. UnitData'
  BY UnitDataEdge DEF DataInv
<1>3. WritesInv'
  BY <1>2, WritesEdge DEF DataInv
<1>4. FinishedInv'
  BY <1>1 DEF DataInv, FinishedInv, Finished, Joined
<1>5. JoinComplete'
  BY <1>1 DEF DataInv, JoinComplete, Joined
<1> QED
  BY <1>2, <1>3, <1>4, <1>5 DEF DataInv

\* An edge of the clock keeps what the properties rest on.
LEMMA EdgeKeeps ==
  ASSUME IInv, NEW full,
         Tick(full) \/ TickRequest(full) \/ \E line \in reading : TickResponse(line, full)
  PROVE  IInv'
<1>1. PICK rx : Edge(rx, full)
  <2>1. kept \in BOOLEAN
    BY DEF IInv, PipeInv
  <2> QED
    BY <2>1, EdgeIs
<1>2. PipeInv' /\ QueueInv' /\ Advance
  BY <1>1, PipeEdge DEF IInv
<1>3. ParamInv'
  BY <1>1, <1>2, ParamEdge DEF IInv
<1>4. CountInv'
  BY <1>1, <1>2, <1>3, CountEdge DEF IInv
<1>5. (~early' => ~early) /\ (kept' => kept)
  BY <1>1 DEF Edge, Ports
<1>6. ASSUME ~early'
      PROVE  CtrlInv' /\ MapInv'
  <2>1. CtrlInv'
    BY <1>1, <1>2, <1>3, <1>4, <1>5, <1>6, CtrlEdge DEF IInv
  <2> QED
    BY <1>1, <1>2, <1>3, <1>4, <1>5, <1>6, <2>1, MapEdge DEF IInv
<1>7. ASSUME ~early', kept'
      PROVE  DataInv'
  <2>1. Good /\ DataInv
    BY <1>5, <1>7 DEF IInv, Good
  <2>2. Good'
    BY <1>2, <1>3, <1>4, <1>6, <1>7 DEF Good
  <2> QED
    BY <1>1, <1>2, <1>5, <1>7, <2>1, <2>2, DataEdge
<1> QED
  BY <1>2, <1>3, <1>4, <1>6, <1>7 DEF IInv

-----------------------------------------------------------------------------
(* The other steps of the platform, and the initial states. *)

LEMMA InitInv == JoinInit => IInv
<1> SUFFICES ASSUME JoinInit PROVE IInv
  OBVIOUS
<1>0. /\ csr_rx = None /\ csr_wr = None /\ c2 = None /\ query_state = SCAN_PROCESSING
      /\ new_partition_ready = FALSE /\ cls_to_process = 0 /\ reading_bitmap = FALSE
      /\ bitmap_ready \in BOOLEAN /\ partition_processed = bitmap_ready
      /\ state = "waiting" /\ cl_req_allowed = ~bitmap_ready
      /\ cl_req_issued = FALSE /\ cl_received = FALSE /\ cl_processed = FALSE /\ cls_processed = 0
      /\ bit_map = [i \in 0 .. MapLines - 1 |-> None] /\ c0 = None /\ c1 = None
      /\ hpc = "notify" /\ part = 0 /\ queue = WorkItems /\ mmio = <<>> /\ gap = 0
      /\ answer = None /\ reading = {} /\ writing = {}
      /\ memory = [l \in PartId \X LineNo |-> None]
      /\ kept = TRUE /\ early = FALSE /\ result = None
  BY DEF JoinInit, AfuInit
<1>1. /\ Arrived = 0 /\ Seen = 0 /\ Decoded = 0 /\ Len(mmio) = 0 /\ hpc \in LoadPC
      /\ hpc \notin JoinPC /\ hpc \notin PartPC
  <2>1. Len(mmio) = 0
    BY <1>0
  <2>2. Arrived = 0
    BY <1>0, <2>1, PlaceIs DEF Arrived
  <2>3. Seen = 0
    BY <1>0, <2>2 DEF Seen, One
  <2>4. Decoded = 0
    BY <1>0, <2>3 DEF Decoded, One
  <2> QED
    BY <1>0, <2>1, <2>2, <2>3, <2>4 DEF LoadPC, JoinPC, PartPC
<1>2. ~Loading /\ ~Joining /\ TRUE # None
  <2>1. ~(Decoded >= 5) /\ ~(Decoded >= 9)
    BY <1>1
  <2>2. TRUE # None
    BY NoneAssumption
  <2> QED
    BY <2>1, <2>2, Zenon DEF Loading, Joining
<1>3. PipeInv
  <2>1. 0 \in 0 .. MinGap - 1 /\ <<>> \in Seq(Request)
    BY Constants
  <2>2. /\ mmio = <<>> /\ gap = 0 /\ csr_rx = None /\ csr_wr = None /\ c2 = None /\ answer = None
        /\ {kept, early} \subseteq BOOLEAN
    BY <1>0
  <2>3. {c2, answer} \subseteq BOOLEAN \cup {None}
    BY <2>2
  <2>4. Decoded >= 0 /\ hpc \in LoadPC /\ hpc \notin JoinPC /\ Len(mmio) = 0
    BY <1>1
  <2> QED
    BY <2>1, <2>2, <2>3, <2>4 DEF PipeInv
<1>4. Partitions \in Nat \ {0} /\ PageLines \in Nat
  BY Constants
<1>5. Len(queue) = Partitions /\ queue \in Seq(Nat)
      /\ \A i \in 1 .. Partitions : queue[i] = i - 1
  BY <1>0, <1>4 DEF WorkItems
<1>6. QueueInv
  <2>1. \A i \in 1 .. Len(queue) : queue[i] = Partitions - Len(queue) + i - 1
    BY <1>4, <1>5
  <2>2. part \in PartId
    BY <1>0, <1>4 DEF PartId
  <2> QED
    BY <1>0, <1>1, <1>4, <1>5, <2>1, <2>2 DEF QueueInv, PartPC
<1>7. ParamInv
  <2>1. Decoded = 0 /\ reading_bitmap \in BOOLEAN /\ ~reading_bitmap /\ bitmap_ready \in BOOLEAN
    BY <1>0, <1>1
  <2> QED
    BY <1>0, <2>1 DEF ParamInv
<1>8. CountInv
  <2>1. {new_partition_ready, cl_req_allowed, cl_req_issued, cl_received, cl_processed,
         partition_processed} \subseteq BOOLEAN
    BY <1>0
  <2>2. cls_processed \in 0 .. PageLines
    BY <1>0, <1>4
  <2>3. ~new_partition_ready /\ state = "waiting"
    BY <1>0
  <2>4. {c0} \cup reading \subseteq {None}
    BY <1>0
  <2> QED
    BY <2>1, <2>2, <2>3, <2>4 DEF CountInv
<1>9. CtrlInv
  BY <1>0, <1>2 DEF CtrlInv
<1>10. MapInv
  <2>1. LinesLoaded = 0
    BY <1>1, <1>2 DEF LinesLoaded
  <2>2. Loaded(0) = [i \in 0 .. MapLines - 1 |-> None]
    BY Constants DEF Loaded
  <2> QED
    BY <1>0, <2>1, <2>2 DEF MapInv
<1>11. DataInv
  <2>1. LinesDone = 0
    BY <1>2 DEF LinesDone
  <2>2. Finished = 0
    <3>1. Finished = Partitions - Len(queue) - 0
      BY <1>1 DEF Finished, One
    <3> QED
      BY <1>4, <1>5, <3>1
  <2>3. UnitData
    BY <1>0, <1>2 DEF UnitData
  <2>4. WritesInv
    BY <1>0, <2>1 DEF WritesInv
  <2>5. FinishedInv
    BY <2>2 DEF FinishedInv
  <2>6. JoinComplete
    BY <1>0 DEF JoinComplete
  <2> QED
    BY <2>3, <2>4, <2>5, <2>6 DEF DataInv
<1> QED
  BY <1>3, <1>6, <1>7, <1>8, <1>9, <1>10, <1>11 DEF IInv

\* What does not look at memory is kept by a step that changes memory only.
LEMMA SameControl ==
  ASSUME IInv, UNCHANGED <<afuVars, hostVars, mmio, gap, answer, reading, kept, early>>
  PROVE  /\ PipeInv' /\ QueueInv' /\ ParamInv' /\ CountInv'
         /\ ~early => CtrlInv' /\ MapInv'
         /\ LinesDone' = LinesDone /\ Finished' = Finished
         /\ ~early /\ kept /\ UnitData => UnitData'
         /\ \A p, l : RightWrite(l)' = RightWrite(l) /\ Joined(p, l)' = Joined(p, l)
<1> USE DEF afuVars, hostVars, params
<1>1. Arrived' = Arrived
  BY DEF Arrived, Place
<1>2. Seen' = Seen
  BY <1>1 DEF Seen
<1>3. Decoded' = Decoded
  BY <1>2 DEF Decoded
<1>4. (PipeEmpty' <=> PipeEmpty) /\ (Loading' <=> Loading) /\ (Joining' <=> Joining)
      /\ Fetched' = Fetched /\ (\A i : Prog(i)' = Prog(i))
  <2>1. \A i : Prog(i)' = Prog(i)
    BY SameProg
  <2>2. Fetched' = Fetched
    BY DEF Fetched, LineOf
  <2> QED
    BY <1>3, <2>1, <2>2 DEF PipeEmpty, Loading, Joining
<1>5. PipeInv'
  BY <1>1, <1>2, <1>3, <1>4 DEF IInv, PipeInv
<1>6. QueueInv'
  BY <1>4 DEF IInv, QueueInv
<1>7. ParamInv'
  BY <1>3 DEF IInv, ParamInv
<1>8. CountInv'
  BY <1>3 DEF IInv, CountInv
<1>9. CtrlInv => CtrlInv'
  BY <1>4 DEF CtrlInv
<1>10. MapInv => MapInv'
  BY <1>4 DEF MapInv, LinesLoaded, Loaded
<1>11. LinesDone' = LinesDone /\ Finished' = Finished
  BY <1>4 DEF LinesDone, Finished
<1>12. \A p, l : RightWrite(l)' = RightWrite(l) /\ Joined(p, l)' = Joined(p, l)
  BY DEF RightWrite, Joined
<1>13. UnitData => UnitData'
  BY <1>3, <1>4, <1>12 DEF UnitData, RightWrite, Joined
<1> QED
  BY <1>5, <1>6, <1>7, <1>8, <1>9, <1>10, <1>11, <1>12, <1>13 DEF IInv

LEMMA StutterKeeps == ASSUME IInv, UNCHANGED vars PROVE IInv'
<1>1. UNCHANGED <<afuVars, hostVars, mmio, gap, answer, reading, kept, early>>
      /\ UNCHANGED <<memory, writing, c1, part, queue, hpc, result>>
  BY DEF vars, hostVars, busVars, afuVars
<1>2. /\ PipeInv' /\ QueueInv' /\ ParamInv' /\ CountInv'
      /\ ~early => CtrlInv' /\ MapInv'
      /\ LinesDone' = LinesDone /\ Finished' = Finished
      /\ ~early /\ kept /\ UnitData => UnitData'
      /\ \A p, l : RightWrite(l)' = RightWrite(l) /\ Joined(p, l)' = Joined(p, l)
  BY <1>1, SameControl
<1>3. WritesInv => WritesInv'
  BY <1>1, <1>2 DEF WritesInv, RightWrite, Joined
<1>4. FinishedInv => FinishedInv'
  BY <1>1, <1>2 DEF FinishedInv
<1>5. JoinComplete => JoinComplete'
  BY <1>1, <1>2 DEF JoinComplete
<1> QED
  BY <1>1, <1>2, <1>3, <1>4, <1>5 DEF IInv, DataInv

\* A write reaches memory: where the result line belongs.
LEMMA LandsKeeps ==
  ASSUME IInv, NEW w \in writing, WriteLands(w)
  PROVE  IInv'
<1>1. /\ UNCHANGED <<afuVars, hostVars, mmio, gap, answer, reading, kept, early>>
      /\ UNCHANGED <<c1, part, queue, hpc, result>>
      /\ writing' = writing \ {w}
      /\ memory' = [l \in DOMAIN memory |-> IF l = w.line THEN w.bits ELSE memory[l]]
  BY DEF WriteLands, afuVars, hostVars
<1>2. /\ PipeInv' /\ QueueInv' /\ ParamInv' /\ CountInv'
      /\ ~early => CtrlInv' /\ MapInv'
      /\ LinesDone' = LinesDone /\ Finished' = Finished
      /\ ~early /\ kept /\ UnitData => UnitData'
      /\ \A p, l : RightWrite(l)' = RightWrite(l) /\ Joined(p, l)' = Joined(p, l)
  BY <1>1, SameControl
<1> SUFFICES ASSUME ~early, kept PROVE UnitData' /\ WritesInv' /\ FinishedInv' /\ JoinComplete'
  BY <1>1, <1>2 DEF IInv, DataInv
<1>3. UnitData'
  BY <1>2 DEF IInv, DataInv
<1>4. JoinComplete'
  BY <1>1, <1>2 DEF IInv, DataInv, JoinComplete
<1>5. PICK l0 \in 0 .. LinesDone - 1 : w = RightWrite(l0)
  BY DEF IInv, DataInv, WritesInv
<1>6. w.line = <<part, l0>> /\ w.bits = Joined(part, l0)
  BY <1>5 DEF RightWrite
<1>7. /\ DOMAIN memory = PartId \X LineNo /\ DOMAIN memory' = DOMAIN memory
      /\ \A x \in PartId \X LineNo :
           memory'[x] = IF x = <<part, l0>> THEN Joined(part, l0) ELSE memory[x]
  <2>1. DOMAIN memory = PartId \X LineNo
    BY DEF IInv, DataInv, WritesInv
  <2> QED
    BY <1>1, <1>6, <2>1
<1>8. /\ LinesDone \in 0 .. PageLines /\ PageLines \in Nat /\ part \in PartId
      /\ \A l \in 0 .. LinesDone - 1 : l \in LineNo
  <2>1. LinesDone \in 0 .. PageLines /\ PageLines \in Nat /\ part \in PartId
    BY Constants DEF IInv, CountInv, QueueInv, LinesDone
  <2> QED
    BY <2>1 DEF LineNo
<1>9. WritesInv'
  <2>1. ASSUME NEW l \in 0 .. LinesDone - 1
        PROVE  memory'[<<part, l>>] = Joined(part, l) \/ RightWrite(l) \in writing' \cup {c1}
    <3>1. <<part, l>> \in PartId \X LineNo
      BY <1>8
    <3>2. memory[<<part, l>>] = Joined(part, l) \/ RightWrite(l) \in writing \cup {c1}
      BY DEF IInv, DataInv, WritesInv
    <3>3. CASE l = l0
      BY <1>7, <3>1, <3>3
    <3>4. CASE l # l0
      <4>1. RightWrite(l) # w
        BY <1>5, <3>4 DEF RightWrite
      <4> QED
        BY <1>1, <1>7, <3>1, <3>2, <3>4, <4>1
    <3> QED
      BY <3>3, <3>4
  <2>2. writing' \subseteq {RightWrite(l) : l \in 0 .. LinesDone - 1}
    BY <1>1 DEF IInv, DataInv, WritesInv
  <2> QED
    BY <1>1, <1>2, <1>7, <2>1, <2>2 DEF WritesInv
<1>10. FinishedInv'
  <2> SUFFICES ASSUME NEW p \in 0 .. Finished - 1, NEW l \in LineNo
               PROVE  memory'[<<p, l>>] = Joined(p, l)
    BY <1>2 DEF FinishedInv
  <2>1. memory[<<p, l>>] = Joined(p, l)
    BY DEF IInv, DataInv, FinishedInv
  <2>2. Joining
    <3>1. LinesDone # 0
      BY <1>8
    <3> QED
      BY <3>1 DEF LinesDone
  <2>3. Finished = part /\ part \in PartId
    <3>1. /\ part = Partitions - Len(queue) - 1 /\ part \in PartId
          /\ Len(queue) \in Nat /\ Partitions \in Nat
      BY <2>2, Constants DEF Joining, IInv, QueueInv
    <3>2. Finished = Partitions - Len(queue) - 1
      BY <2>2 DEF Finished, One, Joining
    <3> QED
      BY <3>1, <3>2
  <2>4. p \in PartId /\ p # part
    <3>1. part \in 0 .. Partitions - 1 /\ Partitions \in Nat /\ p \in 0 .. part - 1
      BY <2>3, Constants DEF PartId
    <3> QED
      BY <3>1 DEF PartId
  <2> QED
    BY <1>7, <2>1, <2>4
<1> QED
  BY <1>3, <1>4, <1>9, <1>10

-----------------------------------------------------------------------------
(* The host's steps. *)

LEMMA AppendIs ==
  ASSUME NEW S, NEW q \in Seq(S), NEW e \in S
  PROVE  /\ Append(q, e) \in Seq(S) /\ Len(Append(q, e)) = Len(q) + 1 /\ Len(q) \in Nat
         /\ \A i \in 1 .. Len(q) : Append(q, e)[i] = q[i]
         /\ Append(q, e)[Len(q) + 1] = e
OBVIOUS

\* One access more is on its way to the unit.
LEMMA AppendPipe ==
  ASSUME PipeInv, NEW req \in Request, mmio' = Append(mmio, req),
         UNCHANGED <<csr_rx, csr_wr, c2, gap, answer, kept, early>>,
         hpc \notin {"answer_bitmap", "answer"}, hpc' \in LoadPC \cup JoinPC,
         hpc' \in JoinPC => hpc \in JoinPC, Place(hpc)' = Place(hpc) + 1,
         \A i \in 1 .. Place(hpc) : Prog(i)' = Prog(i),
         \A i : i = Place(hpc) + 1 => Prog(i)' = req
  PROVE  PipeInv' /\ Decoded' = Decoded
<1>1. /\ Place(hpc) \in 0 .. 11 /\ Len(mmio) \in Nat /\ Arrived \in Int /\ Seen \in Int
      /\ Arrived = Place(hpc) - Len(mmio) /\ Arrived >= 0
      /\ csr_rx # None => Arrived \in 1 .. 11
      /\ csr_wr # None => Seen \in 1 .. 11
      /\ Seen = IF csr_rx # None THEN Arrived - 1 ELSE Arrived
  BY StagesAre
<1>2. /\ mmio' \in Seq(Request) /\ Len(mmio') = Len(mmio) + 1
      /\ \A i \in 1 .. Len(mmio) : mmio'[i] = mmio[i]
      /\ mmio'[Len(mmio) + 1] = req
  BY AppendIs DEF PipeInv
<1>3. Arrived' = Arrived
  <2>1. Arrived' = Place(hpc)' - Len(mmio')
    BY DEF Arrived
  <2>2. Place(hpc)' = Place(hpc) + 1 /\ Len(mmio') = Len(mmio) + 1
    BY <1>2
  <2>3. Arrived = Place(hpc) - Len(mmio) /\ Place(hpc) \in Int /\ Len(mmio) \in Int
    BY <1>1
  <2>4. \A a, b \in Int : (a + 1) - (b + 1) = a - b
    OBVIOUS
  <2> QED
    BY <2>1, <2>2, <2>3, <2>4
<1>4. Seen' = Seen
  BY <1>3 DEF Seen
<1>5. Decoded' = Decoded
  BY <1>4 DEF Decoded
<1>12. \A i \in 1 .. Len(mmio) : Arrived + i \in 1 .. Place(hpc)
  <2>1. /\ Place(hpc) \in Int /\ Len(mmio) \in Int /\ Arrived \in Int /\ Arrived >= 0
        /\ Arrived = Place(hpc) - Len(mmio)
    BY <1>1
  <2> QED
    BY <2>1
<1>13. \A i : i = Len(mmio) + 1 => Arrived' + i = Place(hpc) + 1
  <2>1. /\ Place(hpc) \in Int /\ Len(mmio) \in Int /\ Arrived' = Place(hpc) - Len(mmio)
    BY <1>1, <1>3
  <2> QED
    BY <2>1
<1>14. csr_wr # None => Seen \in 1 .. Place(hpc)
  <2>1. /\ Place(hpc) \in Int /\ Len(mmio) \in Nat /\ Arrived = Place(hpc) - Len(mmio)
        /\ Seen <= Arrived /\ Seen \in Int /\ (csr_wr # None => Seen >= 1)
    BY <1>1
  <2> QED
    BY <2>1
<1>6. c2 = None /\ answer = None
  BY DEF PipeInv
<1>7. ASSUME NEW i \in 1 .. Len(mmio')
      PROVE  mmio'[i] = Prog(Arrived + i)'
  <2>1. CASE i \in 1 .. Len(mmio)
    <3>1. Arrived + i \in 1 .. Place(hpc)
      BY <1>12, <2>1
    <3>2. mmio[i] = Prog(Arrived + i)
      BY <2>1 DEF PipeInv
    <3>3. Prog(Arrived + i)' = mmio[i]
      <4>1. \A j \in 1 .. Place(hpc) : j = Arrived + i => Prog(j)' = mmio[i]
        BY <3>2
      <4>2. PICK j \in 1 .. Place(hpc) : j = Arrived + i
        BY <3>1
      <4> QED
        BY <1>3, <4>1, <4>2
    <3> QED
      BY <1>2, <2>1, <3>3
  <2>2. CASE i \notin 1 .. Len(mmio)
    <3>1. i = Len(mmio) + 1
      BY <1>1, <1>2, <2>2
    <3>2. Arrived' + i = Place(hpc) + 1
      BY <1>13, <3>1
    <3> QED
      BY <1>2, <1>3, <3>1, <3>2
  <2> QED
    BY <2>1, <2>2
<1>8. csr_rx # None => csr_rx = Prog(Arrived)'
  <2> SUFFICES ASSUME csr_rx # None PROVE csr_rx = Prog(Arrived)'
    OBVIOUS
  <2>1. csr_rx = Prog(Arrived)
    BY DEF PipeInv
  <2>2. Arrived \in 1 .. Place(hpc)
    <3>1. Arrived >= 1 /\ Arrived \in Int /\ Place(hpc) \in Int
      BY <1>1
    <3>2. Len(mmio) >= 0 /\ Arrived = Place(hpc) - Len(mmio)
      BY <1>1
    <3> QED
      BY <3>1, <3>2
  <2> QED
    BY <1>3, <2>1, <2>2
<1>9. csr_wr # None => csr_wr = Prog(Seen)' /\ csr_wr.op = "write"
  <2> SUFFICES ASSUME csr_wr # None PROVE csr_wr = Prog(Seen)' /\ csr_wr.op = "write"
    OBVIOUS
  <2>1. Seen \in 1 .. Place(hpc) /\ csr_wr = Prog(Seen) /\ csr_wr.op = "write"
    BY <1>14 DEF PipeInv
  <2> QED
    BY <1>4, <2>1
<1>10. Decoded' >= 0 /\ (hpc' \in JoinPC => Decoded' >= 6)
  BY <1>5 DEF PipeInv
<1>11. {c2', answer'} \subseteq BOOLEAN \cup {None} /\ gap' \in 0 .. MinGap - 1
       /\ {kept', early'} \subseteq BOOLEAN
  BY DEF PipeInv
<1> QED
  BY <1>2, <1>3, <1>4, <1>5, <1>6, <1>7, <1>8, <1>9, <1>10, <1>11 DEF PipeInv

\* The host goes on and still waits for the same page, or for none.
LEMMA QuietHost ==
  ASSUME IInv, PipeInv', QueueInv',
         UNCHANGED <<afuVars, queue, part, reading, writing, memory, result, early>>,
         Decoded' = Decoded \/ (Decoded \in {6, 11} /\ Decoded' = Decoded - 1),
         hpc' \in LoadPC <=> hpc \in LoadPC, hpc' \in PartPC <=> hpc \in PartPC,
         hpc' \in JoinPC <=> hpc \in JoinPC, hpc # "done", hpc' # "done",
         kept' => kept, answer' = TRUE => answer = TRUE
  PROVE  IInv'
<1> USE DEF afuVars, params
<1>1. Decoded \in 0 .. 11 /\ Decoded' \in 0 .. 11
      /\ (Decoded \in {6, 11} /\ Decoded' = Decoded - 1 => Decoded' \in {5, 10})
  BY ParamsAre DEF IInv
<1>2. (Loading' <=> Loading) /\ (Joining' <=> Joining)
  BY <1>1 DEF Loading, Joining
<1>3. ParamInv'
  <2>1. CASE Decoded' = Decoded
    BY <2>1 DEF IInv, ParamInv
  <2>2. CASE Decoded = 6 /\ Decoded' = 5
    BY <2>2, Constants DEF IInv, ParamInv
  <2>3. CASE Decoded = 11 /\ Decoded' = 10
    BY <2>3, Constants DEF IInv, ParamInv
  <2> QED
    BY <1>1, <2>1, <2>2, <2>3
<1>4. CountInv'
  BY <1>1 DEF IInv, CountInv
<1>5. Fetched' = Fetched
  BY DEF Fetched, LineOf
<1>6. ~early => CtrlInv' /\ MapInv'
  <2>1. CtrlInv => CtrlInv'
    BY <1>2, <1>5 DEF CtrlInv
  <2>2. LinesLoaded' = LinesLoaded
    BY <1>2 DEF LinesLoaded
  <2>3. MapInv => MapInv'
    BY <1>5, <2>2 DEF MapInv, Loaded
  <2> QED
    BY <2>1, <2>3 DEF IInv
<1>7. ASSUME ~early, kept'
      PROVE  DataInv'
  <2>1. UnitData /\ WritesInv /\ FinishedInv /\ JoinComplete
    BY <1>7 DEF IInv, DataInv
  <2>2. UnitData'
    <3>1. Decoded >= 10 => Decoded' >= 10
      BY <1>1
    <3> QED
      BY <1>2, <1>5, <2>1, <3>1 DEF UnitData, RightWrite, Joined
  <2>3. LinesDone' = LinesDone
    BY <1>2 DEF LinesDone
  <2>4. WritesInv'
    BY <2>1, <2>3 DEF WritesInv, RightWrite, Joined
  <2>5. FinishedInv'
    <3>1. Finished' = Finished
      BY DEF Finished
    <3> QED
      BY <2>1, <3>1 DEF FinishedInv, Joined
  <2>6. JoinComplete'
    BY <1>7, <2>1 DEF JoinComplete, Joined
  <2> QED
    BY <2>2, <2>4, <2>5, <2>6 DEF DataInv
<1> QED
  BY <1>3, <1>4, <1>6, <1>7 DEF IInv

\* The host goes on between two pages: the unit has finished the one before.
LEMMA BetweenPages ==
  ASSUME IInv, PipeInv', QueueInv', UNCHANGED <<afuVars, reading, writing, memory, early>>,
         Decoded' \in {6, 7, 8}, Decoded' = Decoded \/ (Decoded = 11 /\ Decoded' = 8),
         hpc # "done", hpc' \in JoinPC, kept' => kept, answer' = TRUE => answer = TRUE,
         ~early => state = "waiting" /\ ~new_partition_ready /\ LinesLoaded = BitMapCls,
         ~early /\ kept' => writing = {} /\ FinishedInv' /\ JoinComplete'
  PROVE  IInv'
<1> USE DEF afuVars, params
<1>1. ~Loading' /\ ~Joining'
  <2>1. hpc' \notin LoadPC /\ ~(Decoded' >= 9)
    BY DEF JoinPC, PartPC, LoadPC
  <2> QED
    BY <2>1, Zenon DEF Loading, Joining
<1>2. ParamInv'
  <2>1. CASE Decoded' = Decoded
    BY <2>1 DEF IInv, ParamInv
  <2>2. CASE Decoded = 11 /\ Decoded' = 8
    BY <2>2, Constants DEF IInv, ParamInv
  <2> QED
    BY <2>1, <2>2
<1>3. CountInv'
  BY DEF IInv, CountInv
<1>4. ASSUME ~early
      PROVE  CtrlInv' /\ MapInv'
  <2>1. CtrlInv /\ MapInv
    BY <1>4 DEF IInv
  <2>2. CtrlInv'
    BY <1>1, <1>4, <2>1 DEF CtrlInv
  <2>3. LinesLoaded' = BitMapCls
    BY DEF LinesLoaded, BitMapCls
  <2>4. MapInv'
    BY <1>4, <2>1, <2>3 DEF MapInv, Loaded, CtrlInv
  <2> QED
    BY <2>2, <2>4
<1>5. ASSUME ~early, kept'
      PROVE  DataInv'
  <2>1. CtrlInv /\ state = "waiting" /\ writing' = {} /\ DOMAIN memory' = PartId \X LineNo
    BY <1>5 DEF IInv, DataInv, WritesInv
  <2>2. UnitData'
    BY <1>1, <2>1 DEF UnitData, CtrlInv
  <2>3. LinesDone' = 0
    BY <1>1 DEF LinesDone
  <2>4. WritesInv'
    BY <2>1, <2>3 DEF WritesInv
  <2> QED
    BY <1>5, <2>2, <2>4 DEF DataInv
<1> QED
  BY <1>2, <1>3, <1>4, <1>5 DEF IInv

\* The accesses that neither begin nor end the host's wait for a page.
QuietAccesses ==
  {<<"notify", "job_type">>, <<"job_type", "bitmap_cls">>, <<"bitmap_cls", "reading_bitmap">>,
   <<"reading_bitmap", "bitmap_address">>, <<"bitmap_address", "poll_bitmap">>,
   <<"poll_bitmap", "answer_bitmap">>, <<"fk_cls", "bitmap_ready">>, <<"bitmap_ready", "loop">>,
   <<"result_address", "poll">>, <<"poll", "answer">>}

LEMMA QuietAccess ==
  ASSUME IInv, NEW from, NEW to, NEW req, Access(from, to, req), UNCHANGED <<queue, part>>,
         <<from, to>> \in QuietAccesses, req = Prog(Place(to))
  PROVE  IInv'
<1>1. /\ hpc = from /\ hpc' = to /\ mmio' = Append(mmio, req)
      /\ UNCHANGED <<csr_rx, csr_wr, c2, gap, answer, reading, writing, memory, kept, early, result>>
      /\ UNCHANGED <<afuVars, queue, part>>
  BY DEF Access, afuVars
<1>2. /\ Place(to) = Place(from) + 1 /\ Place(to) \in 1 .. 11
      /\ from # "done" /\ to # "done" /\ from \notin {"answer_bitmap", "answer"}
      /\ to \in LoadPC \cup JoinPC
      /\ to \in LoadPC <=> from \in LoadPC
      /\ to \in PartPC <=> from \in PartPC
      /\ to \in JoinPC <=> from \in JoinPC
      /\ to \in LoadPC \cup {"fk_cls", "bitmap_ready", "loop"} =>
           from \in LoadPC \cup {"fk_cls", "bitmap_ready"}
      /\ to \notin {"copy", "done"}
  <2>1. /\ Place(to) = Place(from) + 1 /\ Place(to) \in 1 .. 11
    BY PlaceIs DEF QuietAccesses
  <2> QED
    BY <2>1 DEF QuietAccesses, LoadPC, JoinPC, PartPC
<1>3. \A i : Prog(i)' = Prog(i)
  BY <1>1, <1>2 DEF Prog
<1>4. req \in Request
  BY <1>2, AccessIs DEF IInv
<1>5. PipeInv' /\ Decoded' = Decoded
  BY <1>1, <1>2, <1>3, <1>4, AppendPipe DEF IInv
<1>6. QueueInv'
  BY <1>1, <1>2 DEF IInv, QueueInv
<1> QED
  BY <1>1, <1>2, <1>5, <1>6, QuietHost

\* The next partition: a column address of its own.
LEMMA ColumnAddressKeeps ==
  ASSUME IInv, WriteColumnAddress
  PROVE  IInv'
<1>1. /\ hpc = "loop" /\ hpc' = "result_address" /\ queue # <<>>
      /\ mmio' = Append(mmio, WriteCSR(COLUMN_ADDRESS, Head(queue) + 1))
      /\ part' = Head(queue) /\ queue' = Tail(queue)
      /\ UNCHANGED <<csr_rx, csr_wr, c2, gap, answer, reading, writing, memory, kept, early, result>>
      /\ UNCHANGED afuVars
  BY DEF WriteColumnAddress, Access, afuVars
<1>2. /\ Partitions \in Nat /\ Len(queue) \in 1 .. Partitions /\ Len(queue') = Len(queue) - 1
      /\ queue' \in Seq(Nat) /\ Head(queue) = Partitions - Len(queue) /\ Head(queue) \in PartId
      /\ \A i \in 1 .. Len(queue') : queue'[i] = Partitions - Len(queue') + i - 1
  <2>1. /\ queue' \in Seq(Nat) /\ Len(queue') = Len(queue) - 1 /\ Len(queue) \in Nat
        /\ Len(queue) >= 1 /\ Head(queue) = queue[1]
    BY <1>1, HeadIs DEF IInv, QueueInv
  <2>2. Partitions \in Nat /\ Len(queue) \in 1 .. Partitions
    BY <2>1, Constants DEF IInv, QueueInv
  <2>3. Head(queue) = Partitions - Len(queue) + 1 - 1
    BY <2>1, <2>2 DEF IInv, QueueInv
  <2>4. Head(queue) = Partitions - Len(queue) /\ Head(queue) \in PartId
    BY <2>2, <2>3 DEF PartId
  <2>5. ASSUME NEW i \in 1 .. Len(queue')
        PROVE  queue'[i] = Partitions - Len(queue') + i - 1
    <3>1. queue'[i] = queue[i + 1] /\ i + 1 \in 1 .. Len(queue)
      BY <1>1, <2>5, TailIs DEF IInv, QueueInv
    <3>2. queue[i + 1] = Partitions - Len(queue) + (i + 1) - 1
      BY <3>1 DEF IInv, QueueInv
    <3> QED
      BY <2>1, <2>2, <3>1, <3>2
  <2> QED
    BY <2>1, <2>2, <2>4, <2>5
<1>3. /\ Place(hpc) = 8 /\ Place(hpc)' = 9 /\ hpc \in JoinPC /\ hpc' \in JoinPC \cap PartPC
      /\ hpc \notin LoadPC /\ hpc \notin PartPC
  BY <1>1, PlaceIs DEF LoadPC, JoinPC, PartPC
<1>4. \A i \in 1 .. Place(hpc) : Prog(i)' = Prog(i)
  BY <1>3 DEF Prog
<1>5. \A i : i = Place(hpc) + 1 => Prog(i)' = WriteCSR(COLUMN_ADDRESS, Head(queue) + 1)
  BY <1>1, <1>3 DEF Prog
<1>6. WriteCSR(COLUMN_ADDRESS, Head(queue) + 1) \in Request
  BY <1>2, RequestIs DEF COLUMN_ADDRESS, PartId
<1>7. PipeInv' /\ Decoded' = Decoded
  BY <1>1, <1>3, <1>4, <1>5, <1>6, AppendPipe DEF IInv
<1>8. QueueInv'
  <2>1. /\ hpc' \notin LoadPC \cup {"fk_cls", "bitmap_ready", "copy", "done", "loop"}
    BY <1>1 DEF LoadPC
  <2>2. part' = Partitions - Len(queue') - 1 /\ part' \in PartId /\ Len(queue') <= Partitions
    BY <1>1, <1>2
  <2>3. queue' \in Seq(Nat)
        /\ \A i \in 1 .. Len(queue') : queue'[i] = Partitions - Len(queue') + i - 1
    BY <1>2
  <2> QED
    BY <2>1, <2>2, <2>3 DEF QueueInv
<1>9. Decoded' \in {6, 7, 8}
  <2>1. Decoded \in 0 .. Place(hpc) /\ Decoded >= 6
    BY <1>3, StagesAre DEF IInv, PipeInv
  <2> QED
    BY <1>3, <1>7, <2>1
<1>10. ~Loading /\ ~Joining
  BY <1>3 DEF Loading, Joining
<1>11. ~early => state = "waiting" /\ ~new_partition_ready /\ LinesLoaded = BitMapCls
  BY <1>3, <1>10 DEF IInv, CtrlInv, LinesLoaded
<1>12. ASSUME ~early, kept'
       PROVE  writing = {} /\ FinishedInv' /\ JoinComplete'
  <2>1. WritesInv /\ FinishedInv /\ JoinComplete
    BY <1>1, <1>12 DEF IInv, DataInv
  <2>2. LinesDone = 0
    BY <1>10 DEF LinesDone
  <2>3. writing = {}
    BY <2>1, <2>2 DEF WritesInv
  <2>4. Finished' = Finished
    <3>1. Finished = Partitions - Len(queue) - 0
      BY <1>3 DEF Finished, One
    <3>2. Finished' = Partitions - Len(queue') - 1
      BY <1>3 DEF Finished, One
    <3> QED
      BY <1>2, <3>1, <3>2
  <2>5. FinishedInv'
    BY <1>1, <2>1, <2>4 DEF FinishedInv, Joined
  <2>6. JoinComplete'
    BY <1>1, <2>1 DEF JoinComplete, Joined
  <2> QED
    BY <2>3, <2>5, <2>6
<1> QED
  BY <1>1, <1>3, <1>7, <1>8, <1>9, <1>11, <1>12, BetweenPages

\* The queue is empty: every partition has been joined.
LEMMA LoopEndsKeeps ==
  ASSUME IInv, LoopEnds
  PROVE  IInv'
<1>1. /\ hpc = "loop" /\ hpc' = "copy" /\ queue = <<>> /\ UNCHANGED <<queue, part, result, afuVars>>
      /\ UNCHANGED <<csr_rx, csr_wr, c2, mmio, gap, answer, reading, writing, memory, kept, early>>
  BY DEF LoopEnds, afuVars, busVars
<1>2. /\ Place(hpc) = 8 /\ Place(hpc)' = Place(hpc) /\ hpc \in JoinPC /\ hpc' \in JoinPC
      /\ hpc \notin LoadPC /\ hpc \notin PartPC /\ hpc' \notin PartPC /\ hpc' \notin LoadPC
  BY <1>1, PlaceIs DEF LoadPC, JoinPC, PartPC
<1>3. \A i : Prog(i)' = Prog(i)
  BY <1>1 DEF Prog
<1>4. Arrived' = Arrived
  BY <1>1, <1>2 DEF Arrived
<1>5. Seen' = Seen
  BY <1>1, <1>4 DEF Seen
<1>6. Decoded' = Decoded
  BY <1>1, <1>5 DEF Decoded
<1>7. PipeInv'
  <2>1. c2 = None /\ answer = None
    BY <1>1 DEF IInv, PipeInv
  <2> QED
    BY <1>1, <1>2, <1>3, <1>4, <1>5, <1>6, <2>1 DEF IInv, PipeInv
<1>8. QueueInv'
  <2>1. Len(queue) = 0
    BY <1>1
  <2>2. PipeEmpty' <=> PipeEmpty
    BY <1>1 DEF PipeEmpty
  <2> QED
    BY <1>1, <1>2, <2>1, <2>2 DEF IInv, QueueInv
<1>9. Decoded' \in {6, 7, 8}
  <2>1. Decoded \in 0 .. Place(hpc) /\ Decoded >= 6
    BY <1>2, StagesAre DEF IInv, PipeInv
  <2> QED
    BY <1>2, <1>6, <2>1
<1>10. ~Loading /\ ~Joining
  BY <1>2 DEF Loading, Joining
<1>11. ~early => state = "waiting" /\ ~new_partition_ready /\ LinesLoaded = BitMapCls
  BY <1>2, <1>10 DEF IInv, CtrlInv, LinesLoaded
<1>12. ASSUME ~early, kept'
       PROVE  writing = {} /\ FinishedInv' /\ JoinComplete'
  <2>1. WritesInv /\ FinishedInv /\ JoinComplete
    BY <1>1, <1>12 DEF IInv, DataInv
  <2>2. LinesDone = 0
    BY <1>10 DEF LinesDone
  <2>3. writing = {}
    BY <2>1, <2>2 DEF WritesInv
  <2>4. Finished' = Finished
    BY <1>1, <1>2 DEF Finished
  <2>5. FinishedInv'
    BY <1>1, <2>1, <2>4 DEF FinishedInv, Joined
  <2>6. JoinComplete'
    BY <1>1, <2>1 DEF JoinComplete, Joined
  <2> QED
    BY <2>3, <2>5, <2>6
<1> QED
  BY <1>1, <1>2, <1>6, <1>7, <1>8, <1>9, <1>11, <1>12, BetweenPages

\* The results are handed on and the ports given back.
LEMMA CopyKeeps ==
  ASSUME IInv, CopyResults
  PROVE  IInv'
<1>1. /\ hpc = "copy" /\ hpc' = "done" /\ result' = memory
      /\ mmio' = Append(mmio, WriteCSR(QUERY_STATE, SCAN_PROCESSING))
      /\ UNCHANGED <<csr_rx, csr_wr, c2, gap, answer, reading, writing, memory, kept, early>>
      /\ UNCHANGED <<queue, part, afuVars>>
  BY DEF CopyResults, afuVars
<1>2. /\ Place(hpc) = 8 /\ Place(hpc)' = Place(hpc) + 1 /\ hpc \in JoinPC /\ hpc' \in JoinPC
      /\ hpc \notin LoadPC /\ hpc \notin PartPC /\ hpc' \notin PartPC /\ hpc' \notin LoadPC
  BY <1>1, PlaceIs DEF LoadPC, JoinPC, PartPC
<1>3. \A i \in 1 .. Place(hpc) : Prog(i)' = Prog(i)
  BY <1>2 DEF Prog
<1>4. \A i : i = Place(hpc) + 1 => Prog(i)' = WriteCSR(QUERY_STATE, SCAN_PROCESSING)
  BY <1>1, <1>2 DEF Prog
<1>5. WriteCSR(QUERY_STATE, SCAN_PROCESSING) \in Request
  BY RequestIs DEF QUERY_STATE, SCAN_PROCESSING
<1>6. PipeInv' /\ Decoded' = Decoded
  BY <1>1, <1>2, <1>3, <1>4, <1>5, AppendPipe DEF IInv
<1>7. /\ Len(queue) = 0
      /\ QueueInv'
  BY <1>1, <1>2 DEF IInv, QueueInv
<1>8. Decoded' \in {6, 7, 8}
  <2>1. Decoded \in 0 .. Place(hpc) /\ Decoded >= 6
    BY <1>2, StagesAre DEF IInv, PipeInv
  <2> QED
    BY <1>2, <1>6, <2>1
<1>9. ~Loading /\ ~Joining
  BY <1>2 DEF Loading, Joining
<1>10. ~early => state = "waiting" /\ ~new_partition_ready /\ LinesLoaded = BitMapCls
  BY <1>2, <1>9 DEF IInv, CtrlInv, LinesLoaded
<1>11. ASSUME ~early, kept'
       PROVE  writing = {} /\ FinishedInv' /\ JoinComplete'
  <2>1. WritesInv /\ FinishedInv /\ JoinComplete
    BY <1>1, <1>11 DEF IInv, DataInv
  <2>2. LinesDone = 0
    BY <1>9 DEF LinesDone
  <2>3. writing = {}
    BY <2>1, <2>2 DEF WritesInv
  <2>4. Finished' = Finished
    BY <1>1, <1>2 DEF Finished
  <2>5. FinishedInv'
    BY <1>1, <2>1, <2>4 DEF FinishedInv, Joined
  <2>6. Finished = Partitions
    <3>1. Finished = Partitions - 0 - 0
      BY <1>2, <1>7 DEF Finished, One
    <3> QED
      BY <3>1, Constants
  <2>7. JoinComplete'
    <3>1. \A p \in PartId, l \in LineNo : memory[<<p, l>>] = Joined(p, l)
      BY <2>1, <2>6 DEF FinishedInv, PartId
    <3> QED
      BY <1>1, <3>1 DEF JoinComplete, Joined
  <2> QED
    BY <2>3, <2>5, <2>7
<1> QED
  BY <1>1, <1>2, <1>6, <1>7, <1>8, <1>10, <1>11, BetweenPages

\* An answer finds nothing else under way.
LEMMA AnswerPipe ==
  ASSUME IInv, Answer
  PROVE  /\ answer \in BOOLEAN /\ hpc \in {"answer_bitmap", "answer"} /\ c2 = None
         /\ Decoded = Place(hpc) /\ Decoded' = Place(hpc)'
         /\ PipeInv' /\ PipeEmpty'
<1>1. /\ answer # None /\ answer' = None
      /\ hpc = "answer_bitmap" \/ hpc = "answer"
      /\ hpc' \in {"fk_cls", "poll_bitmap", "loop", "poll"}
      /\ hpc = "answer_bitmap" => hpc' \in {"fk_cls", "poll_bitmap"}
      /\ hpc = "answer" => hpc' \in {"loop", "poll"}
      /\ UNCHANGED <<csr_rx, csr_wr, c2, mmio, gap, early>>
      /\ kept' = (kept /\ (answer => writing = {}))
  BY DEF Answer, afuVars
<1>2. answer \in BOOLEAN /\ PipeEmpty /\ c2 = None /\ PipeEmpty'
  BY <1>1 DEF IInv, PipeInv, PipeEmpty
<1>3. Len(mmio) = 0 /\ Len(mmio') = 0
  BY <1>1, <1>2 DEF PipeEmpty
<1>4. Place(hpc) \in {6, 11} /\ Place(hpc)' \in {5, 6, 8, 10}
      /\ (hpc' \in JoinPC => Place(hpc)' >= 6)
  BY <1>1, PlaceIs DEF JoinPC, PartPC
<1>5. Arrived = Place(hpc) /\ Arrived' = Place(hpc)'
  <2>1. Arrived = Place(hpc) - 0 /\ Arrived' = Place(hpc)' - 0
    BY <1>3 DEF Arrived
  <2> QED
    BY <1>4, <2>1
<1>6. Seen = Place(hpc) /\ Seen' = Place(hpc)'
  <2>1. Seen = Arrived - 0 /\ Seen' = Arrived' - 0
    BY <1>2 DEF Seen, One, PipeEmpty
  <2> QED
    BY <1>4, <1>5, <2>1
<1>7. Decoded = Place(hpc) /\ Decoded' = Place(hpc)'
  <2>1. Decoded = Seen - 0 /\ Decoded' = Seen' - 0
    BY <1>2 DEF Decoded, One, PipeEmpty
  <2> QED
    BY <1>4, <1>6, <2>1
<1>8. PipeInv'
  <2>1. hpc' \in LoadPC \cup JoinPC
    BY <1>1 DEF LoadPC, JoinPC, PartPC
  <2>2. kept' \in BOOLEAN /\ early' \in BOOLEAN
    BY <1>1 DEF IInv, PipeInv
  <2>3. gap' \in 0 .. MinGap - 1 /\ mmio' \in Seq(Request)
    BY <1>1 DEF IInv, PipeInv
  <2>4. Decoded' >= 0 /\ (hpc' \in JoinPC => Decoded' >= 6)
    BY <1>4, <1>7
  <2>5. csr_rx' = None /\ csr_wr' = None /\ c2' = None /\ answer' = None
    BY <1>1, <1>2 DEF PipeEmpty
  <2> QED
    BY <1>3, <2>1, <2>2, <2>3, <2>4, <2>5 DEF PipeInv
<1> QED
  BY <1>1, <1>2, <1>7, <1>8

\* The host has the answer: it goes on, or polls again.
LEMMA AnswerKeeps ==
  ASSUME IInv, Answer
  PROVE  IInv'
<1>1. /\ hpc = "answer_bitmap" \/ hpc = "answer"
      /\ hpc = "answer_bitmap" => hpc' = IF answer THEN "fk_cls" ELSE "poll_bitmap"
      /\ hpc = "answer" => hpc' = IF answer THEN "loop" ELSE "poll"
      /\ answer' = None /\ kept' = (kept /\ (answer => writing = {}))
      /\ UNCHANGED <<afuVars, queue, part, result, reading, writing, memory, early>>
  BY DEF Answer
<1>2. /\ answer \in BOOLEAN /\ Decoded = Place(hpc) /\ Decoded' = Place(hpc)'
      /\ PipeInv' /\ PipeEmpty'
  BY AnswerPipe
<1>3. kept' => kept
  BY <1>1, Zenon
<1>4. answer' # TRUE
  BY <1>1, NoneAssumption
\* Nothing has finished: the next poll.
<1>5. CASE ~answer
  <2>1. (hpc = "answer_bitmap" /\ hpc' = "poll_bitmap") \/ (hpc = "answer" /\ hpc' = "poll")
    BY <1>1, <1>2, <1>5
  <2>2. /\ hpc' \in LoadPC <=> hpc \in LoadPC
        /\ hpc' \in PartPC <=> hpc \in PartPC
        /\ hpc' \in JoinPC <=> hpc \in JoinPC
        /\ hpc # "done" /\ hpc' # "done"
    BY <2>1 DEF LoadPC, PartPC, JoinPC
  <2>3. Decoded \in {6, 11} /\ Decoded' = Decoded - 1
    BY <1>2, <2>1, PlaceIs
  <2>4. QueueInv'
    BY <1>1, <2>1, <2>2 DEF IInv, QueueInv
  <2> QED
    BY <1>1, <1>2, <1>3, <1>4, <2>2, <2>3, <2>4, QuietHost
\* The page has been loaded, or looked up: what is in memory is its result.
<1>6. CASE answer
  <2>1. (hpc = "answer_bitmap" /\ hpc' = "fk_cls") \/ (hpc = "answer" /\ hpc' = "loop")
    BY <1>1, <1>6
  <2>2. answer = TRUE
    BY <1>2, <1>6
  <2>3. /\ hpc # "done" /\ hpc' \in JoinPC /\ hpc' \notin PartPC
        /\ hpc = "answer_bitmap" => hpc \in LoadPC /\ hpc \notin JoinPC /\ hpc \notin PartPC
        /\ hpc = "answer" => hpc \in PartPC /\ hpc \in JoinPC
    BY <2>1 DEF LoadPC, PartPC, JoinPC
  <2>4. /\ Decoded' \in {6, 7, 8} /\ (Decoded' = Decoded \/ (Decoded = 11 /\ Decoded' = 8))
        /\ hpc = "answer_bitmap" => Decoded = 6
        /\ hpc = "answer" => Decoded = 11
    BY <1>2, <2>1, PlaceIs
  <2>5. QueueInv'
    <3>1. /\ queue' = queue /\ part' = part
          /\ hpc' \in LoadPC \cup {"fk_cls", "bitmap_ready"} => hpc \in LoadPC
          /\ hpc' \notin PartPC /\ hpc' \notin {"copy", "done"}
      BY <1>1, <2>1, <2>3 DEF LoadPC
    <3> QED
      BY <1>2, <3>1 DEF IInv, QueueInv
  <2>6. ASSUME ~early
        PROVE  state = "waiting" /\ ~new_partition_ready /\ LinesLoaded = BitMapCls
    <3>1. state = "waiting" /\ ~new_partition_ready
      BY <2>2, <2>6 DEF IInv, CtrlInv
    <3>2. hpc = "answer_bitmap" => Loading
      BY <2>3, <2>4 DEF Loading
    <3> QED
      BY <2>1, <2>3, <3>1, <3>2 DEF LinesLoaded
  <2>7. ASSUME ~early, kept'
        PROVE  writing = {} /\ FinishedInv' /\ JoinComplete'
    <3>1. UnitData /\ WritesInv /\ FinishedInv /\ JoinComplete /\ CtrlInv
      BY <1>3, <2>7 DEF IInv, DataInv
    <3>2. writing = {}
      BY <1>1, <1>6, <2>7
    <3>3. JoinComplete'
      BY <1>1, <1>3, <2>7, <3>1 DEF JoinComplete, Joined
    <3>4. CASE hpc = "answer_bitmap"
      <4>1. Finished' = Finished
        BY <1>1, <2>3, <3>4 DEF Finished
      <4> QED
        BY <1>1, <3>1, <3>2, <3>3, <4>1 DEF FinishedInv, Joined
    <3>5. CASE hpc = "answer"
      <4>1. Joining /\ LinesDone = PageLines
        <5>1. Joining
          BY <2>3, <2>4, <3>5 DEF Joining
        <5> QED
          BY <2>6, <2>7, <5>1 DEF LinesDone
      <4>2. \A l \in LineNo : memory[<<part, l>>] = Joined(part, l)
        <5> SUFFICES ASSUME NEW l \in LineNo PROVE memory[<<part, l>>] = Joined(part, l)
          OBVIOUS
        <5>1. memory[<<part, l>>] = Joined(part, l) \/ RightWrite(l) \in writing \cup {c1}
          BY <3>1, <4>1 DEF WritesInv, LineNo
        <5>2. c1 = None
          BY <2>6, <2>7, <3>1 DEF CtrlInv
        <5>3. RightWrite(l) # None
          <6>1. part \in 0 .. Partitions
            BY Constants DEF IInv, QueueInv, PartId
          <6> QED
            BY <6>1, Present DEF RightWrite
        <5> QED
          BY <3>2, <5>1, <5>2, <5>3
      <4>3. Finished = part /\ Finished' = part + 1 /\ part \in Nat
        <5>1. /\ part = Partitions - Len(queue) - 1 /\ part \in Nat
              /\ Len(queue) \in Nat /\ Partitions \in Nat
          BY <2>3, <3>5, Constants DEF IInv, QueueInv, PartId
        <5>2. Finished = Partitions - Len(queue) - 1 /\ Finished' = Partitions - Len(queue) - 0
          BY <1>1, <2>3, <3>5 DEF Finished, One
        <5> QED
          BY <5>1, <5>2
      <4>4. FinishedInv'
        <5>0. 0 .. Finished' - 1 = 0 .. part
          BY <4>3
        <5> SUFFICES ASSUME NEW p \in 0 .. part, NEW l \in LineNo
                     PROVE  memory[<<p, l>>] = Joined(p, l)
          <6>1. memory' = memory
            BY <1>1
          <6>2. \A p \in 0 .. part : \A l \in LineNo : memory[<<p, l>>] = Joined(p, l)
            OBVIOUS
          <6> QED
            BY <5>0, <6>1, <6>2, Zenon DEF FinishedInv
        <5>1. CASE p = part
          BY <4>2, <5>1
        <5>2. CASE p # part
          <6>1. p \in 0 .. Finished - 1
            BY <4>3, <5>2
          <6> QED
            BY <3>1, <6>1 DEF FinishedInv
        <5> QED
          BY <5>1, <5>2
      <4> QED
        BY <3>2, <3>3, <4>4
    <3> QED
      BY <1>1, <3>4, <3>5
  <2> QED
    BY <1>1, <1>2, <1>3, <1>4, <2>3, <2>4, <2>5, <2>6, <2>7, BetweenPages
<1> QED
  BY <1>2, <1>5, <1>6

LEMMA HostKeeps ==
  ASSUME IInv, Host
  PROVE  IInv'
<1>1. ASSUME NEW from, NEW to, NEW req, Access(from, to, req), UNCHANGED <<queue, part>>,
             <<from, to>> \in QuietAccesses, req = Prog(Place(to))
      PROVE  IInv'
  BY <1>1, QuietAccess
<1>2. CASE SendParameters
  <2>1. ASSUME NEW from, NEW to, NEW k, NEW d, Store(from, to, k, d),
               <<from, to>> \in QuietAccesses, WriteCSR(k, d) = Prog(Place(to))
        PROVE  IInv'
    BY <1>1, <2>1 DEF Store
  <2>2. CASE Store("notify", "job_type", QUERY_STATE, JOIN_PROCESSING)
    BY <2>1, <2>2, PlaceIs, ProgIs DEF QuietAccesses
  <2>3. CASE Store("job_type", "bitmap_cls", JOB_TYPE, 4)
    BY <2>1, <2>3, PlaceIs, ProgIs DEF QuietAccesses
  <2>4. CASE Store("bitmap_cls", "reading_bitmap", TOTAL_CLS, BitMapCls)
    BY <2>1, <2>4, PlaceIs, ProgIs DEF QuietAccesses
  <2>5. CASE Store("reading_bitmap", "bitmap_address", BITMAP_STATE, 1)
    BY <2>1, <2>5, PlaceIs, ProgIs DEF QuietAccesses
  <2>6. CASE Store("bitmap_address", "poll_bitmap", COLUMN_ADDRESS, 0)
    BY <2>1, <2>6, PlaceIs, ProgIs DEF QuietAccesses
  <2>7. CASE Store("fk_cls", "bitmap_ready", TOTAL_CLS, PageLines)
    BY <2>1, <2>7, PlaceIs, ProgIs DEF QuietAccesses
  <2>8. CASE Store("bitmap_ready", "loop", BITMAP_STATE, 0)
    BY <2>1, <2>8, PlaceIs, ProgIs DEF QuietAccesses
  <2> QED
    BY <1>2, <2>2, <2>3, <2>4, <2>5, <2>6, <2>7, <2>8 DEF SendParameters
<1>3. CASE WriteColumnAddress
  BY <1>3, ColumnAddressKeeps
<1>4. CASE WriteResultAddress
  <2>1. Access("result_address", "poll", WriteCSR(RESULT_ADDRESS, part))
        /\ UNCHANGED <<queue, part>>
    BY <1>4 DEF WriteResultAddress, Store
  <2> QED
    BY <1>1, <2>1, PlaceIs, ProgIs DEF QuietAccesses
<1>5. CASE LoopEnds
  BY <1>5, LoopEndsKeeps
<1>6. CASE Poll
  <2>1. CASE Access("poll_bitmap", "answer_bitmap", ReadCSR(JOIN_PROCESSED))
    BY <1>1, <1>6, <2>1, PlaceIs, ProgIs DEF Poll, QuietAccesses
  <2>2. CASE Access("poll", "answer", ReadCSR(JOIN_PROCESSED))
    BY <1>1, <1>6, <2>2, PlaceIs, ProgIs DEF Poll, QuietAccesses
  <2> QED
    BY <1>6, <2>1, <2>2 DEF Poll
<1>7. CASE Answer
  BY <1>7, AnswerKeeps
<1>8. CASE CopyResults
  BY <1>8, CopyKeeps
<1> QED
  BY <1>2, <1>3, <1>4, <1>5, <1>6, <1>7, <1>8 DEF Host

LEMMA NextKeeps == ASSUME IInv, [Next]_vars PROVE IInv'
<1>1. CASE Host
  BY <1>1, HostKeeps
<1>2. ASSUME NEW full \in BOOLEAN,
             Tick(full) \/ TickRequest(full) \/ \E line \in reading : TickResponse(line, full)
      PROVE  IInv'
  BY <1>2, EdgeKeeps
<1>3. ASSUME NEW w \in writing, WriteLands(w)
      PROVE  IInv'
  BY <1>3, LandsKeeps
<1>4. CASE UNCHANGED vars
  BY <1>4, StutterKeeps
<1> QED
  BY <1>1, <1>2, <1>3, <1>4 DEF Next

-----------------------------------------------------------------------------
(* What the invariant gives. *)

LEMMA TypeFacts == IInv => TypeOK
<1> SUFFICES ASSUME IInv PROVE TypeOK
  OBVIOUS
<1> USE DEF IInv
<1>1. Partitions \in Nat \ {0} /\ PageLines \in Nat \ {0}
  BY Constants
<1>2. queue \in Seq(PartId)
  <2>1. queue \in Seq(Nat) /\ Len(queue) \in 0 .. Partitions
    BY <1>1 DEF QueueInv
  <2>2. \A i \in 1 .. Len(queue) : queue[i] \in PartId
    <3> SUFFICES ASSUME NEW i \in 1 .. Len(queue) PROVE queue[i] \in PartId
      OBVIOUS
    <3>1. queue[i] = Partitions - Len(queue) + i - 1
      BY DEF QueueInv
    <3> QED
      BY <1>1, <2>1, <3>1 DEF PartId
  <2> QED
    BY <2>1, <2>2
<1>3. Len(mmio) <= 6
  <2>1. /\ Place(hpc) \in 0 .. 11 /\ Len(mmio) \in Nat /\ Arrived \in Int /\ Arrived >= Decoded
        /\ Arrived = Place(hpc) - Len(mmio) /\ Decoded \in Nat
    BY StagesAre
  <2>2. CASE hpc \in JoinPC
    <3>1. Decoded >= 6
      BY <2>2 DEF PipeInv
    <3> QED
      BY <2>1, <3>1
  <2>3. CASE hpc \in LoadPC
    <3>1. Place(hpc) <= 6
      BY <2>3, PlaceIs DEF LoadPC
    <3> QED
      BY <2>1, <3>1
  <2> QED
    BY <2>2, <2>3 DEF PipeInv
<1>4. hpc \in {"notify", "job_type", "bitmap_cls", "reading_bitmap",
              "bitmap_address", "poll_bitmap", "answer_bitmap", "fk_cls",
              "bitmap_ready", "loop", "result_address", "poll", "answer",
              "copy", "done"}
  BY DEF PipeInv, LoadPC, JoinPC, PartPC
<1>5. cls_to_process \in {0, BitMapCls, PageLines}
      /\ query_state \in {SCAN_PROCESSING, JOIN_PROCESSING}
      /\ {reading_bitmap, bitmap_ready} \subseteq BOOLEAN
  BY DEF ParamInv
<1>6. gap \in 0 .. MinGap - 1 /\ {answer, c2} \subseteq BOOLEAN \cup {None}
      /\ {kept, early} \subseteq BOOLEAN /\ part \in PartId
  BY DEF PipeInv, QueueInv
<1>7. /\ state \in {"waiting", "idle", "req", "rsp", "processing"}
      /\ {new_partition_ready, cl_req_allowed, cl_req_issued, cl_received, cl_processed,
          partition_processed} \subseteq BOOLEAN
      /\ cls_processed \in 0 .. PageLines
      /\ {c0} \cup reading \subseteq {None} \cup ((0 .. Partitions) \X LineNo)
  BY DEF CountInv
<1> HIDE DEF IInv
<1> QED
  BY <1>2, <1>3, <1>4, <1>5, <1>6, <1>7 DEF TypeOK

LEMMA CompletionFacts == IInv => CompletionIsCurrent
<1> SUFFICES ASSUME IInv, ~early, answer = TRUE
             PROVE  /\ partition_processed /\ reading = {} /\ c0 = None /\ mmio = <<>>
                    /\ hpc = "answer_bitmap" => cl_address = 0 /\ bit_map = LoadedMap
                    /\ hpc = "answer" => cl_address = part + 1 /\ result_address = part
  BY DEF CompletionIsCurrent
<1>1. TRUE # None
  BY NoneAssumption
<1>2. mmio = <<>> /\ csr_rx = None /\ csr_wr = None /\ hpc \in {"answer_bitmap", "answer"}
  BY <1>1 DEF IInv, PipeInv, PipeEmpty
<1>3. Decoded = Place(hpc)
  <2>1. /\ Place(hpc) \in 0 .. 11 /\ Arrived = Place(hpc) - Len(mmio) /\ Seen = Arrived
        /\ Decoded = Seen
    BY <1>2, StagesAre DEF IInv
  <2>2. Len(mmio) = 0
    BY <1>2
  <2> QED
    BY <2>1, <2>2
<1>4. state = "waiting" /\ partition_processed /\ ~new_partition_ready /\ reading = {} /\ c0 = None
  BY DEF IInv, CtrlInv
<1>5. ASSUME hpc = "answer_bitmap"
      PROVE  cl_address = 0 /\ bit_map = LoadedMap
  <2>1. Decoded = 6 /\ hpc \in LoadPC /\ hpc \notin JoinPC
    BY <1>3, <1>5, PlaceIs DEF LoadPC, JoinPC, PartPC
  <2>2. Loading
    BY <2>1 DEF Loading
  <2>3. LinesLoaded = BitMapCls
    BY <1>4, <2>1, <2>2 DEF LinesLoaded
  <2> QED
    BY <2>1, <2>3 DEF IInv, ParamInv, MapInv, Loaded, LoadedMap
<1>6. ASSUME hpc = "answer"
      PROVE  cl_address = part + 1 /\ result_address = part
  <2>1. Decoded = 11 /\ hpc # "done"
    BY <1>3, <1>6, PlaceIs
  <2> QED
    BY <2>1 DEF IInv, ParamInv
<1> QED
  BY <1>2, <1>4, <1>5, <1>6

\* The invariant of the join: what the host has issued, what the unit has
\* decoded, counted and loaded, and where the result lines are, agree.
THEOREM JoinInvariant == Spec => []IInv
<1>1. JoinInit => IInv
  BY InitInv
<1>2. IInv /\ [Next]_vars => IInv'
  BY NextKeeps
<1> QED
  BY <1>1, <1>2, PTL DEF Spec

\* The values of the host's, the bus's and the unit's variables, with at most
\* six accesses under way and no line asked for beyond a page.
THEOREM JoinTypeCorrect == Spec => []TypeOK
BY JoinInvariant, TypeFacts, PTL

\* What copyFPGAWriteBuffer hands on is the whole join, if the platform kept
\* what the code relies on and no poll came before the new address took effect.
THEOREM JoinIsComplete == Spec => []JoinComplete
<1>1. IInv => JoinComplete
  BY DEF IInv, DataInv, JoinComplete
<1> QED
  BY <1>1, JoinInvariant, PTL

\* A completion flag the host has read is about the page it waits for, unless it
\* polled before the unit had taken up that page's address.
THEOREM JoinCompletionIsCurrent == Spec => []CompletionIsCurrent
BY JoinInvariant, CompletionFacts, PTL

-----------------------------------------------------------------------------
(***************************************************************************)
(* FpgaJoin implements AtomicScan, with one scan.  The bitmap is not seen  *)
(* there; a partition is filtered in the step in which the host reads its  *)
(* completion, and the pages are handed on in CopyResults.                 *)
(***************************************************************************)
Trusted == kept /\ ~early

RightPage(p) == [l \in LineNo |-> Joined(p, l)]

LEMMA ConsIs ==
  ASSUME NEW S, NEW e \in S, NEW q \in Seq(S)
  PROVE  <<e>> \o q # <<>> /\ Head(<<e>> \o q) = e /\ Tail(<<e>> \o q) = q
<1>1. /\ <<e>> \o q \in Seq(S) /\ Len(<<e>> \o q) = Len(q) + 1 /\ Len(q) \in Nat
      /\ (<<e>> \o q)[1] = e
      /\ \A i \in 1 .. Len(q) : (<<e>> \o q)[i + 1] = q[i]
  OBVIOUS
<1>2. <<e>> \o q # <<>>
  BY <1>1
<1>3. Head(<<e>> \o q) = e
  BY <1>1
<1>4. /\ Tail(<<e>> \o q) \in Seq(S) /\ Len(Tail(<<e>> \o q)) = Len(q)
      /\ \A i \in 1 .. Len(q) : Tail(<<e>> \o q)[i] = (<<e>> \o q)[i + 1]
  BY <1>1, <1>2
<1>5. Tail(<<e>> \o q) = q
  BY <1>1, <1>4
<1> QED
  BY <1>2, <1>3, <1>5

\* The host's place among the partitions.
LEMMA HostPlace ==
  ASSUME IInv
  PROVE  /\ queue \in Seq(Nat) /\ Len(queue) \in Nat /\ Partitions \in Nat \ {0}
         /\ part \in Nat /\ part \in PartId
         /\ hpc \in PartPC => part = Partitions - Len(queue) - 1
         /\ hpc \in {"copy", "done"} => queue = <<>>
<1>1. QueueInv
  BY DEF IInv
<1>2. queue \in Seq(Nat) /\ Len(queue) \in Nat /\ Partitions \in Nat \ {0}
  BY <1>1, Constants DEF QueueInv
<1>3. part \in PartId /\ part \in Nat
  BY <1>1, <1>2 DEF QueueInv, PartId
<1>4. hpc \in PartPC => part = Partitions - Len(queue) - 1
  BY <1>1 DEF QueueInv
<1>5. ASSUME hpc \in {"copy", "done"} PROVE queue = <<>>
  <2>1. Len(queue) = 0
    BY <1>1, <1>5 DEF QueueInv
  <2> QED
    BY <1>2, <2>1
<1> QED
  BY <1>2, <1>3, <1>4, <1>5

\* The pages finished are right, as long as the platform does its part.
LEMMA FinishedAre ==
  ASSUME IInv, Trusted, hpc # "done"
  PROVE  PagesFinished = [p \in 0 .. Finished - 1 |-> RightPage(p)]
<1>1. FinishedInv
  BY DEF IInv, DataInv, Trusted
<1>2. \A p \in 0 .. Finished - 1 : [l \in LineNo |-> memory[<<p, l>>]] = RightPage(p)
  BY <1>1 DEF FinishedInv, RightPage
<1> QED
  BY <1>2 DEF PagesFinished

LEMMA FinishedAreNext ==
  ASSUME IInv', Trusted', hpc' # "done"
  PROVE  PagesFinished' = [p \in 0 .. Finished' - 1 |-> RightPage(p)]
<1>1. FinishedInv'
  BY DEF IInv, DataInv, Trusted
<1>2. \A p \in 0 .. Finished' - 1 : \A l \in LineNo : memory'[<<p, l>>] = Joined(p, l)
  BY <1>1 DEF FinishedInv, Joined
<1>3. \A p \in 0 .. Finished' - 1 : [l \in LineNo |-> memory'[<<p, l>>]] = RightPage(p)
  BY <1>2 DEF RightPage
<1>4. PagesFinished' = [p \in 0 .. Finished' - 1 |-> [l \in LineNo |-> memory'[<<p, l>>]]]
  BY DEF PagesFinished
<1> QED
  BY <1>3, <1>4

\* A step that takes no partition and does not end the join stutters.
LEMMA SameView ==
  ASSUME IInv, IInv', Trusted, Trusted', result' = result,
         hpc' = "done" <=> hpc = "done", Unfinished' = Unfinished, Finished' = Finished
  PROVE  UNCHANGED Atomic!atomicVars
<1>1. HandedOver' = HandedOver
  BY DEF HandedOver
<1>2. PagesFinished' = PagesFinished
  <2>1. CASE hpc = "done"
    BY <2>1 DEF PagesFinished
  <2>2. CASE hpc # "done"
    BY <2>2, FinishedAre, FinishedAreNext
  <2> QED
    BY <2>1, <2>2
<1>3. UNCHANGED (early \/ ~kept)
  BY DEF Trusted
<1> QED
  BY <1>1, <1>2, <1>3 DEF Atomic!atomicVars

\* The host takes the completion of its partition.
LEMMA AnswerIsFilter ==
  ASSUME IInv, IInv', Trusted, Trusted', Answer, hpc = "answer", answer = TRUE
  PROVE  Atomic!FilterPartition
<1>1. /\ hpc \in PartPC /\ hpc' = "loop" /\ hpc' \notin PartPC
      /\ UNCHANGED <<queue, part, result>>
  BY DEF Answer, PartPC
<1>2. Finished = part /\ Finished' = part + 1 /\ part \in Nat
  <2>1. Finished = Partitions - Len(queue) - 1 /\ Finished' = Partitions - Len(queue) - 0
    BY <1>1 DEF Finished
  <2>2. part = Partitions - Len(queue) - 1
    BY <1>1, HostPlace
  <2> QED
    BY <2>1, <2>2, HostPlace
<1>3. Unfinished # <<>> /\ Head(Unfinished) = part /\ Unfinished' = Tail(Unfinished)
  <2>1. Unfinished = <<part>> \o queue /\ Unfinished' = queue
    BY <1>1 DEF Unfinished
  <2>2. <<part>> \o queue # <<>> /\ Head(<<part>> \o queue) = part /\ Tail(<<part>> \o queue) = queue
    BY HostPlace, ConsIs
  <2> QED
    BY <2>1, <2>2
<1>4. HandedOver = <<>> /\ HandedOver' = <<>>
  BY <1>1 DEF HandedOver
<1>5. PagesFinished = [p \in 0 .. part - 1 |-> RightPage(p)]
  BY <1>2, FinishedAre
<1>6. PagesFinished' = [p \in 0 .. part |-> RightPage(p)]
  <2>1. 0 .. Finished' - 1 = 0 .. part
    BY <1>2
  <2> QED
    BY <1>1, <2>1, FinishedAreNext
<1>7. PagesFinished' = [p \in DOMAIN PagesFinished \cup {part} |->
                          IF p = part THEN RightPage(part) ELSE PagesFinished[p]]
  <2>1. (0 .. part - 1) \cup {part} = 0 .. part /\ \A p \in 0 .. part : p # part => p \in 0 .. part - 1
    BY <1>2
  <2> QED
    BY <1>5, <1>6, <2>1
<1>8. <<[p \in PartId |-> [l \in LineNo |-> Joined(p, l)]]>>[Len(HandedOver) + 1][part]
        = RightPage(part)
  <2>1. Len(HandedOver) + 1 = 1
    BY <1>4
  <2>2. <<[p \in PartId |-> [l \in LineNo |-> Joined(p, l)]]>>[1]
          = [p \in PartId |-> [l \in LineNo |-> Joined(p, l)]]
    OBVIOUS
  <2>3. [p \in PartId |-> [l \in LineNo |-> Joined(p, l)]][part] = RightPage(part)
    BY HostPlace DEF RightPage
  <2> QED
    BY <2>1, <2>2, <2>3
<1> QED
  BY <1>3, <1>4, <1>7, <1>8 DEF Atomic!FilterPartition

\* The pages are handed on when the queue is empty.
LEMMA CopyIsHandOver ==
  ASSUME IInv, CopyResults
  PROVE  Atomic!HandOver
<1>1. /\ hpc = "copy" /\ hpc' = "done" /\ hpc \notin PartPC /\ hpc' \notin PartPC
      /\ queue = <<>> /\ queue' = <<>> /\ result' = memory
  <2>1. hpc = "copy" /\ hpc' = "done" /\ queue' = queue /\ result' = memory
    BY DEF CopyResults
  <2> QED
    BY <2>1, HostPlace DEF PartPC
<1>2. Unfinished = <<>> /\ Unfinished' = <<>>
  BY <1>1 DEF Unfinished
<1>3. HandedOver = <<>> /\ HandedOver' = <<[p \in PartId |-> [l \in LineNo |-> memory[<<p, l>>]]]>>
  BY <1>1 DEF HandedOver
<1>4. PagesFinished = [p \in PartId |-> [l \in LineNo |-> memory[<<p, l>>]]]
  <2>1. Finished = Partitions - 0 - 0
    BY <1>1 DEF Finished
  <2>2. 0 .. Finished - 1 = PartId
    BY <2>1, Constants DEF PartId
  <2> QED
    BY <1>1, <2>2 DEF PagesFinished
<1>5. PagesFinished' = Atomic!NoPages
  BY <1>1 DEF PagesFinished, Atomic!NoPages
<1>6. HandedOver' = Append(HandedOver, PagesFinished) /\ Len(HandedOver) = 0 /\ Len(HandedOver') = 1
  BY <1>3, <1>4
<1>7. Len(<<WorkItems>>) = 1
  OBVIOUS
<1> QED
  BY <1>2, <1>5, <1>6, <1>7 DEF Atomic!HandOver

\* What the other steps of the host leave alone.
LEMMA OtherSteps ==
  ASSUME IInv, IInv', Trusted, Trusted', Host, ~CopyResults,
         ~(Answer /\ hpc = "answer" /\ answer = TRUE)
  PROVE  UNCHANGED Atomic!atomicVars
<1>1. result' = result /\ hpc # "done" /\ hpc' # "done"
  BY DEF Host, SendParameters, WriteColumnAddress, WriteResultAddress, LoopEnds, Poll, Answer,
         Store, Access
<1>2. CASE WriteColumnAddress
  <2>1. /\ hpc \notin PartPC /\ hpc' \in PartPC /\ queue # <<>>
        /\ queue' = Tail(queue) /\ part' = Head(queue)
    BY <1>2 DEF WriteColumnAddress, Access, PartPC
  <2>2. Unfinished' = Unfinished
    <3>1. <<Head(queue)>> \o Tail(queue) = queue
      BY <2>1, HostPlace
    <3> QED
      BY <2>1, <3>1 DEF Unfinished
  <2>3. Finished' = Finished
    <3>1. Len(queue) \in Nat /\ Len(Tail(queue)) = Len(queue) - 1 /\ Partitions \in Nat
      BY <2>1, HostPlace
    <3>2. Finished = Partitions - Len(queue) - 0
      BY <2>1 DEF Finished
    <3>3. Finished' = Partitions - Len(Tail(queue)) - 1
      BY <2>1 DEF Finished
    <3>4. \A n, k \in Nat : n - k - 0 = n - (k - 1) - 1
      OBVIOUS
    <3>5. Partitions - Len(queue) - 0 = Partitions - (Len(queue) - 1) - 1
      BY <3>1, <3>4
    <3> QED
      BY <3>1, <3>2, <3>3, <3>5
  <2> QED
    BY <1>1, <2>2, <2>3, SameView
<1>3. CASE ~WriteColumnAddress
  <2>1. queue' = queue /\ part' = part /\ (hpc' \in PartPC <=> hpc \in PartPC)
    <3>1. CASE Answer
      <4>1. answer \in BOOLEAN \cup {None} /\ answer # None
        BY <3>1 DEF Answer, IInv, PipeInv
      <4>2. hpc = "answer" => answer = FALSE
        BY <3>1, <4>1
      <4>3. UNCHANGED <<queue, part>>
        BY <3>1 DEF Answer
      <4>4. \/ hpc = "answer_bitmap" /\ hpc' \in {"fk_cls", "poll_bitmap"}
            \/ hpc = "answer" /\ hpc' = "poll"
        BY <3>1, <4>2 DEF Answer
      <4> QED
        BY <4>3, <4>4 DEF PartPC
    <3>2. CASE ~Answer
      BY <1>3, <3>2 DEF Host, SendParameters, WriteResultAddress, LoopEnds, Poll, Store, Access,
                        PartPC
    <3> QED
      BY <3>1, <3>2
  <2>2. Unfinished' = Unfinished
    BY <2>1 DEF Unfinished
  <2>3. Finished' = Finished
    BY <2>1 DEF Finished
  <2> QED
    BY <1>1, <2>2, <2>3, SameView
<1> QED
  BY <1>2, <1>3

\* The edges of the clock and the writes that land leave the host alone.
LEMMA PlatformIs ==
  ASSUME [Next]_vars, ~Host
  PROVE  UNCHANGED hostVars /\ (Trusted' => Trusted)
<1>1. ASSUME NEW full \in BOOLEAN,
             Tick(full) \/ TickRequest(full) \/ \E line \in reading : TickResponse(line, full)
      PROVE  UNCHANGED hostVars /\ (Trusted' => Trusted)
  BY <1>1 DEF Tick, TickRequest, TickResponse, Ports, Trusted
<1>2. ASSUME NEW w \in writing, WriteLands(w)
      PROVE  UNCHANGED hostVars /\ (Trusted' => Trusted)
  BY <1>2 DEF WriteLands, Trusted
<1>3. CASE UNCHANGED vars
  BY <1>3 DEF vars, busVars, Trusted
<1> QED
  BY <1>1, <1>2, <1>3 DEF Next

LEMMA HostTrusts ==
  ASSUME Host, Trusted'
  PROVE  Trusted
<1>1. CASE Answer
  BY <1>1 DEF Answer, Trusted
<1>2. CASE CopyResults
  BY <1>2 DEF CopyResults, Trusted
<1>3. CASE LoopEnds
  BY <1>3 DEF LoopEnds, Trusted, busVars
<1>4. CASE SendParameters \/ WriteColumnAddress \/ WriteResultAddress \/ Poll
  <2>1. UNCHANGED <<kept, early>>
    BY <1>4 DEF SendParameters, WriteColumnAddress, WriteResultAddress, Poll, Store, Access
  <2> QED
    BY <2>1 DEF Trusted
<1> QED
  BY <1>1, <1>2, <1>3, <1>4 DEF Host

LEMMA PlatformStutters ==
  ASSUME IInv, IInv', Trusted, Trusted', UNCHANGED hostVars
  PROVE  UNCHANGED Atomic!atomicVars
<1>1. UNCHANGED <<hpc, queue, part, result>>
  BY DEF hostVars
<1>2. Unfinished' = Unfinished
  BY <1>1 DEF Unfinished
<1>3. Finished' = Finished
  BY <1>1 DEF Finished
<1> QED
  BY <1>1, <1>2, <1>3, SameView

LEMMA RefinesInit == JoinInit => Atomic!AtomicInit
<1> SUFFICES ASSUME JoinInit PROVE Atomic!AtomicInit
  OBVIOUS
<1>1. /\ hpc = "notify" /\ hpc \notin PartPC /\ queue = WorkItems /\ kept = TRUE /\ early = FALSE
  BY DEF JoinInit, PartPC
<1>2. Unfinished = <<WorkItems>>[1]
  BY <1>1 DEF Unfinished
<1>3. PagesFinished = Atomic!NoPages
  <2>1. Len(queue) = Partitions
    BY <1>1, Constants DEF WorkItems
  <2>2. Finished = Partitions - Len(queue) - 0
    BY <1>1 DEF Finished
  <2>3. Finished = 0
    BY <2>1, <2>2, Constants
  <2>4. \A p : p \notin 0 .. Finished - 1
    BY <2>3
  <2> QED
    BY <1>1, <2>4 DEF PagesFinished, Atomic!NoPages
<1>4. HandedOver = <<>>
  BY <1>1 DEF HandedOver
<1> QED
  BY <1>1, <1>2, <1>3, <1>4 DEF Atomic!AtomicInit

LEMMA RefinesNext ==
  ASSUME IInv, IInv', [Next]_vars
  PROVE  [Atomic!AtomicNext]_(Atomic!atomicVars)
<1>1. CASE ~Trusted'
  BY <1>1 DEF Trusted, Atomic!AtomicNext
<1>2. CASE Trusted'
  <2>1. Trusted
    BY <1>2, HostTrusts, PlatformIs
  <2>2. UNCHANGED (early \/ ~kept)
    BY <1>2, <2>1 DEF Trusted
  <2>3. CASE Answer /\ hpc = "answer" /\ answer = TRUE
    BY <1>2, <2>1, <2>2, <2>3, AnswerIsFilter DEF Atomic!AtomicNext
  <2>4. CASE CopyResults
    BY <2>2, <2>4, CopyIsHandOver DEF Atomic!AtomicNext
  <2>5. CASE Host /\ ~(Answer /\ hpc = "answer" /\ answer = TRUE) /\ ~CopyResults
    BY <1>2, <2>1, <2>5, OtherSteps
  <2>6. CASE ~Host
    BY <1>2, <2>1, <2>6, PlatformIs, PlatformStutters
  <2> QED
    BY <2>3, <2>4, <2>5, <2>6
<1> QED
  BY <1>1, <1>2

\* The offloaded join is a unit that looks up one partition at a time in the
\* complete bitmap and hands all of them on together: its two phases, the flag
\* they share and the cache lines cannot be told from outside.
THEOREM JoinRefinement == Spec => ImplementsAtomicScan
<1>1. IInv /\ IInv' /\ [Next]_vars => [Atomic!AtomicNext]_(Atomic!atomicVars)
  BY RefinesNext
<1> QED
  BY <1>1, RefinesInit, JoinInvariant, PTL DEF Spec, ImplementsAtomicScan, Atomic!AtomicSpec
=============================================================================
