----------------------------- MODULE FpgaSession -----------------------------
(***************************************************************************)
(* One query's use of the accelerator, from the driver's point of view:    *)
(* OPAE_SVC_WRAPPER opens it, AFU_HANDLER and FPGAHandler put the column   *)
(* partitions into shared buffers, the scans name those buffers to the     *)
(* AFU, the results are copied out of them, and the destructors close what *)
(* was opened.  Every driver call may fail; faults says which have.        *)
(*                                                                         *)
(* What the AFU does with one partition is a step here (FpgaScan has it in *)
(* detail), and so is one driver call with the code around it.  The        *)
(* accelerator has VTP (mpf_conf.vh), so allocBuffer takes that branch.    *)
(***************************************************************************)
EXTENDS Integers, Sequences, FiniteSetsExt

CONSTANTS
  MaxParts,    \* pages of a column, at most
  ForcedParts, \* what run() tells lo_discount it has (732)
  MaxMatches   \* accelerators fpgaEnumerate finds, at most

ASSUME FpgaSessionAssumption ==
  {MaxParts, ForcedParts, MaxMatches} \subseteq Nat \ {0}

Job == <<"d_year", "lo_discount">>   \* in the order run() takes them
JobId == 1 .. 2

VARIABLES
  pc,
  parts,       \* NumOfPartitions() of each job's column
  matches,     \* max_tokens and num_matches of findAndOpenAccel
  tokens,      \* the tokens not destroyed
  cur,         \* the token, or the partition, a loop is at
  accel, mapped, mpf,   \* the handle, its MMIO space, MPF on top of it
  is_ok, csrs,
  job,         \* the job being prepared or scanned
  buffers,     \* the shared buffers allocated so far: what is in each
  read_buffers, write_buffers,
  queue,       \* fpga_queue
  result,      \* what copyFPGAWriteBuffer handed to each job
  faults,      \* history: the driver calls that failed
  reported     \* history: the first partition of each job that "Problem with
               \* buffer allocation" was printed for, or the number of them

connectVars == <<matches, tokens, accel, mapped, mpf, is_ok, csrs>>
bufferVars == <<buffers, read_buffers, write_buffers, reported>>
scanVars == <<queue, result>>
vars == <<pc, parts, cur, job, connectVars, bufferVars, scanVars, faults>>

NULL == 0
Fault == {"enumerate", "open", "map", "mpf", "io_address", "alloc", "mmio"}

\* TotalPartitions(): the wrapper's own number, which run() sets for one job.
TotalPartitions(j) == IF Job[j] = "lo_discount" THEN ForcedParts ELSE parts[j]

\* The contents of a buffer: a page of a column, the filter result of one, or
\* neither.
Page(j, p) == [kind |-> "page", job |-> j, part |-> p]
Junk == [kind |-> "junk"]
Filtered(c) == IF c.kind = "page" THEN [c EXCEPT !.kind = "result"] ELSE Junk

Content == {Junk} \cup [kind : {"page", "result"}, job : JobId, part : Nat]

TypeOK ==
  /\ pc \in {"probe", "find", "open", "map", "mpf", "tokens", "check", "read", "write",
             "notify", "scan", "copy", "done", "release", "delete", "unmap",
             "close", "ended", "crashed", "hung"}
  /\ parts \in [JobId -> 1 .. MaxParts]
  /\ matches \in [max : 0 .. MaxMatches, num : 0 .. MaxMatches]
  /\ tokens \subseteq 1 .. MaxMatches
  /\ cur \in Nat /\ job \in JobId
  /\ accel \in {"none", "open", "closed"} /\ mpf \in {"none", "connected", "disconnected"}
  /\ {mapped, is_ok, csrs} \subseteq BOOLEAN
  /\ buffers \in Seq(Content)
  /\ \A j \in JobId : /\ Len(read_buffers[j]) <= TotalPartitions(j)
                      /\ Len(write_buffers[j]) <= TotalPartitions(j)
                      /\ \A i \in DOMAIN read_buffers[j] : read_buffers[j][i] \in DOMAIN buffers
                      /\ \A i \in DOMAIN write_buffers[j] :
                           write_buffers[j][i] \in DOMAIN buffers \cup {NULL}
                      /\ reported[j] \in 0 .. TotalPartitions(j)
  /\ queue \in Seq(Nat)
  /\ faults \subseteq Fault

Init ==
  /\ pc = "probe" /\ cur = 1 /\ job = 1
  /\ parts \in [JobId -> 1 .. MaxParts]
  /\ matches = [max |-> 0, num |-> 0] /\ tokens = {}
  /\ accel = "none" /\ mapped = FALSE /\ mpf = "none"
  /\ is_ok = FALSE /\ csrs = FALSE
  /\ buffers = <<>>
  /\ read_buffers = [j \in JobId |-> <<>>]
  /\ write_buffers = [j \in JobId |-> <<>>]
  \* ProcessingUnit::addWorkItems(d_year): one short of its partitions.
  /\ queue = [i \in 1 .. parts[1] - 1 |-> i - 1]
  /\ result = [j \in JobId |-> <<>>]
  /\ faults = {} /\ reported = [j \in JobId |-> TotalPartitions(j)]
-----------------------------------------------------------------------------
(* The constructor of OPAE_SVC_WRAPPER: probeForASE, findAndOpenAccel. *)

\* Is the hardware simulated?  num_matches starts at 1, so an enumeration that
\* fails leaves a token to look at that nobody filled in.
ProbeForASE ==
  /\ pc = "probe"
  /\ \/ pc' = "find" /\ UNCHANGED faults
     \/ pc' \in {"find", "crashed"} /\ faults' = faults \cup {"enumerate"}
  /\ UNCHANGED <<cur, parts, job, connectVars, bufferVars, scanVars>>

\* Two enumerations: the first gives the size of the array, the second fills
\* it.  Their numbers differ if a call fails or an accelerator comes or goes.
Find ==
  /\ pc = "find"
  /\ \E n \in [max : 0 .. MaxMatches, num : 0 .. MaxMatches] :
       /\ matches' = n
       /\ tokens' = 1 .. Min({n.max, n.num})
       /\ faults' = IF n.max = n.num /\ n.max > 0 THEN faults
                                                  ELSE faults \cup {"enumerate"}
       /\ pc' = IF n.max = 0 THEN "check" ELSE "open"
  /\ UNCHANGED <<cur, parts, job, accel, mapped, mpf, is_ok, csrs, bufferVars, scanVars>>

\* Mutant: an accelerator that is in use ends the constructor.
OpenReturns ==
  /\ pc = "open" /\ cur \in tokens
  /\ \/ accel' = "open" /\ pc' = "map" /\ UNCHANGED faults
     \/ faults' = faults \cup {"open"} /\ pc' = "check" /\ UNCHANGED accel
  /\ UNCHANGED <<parts, cur, job, matches, tokens, mapped, mpf, is_ok, csrs,
                 bufferVars, scanVars>>

\* fpgaOpen fails for an accelerator that is in use; the next one is tried.
Open ==
  /\ pc = "open" /\ cur \in tokens
  /\ \/ accel' = "open" /\ pc' = "map" /\ UNCHANGED <<cur, faults>>
     \/ /\ faults' = faults \cup {"open"}
        /\ cur' = cur + 1
        /\ UNCHANGED <<accel, pc>>
  /\ UNCHANGED <<parts, job, matches, tokens, mapped, mpf, is_ok, csrs,
                 bufferVars, scanVars>>

\* The loop ends at num_matches, which may be past the array.
OpenNone ==
  /\ pc = "open" /\ cur \notin tokens
  /\ pc' \in IF cur <= matches.num THEN {"crashed", "tokens"} ELSE {"tokens"}
  /\ UNCHANGED <<parts, cur, job, connectVars, bufferVars, scanVars, faults>>

\* What fpgaMapMMIO returns is ignored.
MapMMIO ==
  /\ pc = "map" /\ pc' = "mpf"
  /\ mapped' \in BOOLEAN
  /\ faults' = IF mapped' THEN faults ELSE faults \cup {"map"}
  /\ UNCHANGED <<parts, cur, job, matches, tokens, accel, mpf, is_ok, csrs,
                 bufferVars, scanVars>>

ConnectMpf ==
  /\ pc = "mpf" /\ pc' = "tokens"
  /\ is_ok' \in BOOLEAN
  /\ mpf' = IF is_ok' THEN "connected" ELSE "none"
  /\ faults' = IF is_ok' THEN faults ELSE faults \cup {"mpf"}
  /\ UNCHANGED <<parts, cur, job, matches, tokens, accel, mapped, csrs,
                 bufferVars, scanVars>>

DestroyTokens ==
  /\ pc = "tokens"
  /\ tokens' = tokens \ (1 .. matches.num)
  /\ pc' \in IF matches.num > matches.max THEN {"crashed", "check"} ELSE {"check"}
  /\ UNCHANGED <<parts, cur, job, matches, accel, mapped, mpf, is_ok, csrs,
                 bufferVars, scanVars, faults>>

Connect == ProbeForASE \/ Find \/ Open \/ OpenNone \/ MapMMIO \/ ConnectMpf
             \/ DestroyTokens
-----------------------------------------------------------------------------
(* FPGAHandler: connectToFPGA, then the buffers of both jobs. *)

\* Mutant: nobody asks isAFUOK.
CheckNothing ==
  /\ pc = "check"
  /\ csrs' = TRUE
  /\ pc' = "read" /\ cur' = 0
  /\ UNCHANGED <<parts, job, matches, tokens, accel, mapped, mpf, is_ok,
                 bufferVars, scanVars, faults>>

Check ==
  /\ pc = "check"
  /\ csrs' = is_ok
  /\ pc' = IF is_ok THEN "read" ELSE "notify"
  /\ cur' = 0
  /\ UNCHANGED <<parts, job, matches, tokens, accel, mapped, mpf, is_ok,
                 bufferVars, scanVars, faults>>

\* Mutant: one partition too many.
NextPartLate(here, there) ==
  IF cur < TotalPartitions(job) THEN pc' = here /\ cur' = cur + 1 /\ job' = job
  ELSE /\ cur' = 0
       /\ IF job = 1 THEN pc' = here /\ job' = 2 ELSE pc' = there /\ job' = 1

\* The loop over the partitions of one job, from one job's to the next one's.
NextPart(here, there) ==
  IF cur + 1 < TotalPartitions(job) THEN pc' = here /\ cur' = cur + 1 /\ job' = job
  ELSE /\ cur' = 0
       /\ IF job = 1 THEN pc' = here /\ job' = 2 ELSE pc' = there /\ job' = 1

\* What is in the page that is copied: PartData indexes past the partitions the
\* column has if the job was told it has more.
PartData(j, p) == IF p < parts[j] THEN Page(j, p) ELSE Junk

\* Mutant: read_buff_pa is not tested.
PrepareReadAlways ==
  /\ pc = "read"
  /\ \E ioAddress \in BOOLEAN :
       /\ faults' = IF ioAddress THEN faults ELSE faults \cup {"io_address"}
       /\ buffers' = Append(buffers, IF ioAddress THEN PartData(job, cur) ELSE Junk)
       /\ read_buffers' = [read_buffers EXCEPT ![job] = Append(@, Len(buffers) + 1)]
       /\ UNCHANGED reported
  /\ NextPart("read", "write")
  /\ UNCHANGED <<parts, connectVars, scanVars, write_buffers>>

\* prepareReadBuffer, and the push_back: a buffer without an I/O address is
\* only reported, and the ones behind it move up in the vector.
PrepareRead ==
  /\ pc = "read"
  /\ \E ioAddress \in BOOLEAN :
       /\ buffers' = Append(buffers, PartData(job, cur))
       /\ IF ioAddress
          THEN /\ read_buffers' = [read_buffers EXCEPT ![job] =
                                     Append(@, Len(buffers) + 1)]
               /\ UNCHANGED <<faults, reported>>
          ELSE /\ faults' = faults \cup {"io_address"}
               /\ reported' = [reported EXCEPT ![job] = Min({@, cur})]
               /\ UNCHANGED read_buffers
  /\ NextPart("read", "write")
  /\ UNCHANGED <<parts, connectVars, scanVars, write_buffers>>

\* allocBuffer returns NULL and the page is copied there before anyone looks; or
\* the page itself is one the column does not have.
PrepareReadCrashes ==
  /\ pc = "read" /\ pc' = "crashed"
  /\ \/ faults' = faults \cup {"alloc"}
     \/ cur >= parts[job] /\ UNCHANGED faults
  /\ UNCHANGED <<parts, cur, job, connectVars, bufferVars, scanVars>>

\* prepareResultBuffersForFPGA pushes what allocBuffer returns, NULL included.
PrepareWrite ==
  /\ pc = "write"
  /\ \/ /\ buffers' = Append(buffers, Junk)
        /\ write_buffers' = [write_buffers EXCEPT ![job] = Append(@, Len(buffers) + 1)]
        /\ UNCHANGED faults
     \/ /\ faults' = faults \cup {"alloc"}
        /\ write_buffers' = [write_buffers EXCEPT ![job] = Append(@, NULL)]
        /\ UNCHANGED buffers
  /\ NextPart("write", "notify")
  /\ UNCHANGED <<parts, connectVars, scanVars, read_buffers, reported>>

Prepare == Check \/ PrepareRead \/ PrepareReadCrashes \/ PrepareWrite
-----------------------------------------------------------------------------
(* FPGAHandler::run after the FPGA barrier. *)

Goto(l) == pc' = l /\ UNCHANGED <<parts, cur, job, connectVars, bufferVars>>

\* notifyFPGA goes through csrs, which is NULL after a failed connection.
Notify ==
  /\ pc = "notify"
  /\ Goto(IF csrs THEN "scan" ELSE "crashed")
  /\ UNCHANGED <<scanVars, faults>>

\* Mutant: the AFU is given the read buffer of the next partition.
ReadBufferNext(p) ==
  IF p + 2 \in DOMAIN read_buffers[job] THEN read_buffers[job][p + 2] ELSE NULL

\* The buffers the AFU is given for a work unit.  An index past the end of a
\* vector gives anything; NULL stands for it.
ReadBuffer(p) ==
  IF p + 1 \in DOMAIN read_buffers[job] THEN read_buffers[job][p + 1] ELSE NULL
WriteBuffer(p) == write_buffers[job][p + 1]

\* The AFU filters the page it was given and the poll answers.
ScanUnit ==
  /\ pc = "scan" /\ queue # <<>>
  /\ mapped
  /\ LET r == ReadBuffer(Head(queue)) w == WriteBuffer(Head(queue)) IN
       /\ r # NULL /\ w # NULL
       /\ buffers' = [buffers EXCEPT ![w] = Filtered(buffers[r])]
  /\ queue' = Tail(queue)
  /\ UNCHANGED <<pc, parts, cur, job, connectVars, read_buffers, write_buffers,
                 reported, result, faults>>

\* An MMIO access fails (readCSR answers -1, which ends the poll; a lost store
\* may leave it spinning), or the AFU cannot reach a buffer.
ScanUnitFails ==
  /\ pc = "scan" /\ queue # <<>>
  /\ IF ReadBuffer(Head(queue)) = NULL \/ WriteBuffer(Head(queue)) = NULL \/ ~mapped
     THEN UNCHANGED faults
     ELSE faults' = faults \cup {"mmio"}
  /\ pc' \in {"scan", "hung"} \cup
             (IF ReadBuffer(Head(queue)) = NULL THEN {"crashed"} ELSE {})
  /\ queue' = Tail(queue)
  /\ UNCHANGED <<parts, cur, job, connectVars, bufferVars, result>>

ScanEnds ==
  /\ pc = "scan" /\ queue = <<>>
  /\ Goto("copy")
  /\ UNCHANGED <<scanVars, faults>>

\* copyFPGAWriteBuffer for every partition, countBitResults, and the next scan.
\* A NULL buffer is read; results past the vector the column reserved overwrite
\* what is behind it.
CopyResults ==
  LET NullBuffer == \E i \in DOMAIN write_buffers[job] : write_buffers[job][i] = NULL IN
    /\ pc = "copy"
    /\ \/ /\ NullBuffer \/ TotalPartitions(job) > parts[job]
          /\ pc' = "crashed"
          /\ UNCHANGED <<job, scanVars>>
       \/ /\ ~NullBuffer
          /\ result' = [result EXCEPT ![job] =
               [i \in 1 .. TotalPartitions(job) |-> buffers[write_buffers[job][i]]]]
          /\ IF job = 1
             THEN /\ pc' = "notify" /\ job' = 2
                  /\ queue' = [i \in 1 .. TotalPartitions(2) |-> i - 1]
             ELSE pc' = "done" /\ UNCHANGED <<job, queue>>
    /\ UNCHANGED <<parts, cur, connectVars, bufferVars, faults>>

\* notifyFPGA(QUERY_DONE)
Done ==
  /\ pc = "done" /\ Goto("release")
  /\ UNCHANGED <<scanVars, faults>>

\* releaseAllBuffers passes freeBuffer the first word of each vector, the
\* address of its storage: no buffer is known under that address.
ReleaseAllBuffers ==
  /\ pc = "release" /\ Goto("delete")
  /\ UNCHANGED <<scanVars, faults>>

Scans == \/ Notify \/ ScanUnit \/ ScanUnitFails \/ ScanEnds \/ CopyResults
         \/ Done \/ ReleaseAllBuffers
-----------------------------------------------------------------------------
(* ~AFU_HANDLER, when main deletes the FPGA handler: ~OPAE_SVC_WRAPPER. *)

DisconnectMpf ==
  /\ pc = "delete" /\ pc' = "unmap"
  /\ csrs' = FALSE
  /\ mpf' = "disconnected"
  /\ UNCHANGED <<parts, cur, job, matches, tokens, accel, mapped, is_ok,
                 bufferVars, scanVars, faults>>

UnmapMMIO ==
  /\ pc = "unmap" /\ pc' = "close"
  /\ mapped' = FALSE
  /\ UNCHANGED <<parts, cur, job, matches, tokens, accel, mpf, is_ok, csrs,
                 bufferVars, scanVars, faults>>

Close ==
  /\ pc = "close" /\ pc' = "ended"
  /\ accel' = "closed"
  /\ UNCHANGED <<parts, cur, job, matches, tokens, mapped, mpf, is_ok, csrs,
                 bufferVars, scanVars, faults>>

Ended == pc \in {"ended", "crashed", "hung"} /\ UNCHANGED vars

Step == Connect \/ Prepare \/ Scans \/ DisconnectMpf \/ UnmapMMIO \/ Close

Next == Step \/ Ended

Spec == Init /\ [][Next]_vars

\* The FPGA thread and, after it, the main thread are scheduled.
FairSpec == Spec /\ WF_vars(Step)
-----------------------------------------------------------------------------
\* No token outlives the constructor, whichever of its calls failed, and while
\* it lasts every accelerator it may still try has its token.
TokensReturned ==
  /\ pc \notin {"open", "map", "mpf", "tokens", "crashed"} => tokens = {}
  /\ pc \in {"open", "map", "mpf"} => tokens = 1 .. Min({matches.max, matches.num})

\* Buffers are allocated, filled by the AFU and handed on only through a handle
\* that is open, with MPF connected on top; and MPF and the MMIO space are given
\* back before the handle they belong to.
LiveHandles ==
  [][/\ buffers' # buffers \/ result' # result =>
          accel = "open" /\ mpf = "connected" /\ csrs
     /\ accel = "open" /\ accel' = "closed" => mpf # "connected" /\ ~mapped]_vars

\* The constant 732 of run() is not more than the column has.
EnoughParts == ForcedParts <= parts[2]

Units(j) == 0 .. TotalPartitions(j) - (IF j = 1 THEN 2 ELSE 1)

\* The result copied for a partition is the filter of its own page, although
\* buffers are found by their place in a vector that a failed allocation leaves
\* one short: all partitions before the first one reported have their own.  The
\* others do not, nor has any after a failed MMIO call, which nobody notices.
OwnResults ==
  \A j \in JobId :
    result[j] # <<>> /\ faults \cap {"mmio", "map"} = {} /\ (j = 2 => EnoughParts) =>
      \A p \in Units(j) : p < reported[j] => result[j][p + 1] = Filtered(Page(j, p))

\* A query on working hardware comes to its end and closes the accelerator: it
\* neither crashes nor hangs.
EndsWithoutFault ==
  <>(faults # {} \/ ~EnoughParts \/ (pc = "ended" /\ accel = "closed"))

\* FPGAHandler.h:254 "Buffers released!"
BuffersReleased == pc = "ended" => buffers = <<>>
=============================================================================
