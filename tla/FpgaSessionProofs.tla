-------------------------- MODULE FpgaSessionProofs --------------------------
(***************************************************************************)
(* FpgaSession's invariants hold for columns of any number of pages, any   *)
(* number of accelerators, and whichever driver calls fail.                *)
(*                                                                         *)
(* The inductive invariant follows the session: what the constructor has   *)
(* opened (TokenInv, HandleInv), what the vectors of buffers hold while    *)
(* they are filled (VectorInv, PageInv), and how far the scan of the       *)
(* current job has come (QueueInv, FilteredInv).                           *)
(***************************************************************************)
EXTENDS FpgaSession, TLAPS

Opening == {"probe", "find", "open", "map", "mpf", "tokens", "check"}
Preparing == {"read", "write"}
Scanning == {"notify", "scan", "copy"}

SessionPC == Opening \cup Preparing \cup Scanning \cup
  {"done", "release", "delete", "unmap", "close", "ended", "crashed", "hung"}

TokenInv ==
  /\ matches \in [max : 0 .. MaxMatches, num : 0 .. MaxMatches]
  /\ tokens \subseteq 1 .. MaxMatches
  /\ pc \notin {"open", "map", "mpf", "tokens", "crashed"} => tokens = {}
  /\ pc \in {"open", "map", "mpf", "tokens"} =>
       tokens = 1 .. Min({matches.max, matches.num})

HandleInv ==
  /\ {mapped, is_ok, csrs} \subseteq BOOLEAN
  /\ accel \in {"none", "open", "closed"}
  /\ mpf \in {"none", "connected", "disconnected"}
  /\ pc \in Opening \cup {"unmap", "close", "ended"} => ~csrs
  /\ pc \in {"probe", "find", "open", "map", "mpf"} => ~is_ok
  /\ pc \in {"map", "mpf"} => accel = "open"
  /\ pc \in {"tokens", "check"} /\ is_ok => accel = "open" /\ mpf = "connected"
  /\ pc \in Preparing \cup {"scan", "copy", "done", "release", "delete"} => csrs
  /\ csrs => is_ok /\ accel = "open" /\ mpf = "connected"
  /\ pc \in {"unmap", "close"} => mpf = "disconnected"
  /\ pc = "close" => ~mapped
  \* An MMIO space that is not there is known to have failed.
  /\ ~mapped /\ (pc = "mpf" \/ (is_ok /\ pc \in {"tokens", "check"} \cup Preparing \cup Scanning))
       => "map" \in faults

\* How many partitions of job j the loop at pc = "read", or "write", has done.
Reads(j) ==
  IF pc \in Opening \/ (pc = "notify" /\ ~csrs) THEN 0
  ELSE IF pc = "read" THEN IF j < job THEN TotalPartitions(j)
                           ELSE IF j = job THEN cur ELSE 0
  ELSE TotalPartitions(j)

Writes(j) ==
  IF pc \in Opening \cup {"read"} \/ (pc = "notify" /\ ~csrs) THEN 0
  ELSE IF pc = "write" THEN IF j < job THEN TotalPartitions(j)
                            ELSE IF j = job THEN cur ELSE 0
  ELSE TotalPartitions(j)

\* The vectors, and what their entries may be.
VectorInv ==
  /\ parts \in [JobId -> 1 .. MaxParts]
  /\ job \in JobId /\ cur \in Nat
  /\ pc \in Opening => job = 1
  /\ pc \in Preparing => cur < TotalPartitions(job)
  /\ buffers \in Seq(Content)
  /\ read_buffers \in [JobId -> Seq(Nat)]
  /\ write_buffers \in [JobId -> Seq(Nat)]
  /\ reported \in [JobId -> Nat]
  /\ \A j \in JobId :
       /\ Len(read_buffers[j]) <= TotalPartitions(j)
       /\ Len(write_buffers[j]) <= TotalPartitions(j)
       /\ reported[j] <= TotalPartitions(j)
       /\ \A i \in DOMAIN read_buffers[j] : read_buffers[j][i] \in DOMAIN buffers
       /\ \A i \in DOMAIN write_buffers[j] :
            write_buffers[j][i] \in DOMAIN buffers \cup {NULL}

\* No two entries are the same buffer, but for those that are NULL.
SeparateInv ==
  /\ \A j, k \in JobId : \A i \in DOMAIN write_buffers[j], l \in DOMAIN read_buffers[k] :
       write_buffers[j][i] # read_buffers[k][l]
  /\ \A j, k \in JobId : \A i \in DOMAIN write_buffers[j], l \in DOMAIN write_buffers[k] :
       write_buffers[j][i] = write_buffers[k][l] /\ write_buffers[j][i] # NULL
         => j = k /\ i = l

\* The vectors are as long as the loops have come, and up to the first page
\* reported each read buffer holds the page of its place.
PageInv ==
  pc \in Opening \cup Preparing \cup Scanning =>
    \A j \in JobId :
      /\ Len(write_buffers[j]) = Writes(j)
      /\ Len(read_buffers[j]) <= Reads(j)
      /\ reported[j] >= Reads(j) => Len(read_buffers[j]) = Reads(j)
      /\ reported[j] < Reads(j) => Len(read_buffers[j]) >= reported[j]
      /\ \A i \in DOMAIN read_buffers[j] :
           i <= reported[j] => buffers[read_buffers[j][i]] = PartData(j, i - 1)

\* The partitions of job j that are queued, and the job the queue is for.
Planned(j) == IF j = 1 THEN parts[1] - 1 ELSE TotalPartitions(j)
ScanJob == IF pc \in Scanning THEN job ELSE 1

QueueInv ==
  /\ queue \in Seq(Nat)
  /\ pc \in Opening \cup Preparing \cup Scanning =>
       /\ Len(queue) <= Planned(ScanJob)
       /\ \A i \in DOMAIN queue : queue[i] = Planned(ScanJob) - Len(queue) + i - 1
       /\ pc = "copy" => queue = <<>>
       /\ pc \notin {"scan", "copy"} => Len(queue) = Planned(ScanJob)

\* The results of the job being scanned, so far.
FilteredInv ==
  /\ faults \subseteq Fault /\ result \in [JobId -> Seq(Content)]
  /\ pc \in {"scan", "copy"} /\ faults \cap {"mmio", "map"} = {} /\ (job = 2 => EnoughParts) =>
       \A i \in DOMAIN write_buffers[job] :
         i <= Planned(job) - Len(queue) /\ i <= reported[job] /\ write_buffers[job][i] # NULL
           => buffers[write_buffers[job][i]] = Filtered(Page(job, i - 1))
  /\ pc \in Opening \cup Preparing => \A j \in JobId : result[j] = <<>>

\* A step that leaves the vectors and the counts of the loops alone.
Quiet ==
  /\ UNCHANGED <<parts, bufferVars>>
  /\ job' \in JobId /\ cur' \in Nat
  /\ pc' \in Opening => job' = 1
  /\ pc' \in Preparing => cur' < TotalPartitions(job)'
  /\ pc' \in Opening \cup Preparing \cup Scanning =>
       /\ pc \in Opening \cup Preparing \cup Scanning
       /\ \A j \in JobId : Reads(j)' = Reads(j) /\ Writes(j)' = Writes(j)

PcInv == pc \in SessionPC

IInv == /\ PcInv /\ TokenInv /\ HandleInv /\ VectorInv /\ SeparateInv /\ PageInv
        /\ QueueInv /\ FilteredInv /\ OwnResults
-----------------------------------------------------------------------------
(* Lemmas. *)

\* Min of the community modules, of two numbers.
LEMMA MinOfTwo ==
  ASSUME NEW a \in Nat, NEW b \in Nat
  PROVE  Min({a, b}) = IF a <= b THEN a ELSE b
<1> DEFINE P(x) == x \in {a, b} /\ \A y \in {a, b} : x <= y
<1>1. P(IF a <= b THEN a ELSE b)
  OBVIOUS
<1>2. \A x : P(x) => x = IF a <= b THEN a ELSE b
  OBVIOUS
<1>3. Min({a, b}) = CHOOSE x : P(x)
  BY DEF Min
<1> HIDE DEF P
<1>4. P(CHOOSE x : P(x))
  BY <1>1
<1> QED
  BY <1>2, <1>3, <1>4

LEMMA Totals ==
  ASSUME VectorInv
  PROVE  /\ TotalPartitions(1) = parts[1] /\ TotalPartitions(2) = ForcedParts
         /\ \A j \in JobId : TotalPartitions(j) \in Nat \ {0}
         /\ parts' = parts => \A j \in JobId : TotalPartitions(j)' = TotalPartitions(j)
BY FpgaSessionAssumption DEF TotalPartitions, Job, VectorInv, JobId

-----------------------------------------------------------------------------
(* What the constructor has opened. *)

LEMMA TokenStep == TokenInv /\ [Next]_vars => TokenInv'
<1> SUFFICES ASSUME TokenInv, [Next]_vars PROVE TokenInv'
  OBVIOUS
<1> USE DEF TokenInv, connectVars, scanVars, bufferVars
<1>1. CASE ProbeForASE
  BY <1>1 DEF ProbeForASE
<1>2. CASE Find
  <2>1. PICK n \in [max : 0 .. MaxMatches, num : 0 .. MaxMatches] :
          /\ matches' = n /\ tokens' = 1 .. Min({n.max, n.num})
          /\ pc' = IF n.max = 0 THEN "check" ELSE "open"
    BY <1>2 DEF Find
  <2>2. Min({n.max, n.num}) = IF n.max <= n.num THEN n.max ELSE n.num
    BY FpgaSessionAssumption, MinOfTwo
  <2>3. tokens' \subseteq 1 .. MaxMatches
    BY <2>1, <2>2, FpgaSessionAssumption
  <2>4. n.max = 0 => tokens' = {}
    BY <2>1, <2>2
  <2> QED
    BY <2>1, <2>3, <2>4
<1>3. CASE Open
  BY <1>3 DEF Open
<1>4. CASE OpenNone
  BY <1>4 DEF OpenNone
<1>5. CASE MapMMIO \/ ConnectMpf
  BY <1>5 DEF MapMMIO, ConnectMpf
<1>6. CASE DestroyTokens
  <2>1. Min({matches.max, matches.num}) =
          IF matches.max <= matches.num THEN matches.max ELSE matches.num
    BY FpgaSessionAssumption, MinOfTwo
  <2>2. tokens' = {} /\ matches' = matches /\ pc' \in {"crashed", "check"}
    BY <1>6, <2>1, FpgaSessionAssumption DEF DestroyTokens
  <2> QED
    BY <2>2
<1>7. CASE Prepare
  <2>1. pc' \in {"read", "write", "notify", "crashed"} /\ UNCHANGED <<matches, tokens>>
        /\ pc \in {"check", "read", "write"}
    BY <1>7 DEF Prepare, Check, PrepareRead, PrepareReadCrashes, PrepareWrite, NextPart
  <2> QED
    BY <2>1
<1>8. CASE Scans
  <2>1. /\ pc' \in {"scan", "copy", "crashed", "hung", "notify", "done", "release", "delete"}
        /\ UNCHANGED <<matches, tokens>>
        /\ pc \in {"notify", "scan", "copy", "done", "release"}
    BY <1>8 DEF Scans, Notify, ScanUnit, ScanUnitFails, ScanEnds, CopyResults, Done,
                ReleaseAllBuffers, Goto
  <2> QED
    BY <2>1
<1>9. CASE DisconnectMpf \/ UnmapMMIO \/ Close
  BY <1>9 DEF DisconnectMpf, UnmapMMIO, Close
<1>10. CASE UNCHANGED vars
  BY <1>10 DEF vars
<1> QED
  BY <1>1, <1>2, <1>3, <1>4, <1>5, <1>6, <1>7, <1>8, <1>9, <1>10 DEF Next, Step, Connect, Ended

LEMMA HandleStep == HandleInv /\ [Next]_vars => HandleInv'
<1> SUFFICES ASSUME HandleInv, [Next]_vars PROVE HandleInv'
  OBVIOUS
<1> USE DEF HandleInv, Opening, Preparing, Scanning, connectVars, scanVars, bufferVars
<1>1. CASE ProbeForASE \/ Find
  <2>1. /\ UNCHANGED <<accel, mapped, mpf, is_ok, csrs>> /\ faults \subseteq faults'
        /\ pc \in {"probe", "find"} /\ pc' \in {"find", "crashed", "check", "open"}
    BY <1>1 DEF ProbeForASE, Find
  <2> QED
    BY <2>1
<1>2. CASE Open \/ OpenNone
  BY <1>2 DEF Open, OpenNone
<1>3. CASE MapMMIO
  BY <1>3 DEF MapMMIO
<1>4. CASE ConnectMpf \/ DestroyTokens
  BY <1>4 DEF ConnectMpf, DestroyTokens
<1>5. CASE Check
  BY <1>5 DEF Check
<1>6. CASE PrepareRead \/ PrepareReadCrashes \/ PrepareWrite
  <2>1. /\ UNCHANGED connectVars /\ faults \subseteq faults'
        /\ pc \in Preparing /\ pc' \in Preparing \cup {"notify", "crashed"}
    BY <1>6 DEF PrepareRead, PrepareReadCrashes, PrepareWrite, NextPart
  <2> QED
    BY <2>1
<1>7. CASE Notify
  BY <1>7 DEF Notify, Goto
<1>8. CASE ScanUnit \/ ScanUnitFails \/ ScanEnds
  <2>1. /\ UNCHANGED connectVars /\ faults \subseteq faults'
        /\ pc = "scan" /\ pc' \in {"scan", "copy", "hung", "crashed"}
    BY <1>8 DEF ScanUnit, ScanUnitFails, ScanEnds, Goto
  <2> QED
    BY <2>1
<1>9. CASE CopyResults
  <2>1. /\ UNCHANGED <<connectVars, faults>>
        /\ pc = "copy" /\ pc' \in {"crashed", "notify", "done"}
    BY <1>9 DEF CopyResults
  <2> QED
    BY <2>1
<1>10. CASE Done \/ ReleaseAllBuffers
  BY <1>10 DEF Done, ReleaseAllBuffers, Goto
<1>11. CASE DisconnectMpf
  BY <1>11 DEF DisconnectMpf
<1>12. CASE UnmapMMIO
  BY <1>12 DEF UnmapMMIO
<1>13. CASE Close
  BY <1>13 DEF Close
<1>14. CASE UNCHANGED vars
  BY <1>14 DEF vars
<1> QED
  BY <1>1, <1>2, <1>3, <1>4, <1>5, <1>6, <1>7, <1>8, <1>9, <1>10, <1>11, <1>12, <1>13,
     <1>14
     DEF Next, Step, Connect, Prepare, Scans, Ended

-----------------------------------------------------------------------------
(* The vectors of buffers. *)

LEMMA QuietStep ==
  ASSUME VectorInv, HandleInv, [Next]_vars, ~PrepareRead, ~PrepareWrite, ~ScanUnit
  PROVE  Quiet
<1> USE DEF Opening, Preparing, Scanning, connectVars, scanVars
<1>1. /\ job \in JobId /\ cur \in Nat /\ parts[1] \in Nat \ {0}
      /\ TotalPartitions(1) = parts[1] /\ TotalPartitions(2) = ForcedParts
      /\ pc \in Opening => job = 1
      /\ pc \in Preparing => cur < TotalPartitions(job)
  BY Totals DEF VectorInv, JobId
<1>2. CASE Connect
  <2>1. /\ UNCHANGED <<parts, bufferVars, job, csrs>> /\ cur' \in Nat
        /\ pc \in Opening /\ pc' \in Opening \cup {"crashed"}
    <3>1. CASE ProbeForASE \/ Find
      BY <1>1, <3>1 DEF ProbeForASE, Find
    <3>2. CASE Open \/ OpenNone
      BY <1>1, <3>2 DEF Open, OpenNone
    <3>3. CASE MapMMIO \/ ConnectMpf \/ DestroyTokens
      BY <1>1, <3>3 DEF MapMMIO, ConnectMpf, DestroyTokens
    <3> QED
      BY <1>2, <3>1, <3>2, <3>3 DEF Connect
  <2> QED
    BY <1>1, <2>1 DEF Quiet, Reads, Writes
<1>3. CASE Check
  <2>1. /\ UNCHANGED <<parts, bufferVars, job>> /\ cur' = 0 /\ pc = "check" /\ job = 1
        /\ pc' = IF csrs' THEN "read" ELSE "notify"
    BY <1>1, <1>3 DEF Check
  <2>2. TotalPartitions(job)' = parts[1]
    BY <1>1, <2>1 DEF TotalPartitions, Job
  <2>3. \A j \in JobId : Reads(j)' = 0 /\ Writes(j)' = 0 /\ Reads(j) = 0 /\ Writes(j) = 0
    BY <2>1 DEF Reads, Writes, JobId
  <2> QED
    BY <1>1, <2>1, <2>2, <2>3 DEF Quiet, JobId
<1>4. CASE PrepareReadCrashes
  BY <1>1, <1>4 DEF PrepareReadCrashes, Quiet
<1>5. CASE Notify \/ ScanUnitFails \/ ScanEnds \/ CopyResults
  <2>1. /\ UNCHANGED <<parts, bufferVars, csrs, cur>> /\ job' \in JobId
        /\ pc \in Scanning /\ (pc = "notify" /\ ~csrs => pc' = "crashed")
        /\ pc' \in Scanning \cup {"hung", "crashed", "done"} /\ (pc \in {"scan", "copy"} => csrs)
    BY <1>1, <1>5 DEF Notify, ScanUnitFails, ScanEnds, CopyResults, Goto, HandleInv, JobId
  <2>2. \A j \in JobId : TotalPartitions(j)' = TotalPartitions(j)
    BY <2>1, Totals
  <2>3. ASSUME pc' \in Scanning
        PROVE  \A j \in JobId : Reads(j)' = Reads(j) /\ Writes(j)' = Writes(j)
    BY <2>1, <2>2, <2>3 DEF Reads, Writes
  <2> QED
    BY <1>1, <2>1, <2>3 DEF Quiet
<1>6. CASE Done \/ ReleaseAllBuffers \/ DisconnectMpf \/ UnmapMMIO \/ Close
  <2>1. /\ UNCHANGED <<parts, bufferVars, job, cur>>
        /\ pc' \in {"release", "delete", "unmap", "close", "ended"}
    BY <1>6 DEF Done, ReleaseAllBuffers, DisconnectMpf, UnmapMMIO, Close, Goto
  <2> QED
    BY <1>1, <2>1 DEF Quiet
<1>7. CASE UNCHANGED vars
  <2>1. \A j \in JobId : TotalPartitions(j)' = TotalPartitions(j)
    BY <1>7, Totals DEF vars
  <2>2. \A j \in JobId : Reads(j)' = Reads(j) /\ Writes(j)' = Writes(j)
    BY <1>7, <2>1 DEF vars, Reads, Writes
  <2>3. TotalPartitions(job)' = TotalPartitions(job)
    BY <1>7 DEF vars, TotalPartitions
  <2> QED
    BY <1>1, <1>7, <2>2, <2>3 DEF vars, Quiet
<1> QED
  BY <1>2, <1>3, <1>4, <1>5, <1>6, <1>7 DEF Next, Step, Prepare, Scans, Ended

LEMMA QuietVectors ==
  ASSUME VectorInv, SeparateInv, PageInv, Quiet
  PROVE  VectorInv' /\ SeparateInv' /\ PageInv'
<1> USE DEF Quiet, bufferVars
<1>1. \A j \in JobId : TotalPartitions(j)' = TotalPartitions(j)
  BY Totals
<1>2. VectorInv'
  BY <1>1 DEF VectorInv
<1>3. SeparateInv'
  BY DEF SeparateInv
<1>4. \A j, p : PartData(j, p)' = PartData(j, p)
  BY DEF PartData
<1>5. PageInv'
  BY <1>4 DEF PageInv
<1> QED
  BY <1>2, <1>3, <1>5

LEMMA NextRead ==
  ASSUME VectorInv, PrepareRead
  PROVE  /\ job' \in JobId /\ cur' \in Nat /\ pc' \in Preparing
         /\ cur' < TotalPartitions(job)'
         /\ cur = Reads(job)
         /\ \A j \in JobId : /\ Reads(j) \in Nat
                             /\ Reads(j)' = IF j = job THEN Reads(j) + 1 ELSE Reads(j)
                             /\ Writes(j) = 0 /\ Writes(j)' = 0
<1> USE DEF Opening, Preparing, JobId
<1>1. /\ job \in JobId /\ cur \in Nat /\ pc = "read" /\ parts' = parts
      /\ cur < TotalPartitions(job)
  BY DEF PrepareRead, VectorInv
<1>2. /\ TotalPartitions(1) \in Nat \ {0} /\ TotalPartitions(2) \in Nat \ {0}
      /\ TotalPartitions(1)' = TotalPartitions(1) /\ TotalPartitions(2)' = TotalPartitions(2)
  BY <1>1, Totals
<1>3. NextPart("read", "write")
  BY DEF PrepareRead
<1>4. \A j \in JobId : Writes(j) = 0
  BY <1>1 DEF Writes
<1>5. CASE cur + 1 < TotalPartitions(job)
  <2>1. pc' = "read" /\ cur' = cur + 1 /\ job' = job
    BY <1>3, <1>5 DEF NextPart
  <2>2. TotalPartitions(job)' = TotalPartitions(job)
    BY <1>1, <1>2, <2>1
  <2> QED
    BY <1>1, <1>2, <1>4, <1>5, <2>1, <2>2 DEF Reads, Writes
<1>6. CASE ~(cur + 1 < TotalPartitions(job)) /\ job = 1
  <2>1. pc' = "read" /\ cur' = 0 /\ job' = 2 /\ cur + 1 = TotalPartitions(1)
    BY <1>1, <1>2, <1>3, <1>6 DEF NextPart
  <2>2. TotalPartitions(job)' = TotalPartitions(2)
    BY <1>1, <1>2, <2>1 DEF TotalPartitions
  <2> QED
    BY <1>1, <1>2, <1>4, <1>6, <2>1, <2>2 DEF Reads, Writes
<1>7. CASE ~(cur + 1 < TotalPartitions(job)) /\ job = 2
  <2>1. pc' = "write" /\ cur' = 0 /\ job' = 1 /\ cur + 1 = TotalPartitions(2)
    BY <1>1, <1>2, <1>3, <1>7 DEF NextPart
  <2>2. TotalPartitions(job)' = TotalPartitions(1)
    BY <1>1, <1>2, <2>1 DEF TotalPartitions
  <2> QED
    BY <1>1, <1>2, <1>4, <1>7, <2>1, <2>2 DEF Reads, Writes
<1> QED
  BY <1>1, <1>5, <1>6, <1>7

LEMMA NextWrite ==
  ASSUME VectorInv, HandleInv, PrepareWrite
  PROVE  /\ job' \in JobId /\ cur' \in Nat /\ pc' \in {"write", "notify"}
         /\ pc' = "write" => cur' < TotalPartitions(job)'
         /\ pc' = "notify" => job' = 1
         /\ cur = Writes(job)
         /\ \A j \in JobId : /\ Writes(j) \in Nat
                             /\ Writes(j)' = IF j = job THEN Writes(j) + 1 ELSE Writes(j)
                             /\ Reads(j)' = Reads(j)
<1> USE DEF Opening, Preparing, JobId
<1>1. /\ job \in JobId /\ cur \in Nat /\ pc = "write" /\ parts' = parts
      /\ cur < TotalPartitions(job) /\ csrs /\ csrs' = csrs
  BY DEF PrepareWrite, VectorInv, HandleInv, connectVars
<1>2. /\ TotalPartitions(1) \in Nat \ {0} /\ TotalPartitions(2) \in Nat \ {0}
      /\ TotalPartitions(1)' = TotalPartitions(1) /\ TotalPartitions(2)' = TotalPartitions(2)
  BY <1>1, Totals
<1>3. NextPart("write", "notify")
  BY DEF PrepareWrite
<1>4. CASE cur + 1 < TotalPartitions(job)
  <2>1. pc' = "write" /\ cur' = cur + 1 /\ job' = job
    BY <1>3, <1>4 DEF NextPart
  <2>2. TotalPartitions(job)' = TotalPartitions(job)
    BY <1>1, <1>2, <2>1
  <2> QED
    BY <1>1, <1>2, <1>4, <2>1, <2>2 DEF Reads, Writes
<1>5. CASE ~(cur + 1 < TotalPartitions(job)) /\ job = 1
  <2>1. pc' = "write" /\ cur' = 0 /\ job' = 2 /\ cur + 1 = TotalPartitions(1)
    BY <1>1, <1>2, <1>3, <1>5 DEF NextPart
  <2>2. TotalPartitions(job)' = TotalPartitions(2)
    BY <1>1, <1>2, <2>1 DEF TotalPartitions
  <2> QED
    BY <1>1, <1>2, <1>5, <2>1, <2>2 DEF Reads, Writes
<1>6. CASE ~(cur + 1 < TotalPartitions(job)) /\ job = 2
  <2>1. pc' = "notify" /\ cur' = 0 /\ job' = 1 /\ cur + 1 = TotalPartitions(2)
    BY <1>1, <1>2, <1>3, <1>6 DEF NextPart
  <2> QED
    BY <1>1, <1>2, <1>6, <2>1 DEF Reads, Writes
<1> QED
  BY <1>1, <1>4, <1>5, <1>6

LEMMA PartDataType ==
  ASSUME VectorInv, NEW j \in JobId, NEW p \in Nat
  PROVE  PartData(j, p) \in Content
BY DEF PartData, Page, Content, Junk

LEMMA AppendFacts ==
  ASSUME NEW S, NEW s \in Seq(S), NEW e \in S
  PROVE  /\ Append(s, e) \in Seq(S)
         /\ Len(s) \in Nat /\ Len(Append(s, e)) = Len(s) + 1
         /\ DOMAIN s = 1 .. Len(s) /\ DOMAIN Append(s, e) = 1 .. Len(s) + 1
         /\ \A i \in DOMAIN s : Append(s, e)[i] = s[i]
         /\ Append(s, e)[Len(s) + 1] = e
OBVIOUS

LEMMA ReadVectors ==
  ASSUME VectorInv, SeparateInv, PageInv, PrepareRead
  PROVE  VectorInv' /\ SeparateInv' /\ PageInv'
<1>1. PICK ioAddress \in BOOLEAN :
        /\ buffers' = Append(buffers, PartData(job, cur))
        /\ IF ioAddress
           THEN /\ read_buffers' = [read_buffers EXCEPT ![job] = Append(@, Len(buffers) + 1)]
                /\ UNCHANGED <<faults, reported>>
           ELSE /\ faults' = faults \cup {"io_address"}
                /\ reported' = [reported EXCEPT ![job] = Min({@, cur})]
                /\ UNCHANGED read_buffers
  BY DEF PrepareRead
<1>2. /\ pc = "read" /\ UNCHANGED <<parts, write_buffers>>
      /\ job \in JobId /\ cur \in Nat /\ cur < TotalPartitions(job)
      /\ buffers \in Seq(Content) /\ PartData(job, cur) \in Content
  BY PartDataType DEF PrepareRead, VectorInv, Preparing
<1>3. \A j \in JobId : TotalPartitions(j)' = TotalPartitions(j) /\ TotalPartitions(j) \in Nat
  BY <1>2, Totals
<1>4. /\ buffers' \in Seq(Content) /\ Len(buffers') = Len(buffers) + 1
      /\ Len(buffers) \in Nat
      /\ \A i \in DOMAIN buffers : i \in DOMAIN buffers' /\ buffers'[i] = buffers[i]
      /\ Len(buffers) + 1 \in DOMAIN buffers' /\ Len(buffers) + 1 \notin DOMAIN buffers
      /\ buffers'[Len(buffers) + 1] = PartData(job, cur)
  BY <1>1, <1>2
<1>5. Min({reported[job], cur}) = IF reported[job] <= cur THEN reported[job] ELSE cur
  BY <1>2, MinOfTwo DEF VectorInv
<1>6. \A j \in JobId :
        /\ read_buffers[j] \in Seq(Nat) /\ reported[j] \in Nat
        /\ Len(write_buffers[j]) = 0 /\ DOMAIN write_buffers[j] = {}
        /\ Len(read_buffers[j]) <= Reads(j)
        /\ reported[j] >= Reads(j) => Len(read_buffers[j]) = Reads(j)
        /\ reported[j] < Reads(j) => Len(read_buffers[j]) >= reported[j]
        /\ \A i \in DOMAIN read_buffers[j] :
             i <= reported[j] => buffers[read_buffers[j][i]] = PartData(j, i - 1)
        /\ \A i \in DOMAIN read_buffers[j] : read_buffers[j][i] \in DOMAIN buffers
  <2>1. \A j \in JobId : Len(write_buffers[j]) = 0
    BY <1>2, NextRead DEF PageInv, Preparing
  <2> QED
    BY <1>2, <2>1 DEF VectorInv, PageInv, Preparing
<1>7. \A j, p : PartData(j, p)' = PartData(j, p)
  BY <1>2 DEF PartData
<1>8. \A j \in JobId :
        /\ read_buffers'[j] = IF ioAddress /\ j = job
                              THEN Append(read_buffers[j], Len(buffers) + 1)
                              ELSE read_buffers[j]
        /\ reported'[j] = IF ~ioAddress /\ j = job /\ cur < reported[j] THEN cur
                                                                     ELSE reported[j]
  <2>1. read_buffers \in [JobId -> Seq(Nat)] /\ reported \in [JobId -> Nat]
    BY DEF VectorInv
  <2>2. CASE ioAddress
    BY <1>1, <1>2, <2>1, <2>2
  <2>3. CASE ~ioAddress
    <3>1. reported' = [reported EXCEPT ![job] = IF @ <= cur THEN @ ELSE cur]
      BY <1>1, <1>5, <2>3
    <3> QED
      BY <1>1, <1>2, <2>1, <2>3, <3>1
  <2> QED
    BY <2>2, <2>3
<1>9. read_buffers' \in [JobId -> Seq(Nat)] /\ reported' \in [JobId -> Nat]
  <2>1. CASE ioAddress
    <3>1. Append(read_buffers[job], Len(buffers) + 1) \in Seq(Nat)
      BY <1>2, <1>4, <1>6, AppendFacts
    <3> QED
      BY <1>1, <2>1, <3>1 DEF VectorInv
  <2>2. CASE ~ioAddress
    BY <1>1, <1>2, <1>5, <2>2 DEF VectorInv
  <2> QED
    BY <2>1, <2>2
<1>10. \A j \in JobId : \A i \in DOMAIN read_buffers'[j] :
         \/ i \in DOMAIN read_buffers[j] /\ read_buffers'[j][i] = read_buffers[j][i]
         \/ /\ ioAddress /\ j = job /\ i = Len(read_buffers[j]) + 1
            /\ read_buffers'[j][i] = Len(buffers) + 1
  <2> SUFFICES ASSUME NEW j \in JobId, NEW i \in DOMAIN read_buffers'[j]
               PROVE  \/ i \in DOMAIN read_buffers[j] /\ read_buffers'[j][i] = read_buffers[j][i]
                      \/ /\ ioAddress /\ j = job /\ i = Len(read_buffers[j]) + 1
                         /\ read_buffers'[j][i] = Len(buffers) + 1
    OBVIOUS
  <2>1. CASE ioAddress /\ j = job
    <3>1. read_buffers[j] \in Seq(Nat) /\ Len(buffers) + 1 \in Nat
      BY <1>4, <1>6
    <3>2. read_buffers'[j] = Append(read_buffers[j], Len(buffers) + 1)
      BY <1>8, <2>1
    <3> QED
      BY <2>1, <3>1, <3>2, AppendFacts
  <2>2. CASE ~(ioAddress /\ j = job)
    BY <1>8, <2>2
  <2> QED
    BY <2>1, <2>2
<1>14. \A j \in JobId :
         Len(read_buffers'[j]) = IF ioAddress /\ j = job THEN Len(read_buffers[j]) + 1
                                                    ELSE Len(read_buffers[j])
  <2> SUFFICES ASSUME NEW j \in JobId
               PROVE  Len(read_buffers'[j]) =
                        IF ioAddress /\ j = job THEN Len(read_buffers[j]) + 1
                                                ELSE Len(read_buffers[j])
    OBVIOUS
  <2>1. read_buffers[j] \in Seq(Nat) /\ Len(buffers) + 1 \in Nat
    BY <1>4, <1>6
  <2>2. CASE ioAddress /\ j = job
    <3>1. read_buffers'[j] = Append(read_buffers[j], Len(buffers) + 1)
      BY <1>8, <2>2
    <3> QED
      BY <2>1, <2>2, <3>1, AppendFacts
  <2>3. CASE ~(ioAddress /\ j = job)
    <3>1. read_buffers'[j] = read_buffers[j]
      BY <1>8, <2>3
    <3>2. Len(read_buffers[j]) \in Nat
      BY <2>1
    <3> QED
      BY <2>3, <3>1, <3>2
  <2> QED
    BY <2>2, <2>3
<1>11. VectorInv'
  <2>1. \A j \in JobId : Len(read_buffers'[j]) <= TotalPartitions(j)
    <3> SUFFICES ASSUME NEW j \in JobId PROVE Len(read_buffers'[j]) <= TotalPartitions(j)
      OBVIOUS
    <3>1. Len(read_buffers[j]) <= TotalPartitions(j) /\ read_buffers[j] \in Seq(Nat)
      BY DEF VectorInv
    <3>2. j = job => Len(read_buffers[j]) <= cur
      BY <1>6, NextRead
    <3>3. Len(read_buffers'[j]) = IF ioAddress /\ j = job THEN Len(read_buffers[j]) + 1
                                                    ELSE Len(read_buffers[j])
      BY <1>14
    <3>4. Len(read_buffers[j]) \in Nat /\ TotalPartitions(j) \in Nat
      BY <1>3, <3>1
    <3>5. CASE j = job
      <4>1. Len(read_buffers'[j]) <= Len(read_buffers[j]) + 1
        BY <3>3, <3>4
      <4>2. cur < TotalPartitions(j) /\ Len(read_buffers[j]) <= cur
        BY <1>2, <3>2, <3>5
      <4>3. Len(read_buffers'[j]) \in Nat
        BY <3>3, <3>4
      <4> QED
        BY <1>2, <3>4, <4>1, <4>2, <4>3
    <3>6. CASE j # job
      BY <3>1, <3>3, <3>4, <3>6
    <3> QED
      BY <3>5, <3>6
  <2>2. \A j \in JobId : \A i \in DOMAIN read_buffers'[j] :
          read_buffers'[j][i] \in DOMAIN buffers'
    BY <1>4, <1>6, <1>10
  <2>3. \A j \in JobId : reported'[j] <= TotalPartitions(j)
    <3> SUFFICES ASSUME NEW j \in JobId PROVE reported'[j] <= TotalPartitions(j)
      OBVIOUS
    <3>1. reported[j] <= TotalPartitions(j) /\ reported[j] \in Nat
      BY DEF VectorInv
    <3> QED
      BY <1>2, <1>3, <1>8, <3>1
  <2>4. \A j \in JobId : Len(write_buffers[j]) <= TotalPartitions(j)
    BY DEF VectorInv
  <2> QED
    <3>1. parts' \in [JobId -> 1 .. MaxParts] /\ write_buffers' \in [JobId -> Seq(Nat)]
      BY <1>2 DEF VectorInv
    <3>2. /\ job' \in JobId /\ cur' \in Nat /\ pc' \in Preparing
          /\ cur' < TotalPartitions(job)'
      BY NextRead
    <3>3. \A j \in JobId : DOMAIN write_buffers'[j] = {}
      BY <1>2, <1>6
    <3>4. \A j \in JobId : /\ Len(read_buffers'[j]) <= TotalPartitions(j)'
                           /\ Len(write_buffers'[j]) <= TotalPartitions(j)'
                           /\ reported'[j] <= TotalPartitions(j)'
      BY <1>2, <1>3, <2>1, <2>3, <2>4
    <3> QED
      BY <1>4, <1>9, <2>2, <3>1, <3>2, <3>3, <3>4 DEF VectorInv, Opening, Preparing
<1>12. SeparateInv'
  BY <1>2, <1>6 DEF SeparateInv
<1>13. PageInv'
  <2> SUFFICES ASSUME NEW j \in JobId
               PROVE  /\ Len(write_buffers'[j]) = Writes(j)'
                      /\ Len(read_buffers'[j]) <= Reads(j)'
                      /\ reported'[j] >= Reads(j)' => Len(read_buffers'[j]) = Reads(j)'
                      /\ reported'[j] < Reads(j)' => Len(read_buffers'[j]) >= reported'[j]
                      /\ \A i \in DOMAIN read_buffers'[j] : i <= reported'[j] =>
                           buffers'[read_buffers'[j][i]] = PartData(j, i - 1)'
    BY DEF PageInv
  <2>1. Len(write_buffers'[j]) = Writes(j)'
    BY <1>2, <1>6, NextRead
  <2>2. /\ Reads(j) \in Nat /\ cur = Reads(job)
        /\ Reads(j)' = IF j = job THEN Reads(j) + 1 ELSE Reads(j)
    BY NextRead
  <2>3. Len(read_buffers'[j]) = IF ioAddress /\ j = job THEN Len(read_buffers[j]) + 1
                                                    ELSE Len(read_buffers[j])
    BY <1>14
  <2>4. /\ Len(read_buffers'[j]) <= Reads(j)'
        /\ reported'[j] >= Reads(j)' => Len(read_buffers'[j]) = Reads(j)'
        /\ reported'[j] < Reads(j)' => Len(read_buffers'[j]) >= reported'[j]
    <3>1. /\ Len(read_buffers[j]) \in Nat /\ reported[j] \in Nat
          /\ Len(read_buffers[j]) <= Reads(j)
          /\ reported[j] >= Reads(j) => Len(read_buffers[j]) = Reads(j)
          /\ reported[j] < Reads(j) => Len(read_buffers[j]) >= reported[j]
      BY <1>6, AppendFacts
    <3>2. reported'[j] = IF ~ioAddress /\ j = job /\ cur < reported[j] THEN cur ELSE reported[j]
      BY <1>8
    <3>3. CASE j = job /\ ioAddress
      BY <2>2, <2>3, <3>1, <3>2, <3>3
    <3>4. CASE j = job /\ ~ioAddress
      BY <1>2, <2>2, <2>3, <3>1, <3>2, <3>4
    <3>5. CASE j # job
      BY <2>2, <2>3, <3>1, <3>2, <3>5
    <3> QED
      BY <3>3, <3>4, <3>5
  <2>5. ASSUME NEW i \in DOMAIN read_buffers'[j], i <= reported'[j]
        PROVE  buffers'[read_buffers'[j][i]] = PartData(j, i - 1)'
    <3>1. reported'[j] <= reported[j]
      BY <1>2, <1>6, <1>8
    <3>2. CASE i \in DOMAIN read_buffers[j] /\ read_buffers'[j][i] = read_buffers[j][i]
      <4>1. i <= reported[j]
        <5>1. i \in Nat /\ reported[j] \in Nat /\ reported'[j] \in Nat
          BY <1>6, <1>9, <3>2, AppendFacts
        <5> QED
          BY <2>5, <3>1, <5>1
      <4>2. read_buffers[j][i] \in DOMAIN buffers
        BY <1>6, <3>2
      <4>3. buffers[read_buffers[j][i]] = PartData(j, i - 1)
        BY <1>6, <3>2, <4>1
      <4> QED
        BY <1>4, <1>7, <3>2, <4>2, <4>3
    <3>3. CASE /\ ioAddress /\ j = job /\ i = Len(read_buffers[j]) + 1
               /\ read_buffers'[j][i] = Len(buffers) + 1
      <4>1. i - 1 = cur
        <5>1. /\ Len(read_buffers[j]) \in Nat /\ reported[j] \in Nat
              /\ reported[j] >= Reads(j) => Len(read_buffers[j]) = Reads(j)
              /\ reported[j] < Reads(j) => Len(read_buffers[j]) >= reported[j]
          BY <1>6, AppendFacts
        <5>2. Len(read_buffers[j]) + 1 <= reported[j]
          BY <1>9, <2>5, <3>1, <3>3, <5>1
        <5> QED
          BY <1>2, <2>2, <3>3, <5>1, <5>2
      <4> QED
        BY <1>4, <1>7, <3>3, <4>1
    <3> QED
      BY <1>10, <3>2, <3>3
  <2> QED
    BY <2>1, <2>4, <2>5
<1> QED
  BY <1>11, <1>12, <1>13

LEMMA WriteVectors ==
  ASSUME VectorInv, HandleInv, SeparateInv, PageInv, PrepareWrite
  PROVE  VectorInv' /\ SeparateInv' /\ PageInv'
<1>1. PICK e \in {NULL, Len(buffers) + 1} :
        /\ write_buffers' = [write_buffers EXCEPT ![job] = Append(@, e)]
        /\ buffers' = IF e = NULL THEN buffers ELSE Append(buffers, Junk)
  BY DEF PrepareWrite, VectorInv, NULL
<1>2. /\ pc = "write" /\ UNCHANGED <<parts, read_buffers, reported>>
      /\ job \in JobId /\ cur \in Nat /\ cur < TotalPartitions(job)
      /\ buffers \in Seq(Content) /\ Junk \in Content
  BY DEF PrepareWrite, VectorInv, Preparing, Content
<1>3. \A j \in JobId : TotalPartitions(j)' = TotalPartitions(j) /\ TotalPartitions(j) \in Nat
  BY <1>2, Totals
<1>4. /\ buffers' \in Seq(Content) /\ Len(buffers) \in Nat /\ e \in Nat
      /\ \A i \in DOMAIN buffers : i # 0 /\ i \in DOMAIN buffers' /\ buffers'[i] = buffers[i]
      /\ e # NULL => e \in DOMAIN buffers' /\ e \notin DOMAIN buffers
  BY <1>1, <1>2, AppendFacts DEF NULL
<1>5. \A j \in JobId :
        /\ write_buffers[j] \in Seq(Nat) /\ read_buffers[j] \in Seq(Nat)
        /\ Len(write_buffers[j]) = Writes(j) /\ Writes(j) \in Nat
        /\ Len(write_buffers[j]) <= TotalPartitions(j)
        /\ \A i \in DOMAIN read_buffers[j] : read_buffers[j][i] \in DOMAIN buffers
        /\ \A i \in DOMAIN write_buffers[j] :
             write_buffers[j][i] \in DOMAIN buffers \cup {NULL}
  BY <1>2, NextWrite DEF VectorInv, PageInv, Preparing
<1>6. \A j \in JobId :
        write_buffers'[j] = IF j = job THEN Append(write_buffers[j], e) ELSE write_buffers[j]
  BY <1>1, <1>2 DEF VectorInv
<1>7. \A j \in JobId :
        /\ write_buffers'[j] \in Seq(Nat)
        /\ Len(write_buffers'[j]) = IF j = job THEN Len(write_buffers[j]) + 1
                                              ELSE Len(write_buffers[j])
        /\ \A i \in DOMAIN write_buffers'[j] :
             \/ i \in DOMAIN write_buffers[j] /\ write_buffers'[j][i] = write_buffers[j][i]
             \/ /\ j = job /\ i = Len(write_buffers[j]) + 1 /\ i \notin DOMAIN write_buffers[j]
                /\ write_buffers'[j][i] = e
  <2> SUFFICES ASSUME NEW j \in JobId
               PROVE  /\ write_buffers'[j] \in Seq(Nat)
                      /\ Len(write_buffers'[j]) = IF j = job THEN Len(write_buffers[j]) + 1
                                                            ELSE Len(write_buffers[j])
                      /\ \A i \in DOMAIN write_buffers'[j] :
                           \/ /\ i \in DOMAIN write_buffers[j]
                              /\ write_buffers'[j][i] = write_buffers[j][i]
                           \/ /\ j = job /\ i = Len(write_buffers[j]) + 1
                              /\ i \notin DOMAIN write_buffers[j]
                              /\ write_buffers'[j][i] = e
    OBVIOUS
  <2>1. CASE j = job
    <3>1. write_buffers'[j] = Append(write_buffers[j], e) /\ write_buffers[j] \in Seq(Nat)
      BY <1>5, <1>6, <2>1
    <3> QED
      BY <1>4, <2>1, <3>1, AppendFacts
  <2>2. CASE j # job
    BY <1>5, <1>6, <2>2
  <2> QED
    BY <2>1, <2>2
<1>8. VectorInv'
  <2>1. write_buffers' \in [JobId -> Seq(Nat)]
    <3>1. Append(write_buffers[job], e) \in Seq(Nat)
      BY <1>2, <1>4, <1>5, AppendFacts
    <3> QED
      BY <1>1, <3>1 DEF VectorInv
  <2>2. /\ job' \in JobId /\ cur' \in Nat /\ pc' \in {"write", "notify"}
        /\ pc' = "write" => cur' < TotalPartitions(job)'
    BY NextWrite
  <2>3. /\ parts' \in [JobId -> 1 .. MaxParts] /\ read_buffers' \in [JobId -> Seq(Nat)]
        /\ reported' \in [JobId -> Nat]
    BY <1>2 DEF VectorInv
  <2>4. \A j \in JobId : Len(write_buffers'[j]) <= TotalPartitions(j)
    <3> SUFFICES ASSUME NEW j \in JobId PROVE Len(write_buffers'[j]) <= TotalPartitions(j)
      OBVIOUS
    <3>1. CASE j = job
      <4>1. Len(write_buffers[j]) = cur /\ Len(write_buffers'[j]) = cur + 1
        BY <1>5, <1>7, <3>1, NextWrite
      <4> QED
        BY <1>2, <1>3, <3>1, <4>1
    <3>2. CASE j # job
      BY <1>5, <1>7, <3>2
    <3> QED
      BY <3>1, <3>2
  <2>5. \A j \in JobId : /\ Len(read_buffers'[j]) <= TotalPartitions(j)'
                         /\ Len(write_buffers'[j]) <= TotalPartitions(j)'
                         /\ reported'[j] <= TotalPartitions(j)'
    BY <1>2, <1>3, <2>4 DEF VectorInv
  <2>6. \A j \in JobId : \A i \in DOMAIN read_buffers'[j] : read_buffers'[j][i] \in DOMAIN buffers'
    BY <1>2, <1>4, <1>5
  <2>7. \A j \in JobId : \A i \in DOMAIN write_buffers'[j] :
          write_buffers'[j][i] \in DOMAIN buffers' \cup {NULL}
    BY <1>4, <1>5, <1>7
  <2> QED
    BY <1>4, <2>1, <2>2, <2>3, <2>5, <2>6, <2>7 DEF VectorInv, Opening, Preparing
<1>9. SeparateInv'
  <2>1. ASSUME NEW j \in JobId, NEW k \in JobId,
               NEW i \in DOMAIN write_buffers'[j], NEW l \in DOMAIN read_buffers[k]
        PROVE  write_buffers'[j][i] # read_buffers[k][l]
    <3>1. read_buffers[k][l] \in DOMAIN buffers
      BY <1>5
    <3>2. CASE i \in DOMAIN write_buffers[j] /\ write_buffers'[j][i] = write_buffers[j][i]
      <4>1. write_buffers[j][i] # read_buffers[k][l]
        BY <3>2 DEF SeparateInv
      <4> QED
        BY <3>2, <4>1
    <3>3. CASE write_buffers'[j][i] = e
      BY <1>4, <3>1, <3>3 DEF NULL
    <3> QED
      BY <1>7, <3>2, <3>3
  <2>2. ASSUME NEW j \in JobId, NEW k \in JobId,
               NEW i \in DOMAIN write_buffers'[j], NEW l \in DOMAIN write_buffers'[k],
               write_buffers'[j][i] = write_buffers'[k][l], write_buffers'[j][i] # NULL
        PROVE  j = k /\ i = l
    <3>1. CASE i \in DOMAIN write_buffers[j] /\ write_buffers'[j][i] = write_buffers[j][i]
      <4>1. write_buffers[j][i] # e
        BY <1>4, <1>5, <2>2, <3>1
      <4>2. l \in DOMAIN write_buffers[k] /\ write_buffers'[k][l] = write_buffers[k][l]
        BY <1>7, <2>2, <3>1, <4>1
      <4>3. write_buffers[j][i] = write_buffers[k][l] /\ write_buffers[j][i] # NULL
        BY <2>2, <3>1, <4>2
      <4> QED
        BY <3>1, <4>2, <4>3 DEF SeparateInv
    <3>2. CASE j = job /\ i = Len(write_buffers[j]) + 1 /\ write_buffers'[j][i] = e
      <4>1. ~(l \in DOMAIN write_buffers[k] /\ write_buffers'[k][l] = write_buffers[k][l])
        BY <1>4, <1>5, <2>2, <3>2
      <4> QED
        BY <1>7, <3>2, <4>1
    <3> QED
      BY <1>7, <3>1, <3>2
  <2> QED
    BY <1>2, <2>1, <2>2 DEF SeparateInv
<1>10. PageInv'
  <2>1. \A j, p : PartData(j, p)' = PartData(j, p)
    BY <1>2 DEF PartData
  <2>2. \A j \in JobId : Len(write_buffers'[j]) = Writes(j)' /\ Reads(j)' = Reads(j)
    BY <1>5, <1>7, NextWrite
  <2>3. \A j \in JobId : \A i \in DOMAIN read_buffers[j] :
          buffers'[read_buffers[j][i]] = buffers[read_buffers[j][i]]
    BY <1>4, <1>5
  <2> QED
    BY <1>2, <2>1, <2>2, <2>3 DEF PageInv, Preparing
<1> QED
  BY <1>8, <1>9, <1>10

\* The AFU writes into a write buffer, so no read buffer changes.
LEMMA ScanVectors ==
  ASSUME VectorInv, SeparateInv, PageInv, QueueInv, ScanUnit
  PROVE  /\ VectorInv' /\ SeparateInv' /\ PageInv'
         /\ \E p \in Nat :
              /\ Head(queue) = p
              /\ p + 1 \in DOMAIN read_buffers[job] /\ p + 1 \in DOMAIN write_buffers[job]
              /\ write_buffers[job][p + 1] \in DOMAIN buffers
              /\ write_buffers[job][p + 1] # NULL
              /\ buffers' = [buffers EXCEPT ![write_buffers[job][p + 1]] =
                               Filtered(buffers[read_buffers[job][p + 1]])]
<1>1. /\ pc = "scan" /\ queue # <<>> /\ UNCHANGED <<pc, parts, cur, job, csrs>>
      /\ UNCHANGED <<read_buffers, write_buffers, reported>>
  BY DEF ScanUnit, connectVars
<1>2. /\ Head(queue) \in Nat
      /\ Head(queue) < Planned(job)
      /\ job \in JobId /\ parts \in [JobId -> 1 .. MaxParts]
      /\ \A j \in JobId : TotalPartitions(j)' = TotalPartitions(j) /\ TotalPartitions(j) \in Nat
      /\ Planned(job) \in Nat /\ Planned(job) <= TotalPartitions(job)
  <2>1. /\ job \in JobId /\ parts \in [JobId -> 1 .. MaxParts]
        /\ \A j \in JobId : TotalPartitions(j)' = TotalPartitions(j) /\ TotalPartitions(j) \in Nat
    BY <1>1, Totals DEF VectorInv
  <2>2. Planned(job) \in Nat /\ Planned(job) <= TotalPartitions(job)
    <3>1. TotalPartitions(1) = parts[1] /\ parts[1] \in Nat \ {0}
      BY Totals DEF VectorInv, JobId
    <3> QED
      BY <2>1, <3>1 DEF Planned, JobId
  <2>3. /\ queue \in Seq(Nat) /\ Len(queue) \in Nat \ {0}
        /\ queue[1] = Planned(job) - Len(queue) + 1 - 1
        /\ Head(queue) = queue[1]
    BY <1>1 DEF QueueInv, Scanning, ScanJob
  <2> QED
    BY <2>1, <2>2, <2>3
<1> DEFINE p == Head(queue)
           r == ReadBuffer(p)
           w == WriteBuffer(p)
<1>3. r # NULL /\ w # NULL /\ buffers' = [buffers EXCEPT ![w] = Filtered(buffers[r])]
  BY DEF ScanUnit
<1>4. p + 1 \in DOMAIN read_buffers[job] /\ r = read_buffers[job][p + 1]
  BY <1>3 DEF ReadBuffer, NULL
<1>5. p + 1 \in DOMAIN write_buffers[job] /\ w = write_buffers[job][p + 1]
  <2>1. Len(write_buffers[job]) = TotalPartitions(job) /\ write_buffers[job] \in Seq(Nat)
    BY <1>1, <1>2 DEF PageInv, Scanning, Writes, Opening, VectorInv
  <2> QED
    BY <1>2, <2>1 DEF WriteBuffer
<1>6. r \in DOMAIN buffers /\ w \in DOMAIN buffers
  BY <1>2, <1>3, <1>4, <1>5 DEF VectorInv
<1>7. /\ buffers \in Seq(Content) /\ buffers' \in Seq(Content) /\ DOMAIN buffers' = DOMAIN buffers
      /\ \A i \in DOMAIN buffers : i # w => buffers'[i] = buffers[i]
  <2>1. buffers \in Seq(Content) /\ buffers[r] \in Content
    BY <1>6 DEF VectorInv
  <2>2. Filtered(buffers[r]) \in Content
    BY <2>1 DEF Filtered, Content, Junk
  <2> QED
    BY <1>3, <1>6, <2>1, <2>2
<1>8. VectorInv'
  BY <1>1, <1>2, <1>7 DEF VectorInv, Opening, Preparing
<1>9. SeparateInv'
  BY <1>1 DEF SeparateInv
<1>10. PageInv'
  <2>1. \A j, n : PartData(j, n)' = PartData(j, n)
    BY <1>1 DEF PartData
  <2>2. \A j \in JobId : Writes(j)' = Writes(j) /\ Reads(j)' = Reads(j)
    BY <1>1, <1>2 DEF Writes, Reads
  <2>3. \A j \in JobId : \A i \in DOMAIN read_buffers[j] :
          buffers'[read_buffers[j][i]] = buffers[read_buffers[j][i]]
    <3>1. \A j \in JobId : \A i \in DOMAIN read_buffers[j] :
            read_buffers[j][i] # w /\ read_buffers[j][i] \in DOMAIN buffers
      <4>1. SUFFICES ASSUME NEW j \in JobId, NEW i \in DOMAIN read_buffers[j]
                     PROVE  /\ read_buffers[j][i] # w
                            /\ read_buffers[j][i] \in DOMAIN buffers
        OBVIOUS
      <4>2. read_buffers[j][i] \in DOMAIN buffers
        BY <4>1 DEF VectorInv
      <4>3. read_buffers[j][i] # write_buffers[job][p + 1]
        BY <1>2, <1>5, <4>1 DEF SeparateInv
      <4> QED
        BY <1>5, <4>2, <4>3
    <3> QED
      BY <1>7, <3>1
  <2> QED
    BY <1>1, <2>1, <2>2, <2>3 DEF PageInv
<1> QED
  BY <1>2, <1>3, <1>4, <1>5, <1>6, <1>8, <1>9, <1>10

-----------------------------------------------------------------------------
(* The scans. *)

LEMMA CountedQueue ==
  ASSUME NEW n \in Nat, NEW q, q = [i \in 1 .. n |-> i - 1]
  PROVE  /\ q \in Seq(Nat) /\ Len(q) = n
         /\ DOMAIN q = 1 .. n
         /\ \A i \in 1 .. n : q[i] = i - 1
<1>1. \A i \in 1 .. n : i - 1 \in Nat
  OBVIOUS
<1>2. q \in [1 .. n -> Nat]
  BY <1>1
<1>3. q \in Seq(Nat) /\ Len(q) = n
  BY <1>2
<1> QED BY <1>3

LEMMA QueueShape ==
  ASSUME VectorInv, QueueInv, pc = "scan", queue # <<>>
  PROVE  /\ Head(queue) = Planned(job) - Len(queue) /\ Head(queue) \in Nat
         /\ Len(queue) \in Nat /\ Tail(queue) \in Seq(Nat) /\ Len(Tail(queue)) = Len(queue) - 1
         /\ \A i \in DOMAIN Tail(queue) : i + 1 \in DOMAIN queue /\ Tail(queue)[i] = queue[i + 1]
         /\ Planned(job) \in Nat /\ Len(queue) <= Planned(job)
<1>1. queue \in Seq(Nat) /\ Len(queue) <= Planned(job)
  BY DEF QueueInv, Scanning, ScanJob
<1>2. Planned(job) \in Nat
  <2>1. TotalPartitions(1) = parts[1] /\ parts[1] \in Nat \ {0} /\ job \in JobId
        /\ \A j \in JobId : TotalPartitions(j) \in Nat
    BY Totals DEF VectorInv, JobId
  <2> QED
    BY <2>1 DEF Planned, JobId
<1>3. 1 \in DOMAIN queue /\ Head(queue) = queue[1] /\ Len(queue) \in Nat
  BY <1>1
<1>4. queue[1] = Planned(job) - Len(queue) + 1 - 1
  BY <1>3 DEF QueueInv, Scanning, ScanJob
<1> QED
  BY <1>1, <1>2, <1>3, <1>4

LEMMA QueueStep ==
  ASSUME VectorInv, HandleInv, QueueInv, [Next]_vars
  PROVE  QueueInv'
<1> USE DEF Opening, Preparing, Scanning
<1>1. /\ job \in JobId /\ TotalPartitions(2) \in Nat /\ (pc \in Opening => job = 1)
      /\ queue \in Seq(Nat)
  BY Totals DEF VectorInv, JobId, QueueInv
<1>2. ASSUME parts' = parts, NEW j \in JobId PROVE Planned(j)' = Planned(j)
  BY <1>2, Totals DEF Planned
<1>3. CASE ScanUnit \/ ScanUnitFails
  <2>1. /\ pc = "scan" /\ queue # <<>> /\ queue' = Tail(queue) /\ parts' = parts /\ job' = job
        /\ pc' \in {"scan", "hung", "crashed"}
    BY <1>3 DEF ScanUnit, ScanUnitFails
  <2>2. Planned(job)' = Planned(job)
    BY <1>1, <1>2, <2>1
  <2>3. \A i \in DOMAIN queue : queue[i] = Planned(job) - Len(queue) + i - 1
    BY <2>1 DEF QueueInv, ScanJob
  <2>4. \A i \in DOMAIN Tail(queue) :
          Tail(queue)[i] = Planned(job) - Len(Tail(queue)) + i - 1
    <3> SUFFICES ASSUME NEW i \in DOMAIN Tail(queue)
                 PROVE  Tail(queue)[i] = Planned(job) - Len(Tail(queue)) + i - 1
      OBVIOUS
    <3>1. /\ i + 1 \in DOMAIN queue /\ Tail(queue)[i] = queue[i + 1]
          /\ Len(queue) \in Nat /\ Len(Tail(queue)) = Len(queue) - 1 /\ Planned(job) \in Nat
      BY <2>1, QueueShape
    <3>2. i \in Nat
      BY <2>1, QueueShape
    <3> QED
      BY <2>3, <3>1, <3>2
  <2>5. Tail(queue) \in Seq(Nat) /\ Len(Tail(queue)) <= Planned(job)
    BY <2>1, QueueShape
  <2> QED
    BY <2>1, <2>2, <2>4, <2>5 DEF QueueInv, ScanJob
<1>4. CASE CopyResults
  <2>1. CASE pc' = "notify"
    <3>1. /\ job' = 2 /\ queue' = [i \in 1 .. TotalPartitions(2) |-> i - 1]
          /\ parts' = parts
      BY <1>4, <2>1 DEF CopyResults
    <3>2. Planned(job)' = TotalPartitions(2)
      BY <1>2, <3>1 DEF Planned, JobId
    <3>3. /\ queue' \in Seq(Nat) /\ Len(queue') = TotalPartitions(2)
          /\ DOMAIN queue' = 1 .. TotalPartitions(2)
          /\ \A i \in 1 .. TotalPartitions(2) : queue'[i] = i - 1
      BY <1>1, <3>1, CountedQueue
    <3>4. \A i \in DOMAIN queue' : queue'[i] = TotalPartitions(2) - TotalPartitions(2) + i - 1
      BY <1>1, <3>3
    <3> QED
      BY <1>1, <2>1, <3>2, <3>3, <3>4 DEF QueueInv, ScanJob
  <2>2. CASE pc' # "notify"
    <3>1. queue' = queue /\ pc' \in {"crashed", "done"}
      BY <1>4, <2>2 DEF CopyResults, scanVars
    <3> QED
      BY <1>1, <3>1 DEF QueueInv
  <2> QED
    BY <2>1, <2>2
<1>5. ASSUME ~ScanUnit, ~ScanUnitFails, ~CopyResults
      PROVE  /\ UNCHANGED <<queue, parts>>
             /\ pc' \in Opening \cup Preparing \cup Scanning =>
                  /\ pc \in Opening \cup Preparing \cup Scanning
                  /\ ScanJob' = ScanJob
                  /\ pc' = "copy" => queue = <<>>
                  /\ pc' \notin {"scan", "copy"} => pc \notin {"scan", "copy"}
  <2>1. CASE Connect
    <3>1. UNCHANGED <<queue, parts, job>> /\ pc \in Opening /\ pc' \in Opening \cup {"crashed"}
      <4>1. CASE ProbeForASE \/ Find
        BY <4>1 DEF ProbeForASE, Find, scanVars
      <4>2. CASE Open \/ OpenNone
        BY <4>2 DEF Open, OpenNone, scanVars
      <4>3. CASE MapMMIO \/ ConnectMpf \/ DestroyTokens
        BY <4>3 DEF MapMMIO, ConnectMpf, DestroyTokens, scanVars
      <4> QED
        BY <2>1, <4>1, <4>2, <4>3 DEF Connect
    <3> QED
      BY <3>1 DEF ScanJob
  <2>2. CASE Check
    BY <1>1, <2>2 DEF Check, ScanJob, scanVars
  <2>3. CASE PrepareRead
    <3>1. UNCHANGED <<queue, parts>> /\ pc = "read" /\ pc' \in Preparing
      BY <2>3, NextRead DEF PrepareRead, scanVars
    <3> QED
      BY <3>1 DEF ScanJob
  <2>4. CASE PrepareWrite
    <3>1. UNCHANGED <<queue, parts>> /\ pc = "write" /\ pc' \in {"write", "notify"}
          /\ (pc' = "notify" => job' = 1)
      BY <2>4, NextWrite DEF PrepareWrite, scanVars
    <3> QED
      BY <3>1 DEF ScanJob
  <2>5. CASE PrepareReadCrashes
    BY <2>5 DEF PrepareReadCrashes, scanVars
  <2>6. CASE Notify \/ ScanEnds
    BY <2>6 DEF Notify, ScanEnds, Goto, ScanJob, scanVars
  <2>7. CASE Done \/ ReleaseAllBuffers \/ DisconnectMpf \/ UnmapMMIO \/ Close
    BY <2>7 DEF Done, ReleaseAllBuffers, DisconnectMpf, UnmapMMIO, Close, Goto, scanVars
  <2>8. CASE UNCHANGED vars
    <3>1. pc' = "copy" => queue = <<>>
      BY <2>8 DEF vars, QueueInv
    <3> QED
      BY <2>8, <3>1 DEF vars, ScanJob, scanVars
  <2> QED
    BY <1>5, <2>1, <2>2, <2>3, <2>4, <2>5, <2>6, <2>7, <2>8
       DEF Next, Step, Prepare, Scans, Ended
<1>6. ASSUME ~ScanUnit, ~ScanUnitFails, ~CopyResults PROVE QueueInv'
  <2>1. ScanJob \in JobId
    BY <1>1 DEF ScanJob, JobId
  <2>2. ASSUME pc' \in Opening \cup Preparing \cup Scanning
        PROVE  Planned(ScanJob)' = Planned(ScanJob)
    <3>1. ScanJob' = ScanJob /\ parts' = parts
      BY <1>5, <1>6, <2>2
    <3>2. \A j \in JobId : Planned(j)' = Planned(j)
      BY <1>2, <3>1
    <3> QED
      BY <2>1, <3>1, <3>2 DEF Planned, TotalPartitions
  <2> QED
    BY <1>5, <1>6, <2>2 DEF QueueInv
<1> QED
  BY <1>3, <1>4, <1>6

\* The page the AFU is given is that of the partition the unit names, unless
\* one before it was reported.
LEMMA OwnPage ==
  ASSUME VectorInv, PageInv, pc = "scan", NEW p \in Nat, p < reported[job],
         p < TotalPartitions(job), job = 2 => EnoughParts
  PROVE  /\ p + 1 \in DOMAIN read_buffers[job]
         /\ ReadBuffer(p) = read_buffers[job][p + 1]
         /\ ReadBuffer(p) \in DOMAIN buffers /\ ReadBuffer(p) # NULL
         /\ buffers[ReadBuffer(p)] = Page(job, p)
<1>1. /\ job \in JobId /\ reported[job] \in Nat /\ read_buffers[job] \in Seq(Nat)
      /\ buffers \in Seq(Content)
      /\ TotalPartitions(job) \in Nat /\ TotalPartitions(1) = parts[1]
      /\ TotalPartitions(2) = ForcedParts
      /\ parts \in [JobId -> Nat]
  BY Totals DEF VectorInv
<1>2. Reads(job) = TotalPartitions(job)
  BY DEF Reads, Opening
<1>3. /\ reported[job] >= Reads(job) => Len(read_buffers[job]) = Reads(job)
      /\ reported[job] < Reads(job) => Len(read_buffers[job]) >= reported[job]
      /\ \A i \in DOMAIN read_buffers[job] :
           i <= reported[job] => buffers[read_buffers[job][i]] = PartData(job, i - 1)
  BY <1>1 DEF PageInv, Scanning
<1>4. p + 1 \in DOMAIN read_buffers[job] /\ p + 1 <= reported[job]
  BY <1>1, <1>2, <1>3
<1>5. ReadBuffer(p) = read_buffers[job][p + 1]
  BY <1>4 DEF ReadBuffer
<1>6. ReadBuffer(p) \in DOMAIN buffers /\ ReadBuffer(p) # NULL
  BY <1>1, <1>4, <1>5 DEF VectorInv, NULL
<1>7. buffers[ReadBuffer(p)] = PartData(job, p)
  <2>1. buffers[read_buffers[job][p + 1]] = PartData(job, (p + 1) - 1)
    BY <1>3, <1>4
  <2>2. (p + 1) - 1 = p
    OBVIOUS
  <2> QED
    BY <1>5, <2>1, <2>2
<1>8. p < parts[job]
  BY <1>1, FpgaSessionAssumption DEF JobId, EnoughParts
<1> QED
  BY <1>4, <1>5, <1>6, <1>7, <1>8 DEF PartData

LEMMA ScanFiltered ==
  ASSUME VectorInv, SeparateInv, PageInv, QueueInv, FilteredInv, HandleInv,
         ScanUnit \/ ScanUnitFails
  PROVE  FilteredInv'
<1> USE DEF Opening, Preparing, Scanning
<1>1. /\ pc = "scan" /\ queue # <<>> /\ queue' = Tail(queue)
      /\ UNCHANGED <<parts, job, read_buffers, write_buffers, reported, result>>
      /\ faults' = faults \/ faults' = faults \cup {"mmio"}
      /\ pc' \in {"scan", "hung", "crashed"}
  BY DEF ScanUnit, ScanUnitFails, bufferVars
<1>2. faults' \subseteq Fault /\ result' \in [JobId -> Seq(Content)]
  BY <1>1 DEF FilteredInv, Fault
<1>3. /\ job \in JobId /\ write_buffers[job] \in Seq(Nat) /\ reported[job] \in Nat
      /\ TotalPartitions(job) \in Nat
      /\ DOMAIN write_buffers[job] = 1 .. TotalPartitions(job)
  <2>1. job \in JobId /\ write_buffers[job] \in Seq(Nat) /\ reported[job] \in Nat
        /\ TotalPartitions(job) \in Nat
    BY Totals DEF VectorInv
  <2>2. Len(write_buffers[job]) = TotalPartitions(job)
    BY <1>1, <2>1 DEF PageInv, Writes
  <2> QED
    BY <2>1, <2>2
<1> DEFINE p == Head(queue)
<1>4. /\ p \in Nat /\ p = Planned(job) - Len(queue) /\ Planned(job) \in Nat
      /\ Len(queue) \in Nat /\ Len(queue') = Len(queue) - 1
  BY <1>1, QueueShape
<1>5. Planned(job)' = Planned(job)
  BY <1>1, <1>3, Totals DEF Planned
<1>6. ASSUME pc' \in {"scan", "copy"}, faults' \cap {"mmio", "map"} = {},
             job' = 2 => EnoughParts',
             NEW i \in DOMAIN write_buffers[job], i <= Planned(job) - Len(queue'),
             i <= reported[job], write_buffers[job][i] # NULL
      PROVE  buffers'[write_buffers[job][i]] = Filtered(Page(job, i - 1))
  <2>1. faults \cap {"mmio", "map"} = {} /\ (job = 2 => EnoughParts) /\ faults' = faults
    BY <1>1, <1>6 DEF EnoughParts
  <2>2. i \in Nat /\ i <= p + 1 /\ i # 0
    BY <1>3, <1>4, <1>6
  <2>3. mapped
    BY <1>1, <2>1 DEF HandleInv
  <2>4. CASE i = p + 1
    <3>1. /\ ReadBuffer(p) \in DOMAIN buffers /\ ReadBuffer(p) # NULL
          /\ buffers[ReadBuffer(p)] = Page(job, p)
          /\ ReadBuffer(p) = read_buffers[job][p + 1]
      <4>1. p < reported[job] /\ p < TotalPartitions(job)
        BY <1>3, <1>4, <1>6, <2>4
      <4> QED
        BY <1>1, <1>4, <2>1, <4>1, OwnPage
    <3>2. WriteBuffer(p) = write_buffers[job][i]
      BY <2>4 DEF WriteBuffer
    <3>3. ScanUnit
      <4>1. ~ScanUnitFails
        BY <1>6, <2>1, <2>3, <3>1, <3>2 DEF ScanUnitFails
      <4> QED
        BY <4>1
    <3>4. /\ write_buffers[job][i] \in DOMAIN buffers
          /\ buffers' = [buffers EXCEPT ![write_buffers[job][i]] =
                           Filtered(buffers[read_buffers[job][i]])]
      BY <2>4, <3>3, ScanVectors
    <3>5. buffers'[write_buffers[job][i]] = Filtered(buffers[read_buffers[job][i]])
      BY <3>4 DEF VectorInv
    <3> QED
      BY <1>4, <2>4, <3>1, <3>5
  <2>5. CASE i # p + 1
    <3>1. i <= Planned(job) - Len(queue)
      BY <1>4, <2>2, <2>5
    <3>2. buffers[write_buffers[job][i]] = Filtered(Page(job, i - 1))
      BY <1>1, <1>6, <2>1, <3>1 DEF FilteredInv
    <3>3. CASE ScanUnit
      <4>1. /\ write_buffers[job][p + 1] # NULL
            /\ p + 1 \in DOMAIN write_buffers[job]
            /\ buffers' = [buffers EXCEPT ![write_buffers[job][p + 1]] =
                             Filtered(buffers[read_buffers[job][p + 1]])]
        BY <3>3, ScanVectors
      <4>2. write_buffers[job][i] # write_buffers[job][p + 1]
        BY <1>3, <1>6, <2>5, <4>1 DEF SeparateInv
      <4>3. write_buffers[job][i] \in DOMAIN buffers
        BY <1>3, <1>6 DEF VectorInv
      <4> QED
        BY <3>2, <4>1, <4>2, <4>3 DEF VectorInv
    <3>4. CASE ScanUnitFails
      BY <3>2, <3>4 DEF ScanUnitFails, bufferVars
    <3> QED
      BY <3>3, <3>4
  <2> QED
    BY <2>4, <2>5
<1>7. \A j, n : Page(j, n)' = Page(j, n) /\ Filtered(Page(j, n))' = Filtered(Page(j, n))
  BY DEF Page, Filtered, Junk
<1> QED
  BY <1>1, <1>2, <1>5, <1>6, <1>7 DEF FilteredInv

LEMMA CopyStep ==
  ASSUME VectorInv, PageInv, QueueInv, FilteredInv, OwnResults, CopyResults
  PROVE  FilteredInv' /\ OwnResults'
<1> USE DEF Opening, Preparing, Scanning
<1>1. /\ pc = "copy" /\ pc' \in {"crashed", "notify", "done"}
      /\ UNCHANGED <<parts, faults, reported>>
      /\ faults \subseteq Fault /\ result \in [JobId -> Seq(Content)] /\ job \in JobId
  BY DEF CopyResults, bufferVars, FilteredInv, VectorInv
<1>2. CASE result' = result
  BY <1>1, <1>2 DEF FilteredInv, OwnResults, EnoughParts, TotalPartitions, Units, Page, Filtered
<1>3. CASE result' # result
  <2>1. /\ ~\E i \in DOMAIN write_buffers[job] : write_buffers[job][i] = NULL
        /\ result' = [result EXCEPT ![job] =
             [i \in 1 .. TotalPartitions(job) |-> buffers[write_buffers[job][i]]]]
    BY <1>3 DEF CopyResults, scanVars
  <2>2. /\ Len(write_buffers[job]) = TotalPartitions(job) /\ write_buffers[job] \in Seq(Nat)
        /\ TotalPartitions(job) \in Nat /\ reported[job] \in Nat
        /\ buffers \in Seq(Content)
    BY <1>1, Totals DEF PageInv, Writes, VectorInv
  <2>3. \A i \in 1 .. TotalPartitions(job) :
          /\ i \in DOMAIN write_buffers[job] /\ write_buffers[job][i] # NULL
          /\ buffers[write_buffers[job][i]] \in Content
    BY <1>1, <2>1, <2>2 DEF VectorInv
  <2>4. [i \in 1 .. TotalPartitions(job) |-> buffers[write_buffers[job][i]]] \in Seq(Content)
    BY <2>2, <2>3
  <2>5. result' \in [JobId -> Seq(Content)]
    BY <1>1, <2>1, <2>4
  <2>6. FilteredInv'
    BY <1>1, <2>5 DEF FilteredInv
  <2>7. Len(queue) = 0 /\ Planned(job) \in Nat
        /\ (job = 1 => Planned(job) = TotalPartitions(job) - 1)
        /\ (job = 2 => Planned(job) = TotalPartitions(job))
    <3>1. TotalPartitions(1) = parts[1] /\ parts[1] \in Nat \ {0}
      BY Totals DEF VectorInv, JobId
    <3>2. queue = <<>>
      BY <1>1 DEF QueueInv
    <3> QED
      BY <1>1, <2>2, <3>1, <3>2 DEF Planned, JobId
  <2>8. ASSUME NEW j \in JobId, result'[j] # <<>>, faults \cap {"mmio", "map"} = {},
               j = 2 => EnoughParts, NEW p \in Units(j), p < reported[j]
        PROVE  result'[j][p + 1] = Filtered(Page(j, p))
    <3>1. CASE j = job
      <4>1. p \in Nat /\ p + 1 \in 1 .. TotalPartitions(job) /\ p + 1 <= Planned(job) - Len(queue)
            /\ p + 1 <= reported[job]
        BY <1>1, <2>2, <2>7, <2>8, <3>1 DEF Units, JobId
      <4>2. result'[j][p + 1] = buffers[write_buffers[job][p + 1]]
        BY <1>1, <2>1, <3>1, <4>1
      <4>3. p + 1 - 1 = p
        BY <4>1
      <4>4. buffers[write_buffers[job][p + 1]] = Filtered(Page(job, p + 1 - 1))
        BY <1>1, <2>3, <2>8, <3>1, <4>1 DEF FilteredInv
      <4> QED
        BY <3>1, <4>2, <4>3, <4>4
    <3>2. CASE j # job
      <4>1. result'[j] = result[j]
        BY <1>1, <2>1, <3>2
      <4> QED
        BY <2>8, <4>1 DEF OwnResults
    <3> QED
      BY <3>1, <3>2
  <2>9. OwnResults'
    BY <1>1, <2>8 DEF OwnResults, EnoughParts, TotalPartitions, Units, Page, Filtered
  <2> QED
    BY <2>6, <2>9
<1> QED
  BY <1>2, <1>3

\* Whatever else happens, no result is copied and no count forgotten.
LEMMA OtherStep ==
  ASSUME VectorInv, HandleInv, QueueInv, FilteredInv, OwnResults, [Next]_vars,
         ~ScanUnit, ~ScanUnitFails, ~CopyResults
  PROVE  FilteredInv' /\ OwnResults'
<1> USE DEF Opening, Preparing, Scanning
<1>1. result \in [JobId -> Seq(Content)] /\ job \in JobId /\ faults \subseteq Fault
  BY DEF FilteredInv, VectorInv
<1>2. CASE pc \in Opening \cup Preparing /\ ~UNCHANGED vars
  <2>1. /\ UNCHANGED <<result, parts>> /\ pc' \notin {"scan", "copy"} /\ faults' \subseteq Fault
    <3>1. CASE ProbeForASE \/ Find
      BY <1>1, <3>1 DEF ProbeForASE, Find, scanVars, Fault
    <3>2. CASE Open \/ OpenNone
      BY <1>1, <3>2 DEF Open, OpenNone, scanVars, Fault
    <3>3. CASE MapMMIO \/ ConnectMpf \/ DestroyTokens
      BY <1>1, <3>3 DEF MapMMIO, ConnectMpf, DestroyTokens, scanVars, Fault
    <3>4. CASE Check \/ PrepareReadCrashes
      BY <1>1, <3>4 DEF Check, PrepareReadCrashes, scanVars, Fault
    <3>5. CASE PrepareRead
      BY <1>1, <3>5, NextRead DEF PrepareRead, scanVars, Fault
    <3>6. CASE PrepareWrite
      BY <1>1, <3>6, NextWrite DEF PrepareWrite, scanVars, Fault
    <3>7. CASE Notify \/ ScanEnds \/ Done \/ ReleaseAllBuffers \/ DisconnectMpf
               \/ UnmapMMIO \/ Close
      BY <1>2, <3>7 DEF Notify, ScanEnds, Done, ReleaseAllBuffers, DisconnectMpf, UnmapMMIO,
                        Close
    <3> QED
      BY <1>2, <3>1, <3>2, <3>3, <3>4, <3>5, <3>6, <3>7
         DEF Next, Step, Connect, Prepare, Scans, Ended
  <2>2. \A j \in JobId : result[j] = <<>>
    BY <1>2 DEF FilteredInv
  <2> QED
    BY <1>1, <2>1, <2>2 DEF FilteredInv, OwnResults
<1>3. CASE Notify \/ ScanEnds
  <2>1. /\ UNCHANGED <<parts, cur, job, bufferVars, scanVars, faults>>
        /\ pc \in {"notify", "scan"} /\ pc' \notin Opening \cup Preparing
        /\ (pc' \in {"scan", "copy"} =>
              pc = "scan" \/ (pc = "notify" /\ Len(queue) = Planned(job)))
    BY <1>3 DEF Notify, ScanEnds, Goto, QueueInv, ScanJob
  <2>2. OwnResults'
    BY <2>1 DEF OwnResults, bufferVars, scanVars, EnoughParts, Units, TotalPartitions, Page,
                Filtered
  <2>3. /\ Planned(job)' = Planned(job) /\ Planned(job) \in Nat
        /\ write_buffers[job] \in Seq(Nat)
    <3>1. TotalPartitions(1) = parts[1] /\ parts[1] \in Nat \ {0}
          /\ \A j \in JobId : TotalPartitions(j) \in Nat /\ TotalPartitions(j)' = TotalPartitions(j)
      BY <2>1, Totals DEF VectorInv, JobId
    <3> QED
      BY <1>1, <2>1, <3>1 DEF Planned, JobId, VectorInv
  <2>4. ASSUME pc' \in {"scan", "copy"}, faults \cap {"mmio", "map"} = {},
               job = 2 => EnoughParts,
               NEW i \in DOMAIN write_buffers[job], i <= Planned(job) - Len(queue),
               i <= reported[job], write_buffers[job][i] # NULL
        PROVE  buffers[write_buffers[job][i]] = Filtered(Page(job, i - 1))
    <3>1. CASE pc = "scan"
      BY <2>4, <3>1 DEF FilteredInv
    <3>2. CASE pc = "notify"
      <4>1. i \in Nat /\ i # 0 /\ Planned(job) - Len(queue) = 0
        BY <2>1, <2>3, <2>4, <3>2
      <4> QED
        BY <2>4, <4>1
    <3> QED
      BY <2>1, <3>1, <3>2
  <2>5. /\ UNCHANGED <<buffers, write_buffers, reported, queue, result>>
        /\ EnoughParts' = EnoughParts
        /\ \A j, n : Filtered(Page(j, n))' = Filtered(Page(j, n))
    BY <2>1 DEF bufferVars, scanVars, EnoughParts, Page, Filtered, Junk
  <2>6. FilteredInv'
    BY <1>1, <2>1, <2>3, <2>4, <2>5 DEF FilteredInv
  <2> QED
    BY <2>2, <2>6
<1>4. CASE Done \/ ReleaseAllBuffers \/ DisconnectMpf \/ UnmapMMIO \/ Close
  <2>1. /\ UNCHANGED <<parts, bufferVars, scanVars, faults>>
        /\ pc' \in {"release", "delete", "unmap", "close", "ended"}
    BY <1>4 DEF Done, ReleaseAllBuffers, DisconnectMpf, UnmapMMIO, Close, Goto
  <2> QED
    BY <1>1, <2>1 DEF FilteredInv, OwnResults, bufferVars, scanVars, EnoughParts, Units,
                      TotalPartitions, Page, Filtered
<1>5. CASE UNCHANGED vars
  BY <1>5 DEF vars, FilteredInv, OwnResults, bufferVars, scanVars, EnoughParts, Units, Planned,
              TotalPartitions, Page, Filtered
<1>6. CASE ~(pc \in Opening \cup Preparing) /\ ~UNCHANGED vars
  <2>1. ~Connect /\ ~Prepare
    BY <1>6 DEF Connect, Prepare, ProbeForASE, Find, Open, OpenNone, MapMMIO, ConnectMpf,
                DestroyTokens, Check, PrepareRead, PrepareReadCrashes, PrepareWrite
  <2> QED
    BY <1>3, <1>4, <1>6, <2>1 DEF Next, Step, Scans, Ended
<1> QED
  BY <1>2, <1>5, <1>6

-----------------------------------------------------------------------------
LEMMA PcStep ==
  ASSUME [Next]_vars
  PROVE  pc' = pc \/ pc' \in SessionPC
<1> USE DEF SessionPC, Opening, Preparing, Scanning
<1>1. CASE ProbeForASE \/ Find \/ Open \/ OpenNone \/ MapMMIO \/ ConnectMpf \/ DestroyTokens
  BY <1>1 DEF ProbeForASE, Find, Open, OpenNone, MapMMIO, ConnectMpf, DestroyTokens
<1>2. CASE Check \/ PrepareRead \/ PrepareReadCrashes \/ PrepareWrite
  BY <1>2 DEF Check, PrepareRead, PrepareReadCrashes, PrepareWrite, NextPart
<1>3. CASE Notify \/ ScanUnit \/ ScanUnitFails \/ ScanEnds \/ CopyResults
  BY <1>3 DEF Notify, ScanUnit, ScanUnitFails, ScanEnds, CopyResults, Goto
<1>4. CASE Done \/ ReleaseAllBuffers \/ DisconnectMpf \/ UnmapMMIO \/ Close
  BY <1>4 DEF Done, ReleaseAllBuffers, DisconnectMpf, UnmapMMIO, Close, Goto
<1>5. CASE UNCHANGED vars
  BY <1>5 DEF vars
<1> QED
  BY <1>1, <1>2, <1>3, <1>4, <1>5 DEF Next, Step, Connect, Prepare, Scans, Ended

LEMMA TypeFollows == IInv => TypeOK
<1> SUFFICES ASSUME TokenInv, HandleInv, VectorInv, QueueInv, FilteredInv, PcInv
             PROVE  TypeOK
  BY DEF IInv
<1>1. \A j \in JobId : reported[j] \in 0 .. TotalPartitions(j)
  BY Totals DEF VectorInv
<1> QED
  BY <1>1 DEF TypeOK, PcInv, SessionPC, Opening, Preparing, Scanning, TokenInv, HandleInv,
              VectorInv, QueueInv, FilteredInv

LEMMA SessionInit == Init => IInv
<1> SUFFICES ASSUME Init PROVE IInv
  OBVIOUS
<1> USE DEF Init, Opening, Preparing, Scanning, JobId
<1>1. TokenInv /\ HandleInv
  <2>1. matches \in [max : 0 .. MaxMatches, num : 0 .. MaxMatches]
    BY FpgaSessionAssumption
  <2>2. TokenInv
    BY <2>1 DEF TokenInv
  <2>3. HandleInv
    BY DEF HandleInv
  <2> QED
    BY <2>2, <2>3
<1>2. /\ parts[1] \in Nat \ {0} /\ parts[2] \in Nat \ {0}
      /\ TotalPartitions(1) = parts[1] /\ TotalPartitions(2) = ForcedParts
      /\ ForcedParts \in Nat \ {0}
  BY FpgaSessionAssumption DEF TotalPartitions, Job
<1>3. VectorInv
  <2>1. buffers \in Seq(Content) /\ reported \in [JobId -> Nat]
    BY <1>2
  <2>2. /\ read_buffers \in [JobId -> Seq(Nat)] /\ write_buffers \in [JobId -> Seq(Nat)]
        /\ \A j \in JobId : /\ Len(read_buffers[j]) = 0 /\ DOMAIN read_buffers[j] = {}
                            /\ Len(write_buffers[j]) = 0 /\ DOMAIN write_buffers[j] = {}
    OBVIOUS
  <2>3. \A j \in JobId : reported[j] = TotalPartitions(j) /\ TotalPartitions(j) \in Nat
    BY <1>2
  <2> QED
    BY <2>1, <2>2, <2>3 DEF VectorInv
<1>4. SeparateInv
  BY DEF SeparateInv
<1>5. PageInv
  <2>1. \A j \in JobId : Reads(j) = 0 /\ Writes(j) = 0 /\ reported[j] \in Nat
    BY <1>2 DEF Reads, Writes
  <2> QED
    BY <2>1 DEF PageInv
<1>6. QueueInv
  <2>1. Planned(ScanJob) = parts[1] - 1 /\ parts[1] - 1 \in Nat
    BY <1>2 DEF Planned, ScanJob
  <2>2. /\ queue \in Seq(Nat) /\ Len(queue) = parts[1] - 1
        /\ \A i \in DOMAIN queue : queue[i] = i - 1 /\ i \in Nat
    <3> DEFINE n == parts[1] - 1
    <3>1. queue = [i \in 1 .. n |-> i - 1] /\ n \in Nat
      BY <2>1
    <3> HIDE DEF n
    <3>2. /\ queue \in Seq(Nat) /\ Len(queue) = n /\ DOMAIN queue = 1 .. n
          /\ \A i \in 1 .. n : queue[i] = i - 1
      BY <3>1, CountedQueue
    <3>3. \A i \in DOMAIN queue : queue[i] = i - 1 /\ i \in Nat
      BY <3>1, <3>2
    <3> QED
      BY <3>2, <3>3 DEF n
  <2>3. \A i \in DOMAIN queue : queue[i] = Planned(ScanJob) - Len(queue) + i - 1
    BY <2>1, <2>2
  <2> QED
    BY <2>1, <2>2, <2>3 DEF QueueInv
<1>7. FilteredInv
  <2>1. result \in [JobId -> Seq(Content)]
    OBVIOUS
  <2> QED
    BY <2>1 DEF FilteredInv
<1>8. OwnResults
  BY DEF OwnResults
<1>9. PcInv
  BY DEF PcInv, SessionPC, Opening
<1> QED
  BY <1>1, <1>3, <1>4, <1>5, <1>6, <1>7, <1>8, <1>9 DEF IInv

LEMMA SessionStep == IInv /\ [Next]_vars => IInv'
<1> SUFFICES ASSUME IInv, [Next]_vars PROVE IInv'
  OBVIOUS
<1>1. /\ TypeOK /\ TokenInv /\ HandleInv /\ VectorInv /\ SeparateInv /\ PageInv
      /\ QueueInv /\ FilteredInv /\ OwnResults
  BY TypeFollows DEF IInv
<1>2. TokenInv' /\ HandleInv'
  BY <1>1, TokenStep, HandleStep
<1>3. VectorInv' /\ SeparateInv' /\ PageInv'
  <2>1. CASE PrepareRead
    BY <1>1, <2>1, ReadVectors
  <2>2. CASE PrepareWrite
    BY <1>1, <2>2, WriteVectors
  <2>3. CASE ScanUnit
    BY <1>1, <2>3, ScanVectors
  <2>4. CASE ~PrepareRead /\ ~PrepareWrite /\ ~ScanUnit
    BY <1>1, <2>4, QuietStep, QuietVectors
  <2> QED
    BY <2>1, <2>2, <2>3, <2>4
<1>4. QueueInv'
  BY <1>1, QueueStep
<1>5. FilteredInv' /\ OwnResults'
  <2>1. CASE ScanUnit \/ ScanUnitFails
    <3>1. FilteredInv'
      BY <1>1, <2>1, ScanFiltered
    <3>2. UNCHANGED <<parts, result, reported>> /\ faults \subseteq faults'
      BY <2>1 DEF ScanUnit, ScanUnitFails, bufferVars
    <3>3. OwnResults'
      BY <1>1, <3>2 DEF OwnResults, EnoughParts, Units, TotalPartitions, Page, Filtered
    <3> QED
      BY <3>1, <3>3
  <2>2. CASE CopyResults
    BY <1>1, <2>2, CopyStep
  <2>3. CASE ~ScanUnit /\ ~ScanUnitFails /\ ~CopyResults
    BY <1>1, <2>3, OtherStep
  <2> QED
    BY <2>1, <2>2, <2>3
<1>6. PcInv'
  BY <1>1, PcStep DEF IInv, PcInv
<1> QED
  BY <1>2, <1>3, <1>4, <1>5, <1>6 DEF IInv

LEMMA SessionInvariant == Spec => []IInv
<1>1. Init => IInv
  BY SessionInit
<1>2. IInv /\ [Next]_vars => IInv'
  BY SessionStep
<1> QED
  BY <1>1, <1>2, PTL DEF Spec

\* Every reachable state of a session is well typed (opae_svc_wrapper.cpp,
\* FPGAHandler.h): the vectors of buffers never outgrow the partitions they are
\* for and name nothing but buffers that were allocated.
THEOREM SessionTypeCorrect == Spec => []TypeOK
BY SessionInvariant, TypeFollows, PTL

\* The constructor (findAndOpenAccel) gives every token back, whichever of its
\* calls fail, and tries each accelerator only while it has its token.
THEOREM TokensCorrect == Spec => []TokensReturned
<1>1. IInv => TokensReturned
  BY DEF IInv, TokenInv, TokensReturned
<1> QED
  BY <1>1, SessionInvariant, PTL

\* The result FPGAHandler copies for a partition is the filter of its own page,
\* up to the first page whose buffer could not be prepared: for any number of
\* partitions, and whichever driver calls fail.
THEOREM OwnResultsCorrect == Spec => []OwnResults
BY SessionInvariant, PTL DEF IInv

\* Buffers are allocated, filled and copied only while the accelerator is open
\* and MPF connected to it, and the accelerator is closed last.
THEOREM HandlesCorrect == Spec => LiveHandles
<1> DEFINE Live == /\ buffers' # buffers \/ result' # result =>
                        accel = "open" /\ mpf = "connected" /\ csrs
                   /\ accel = "open" /\ accel' = "closed" => mpf # "connected" /\ ~mapped
<1>1. IInv /\ [Next]_vars => [Live]_vars
  <2> SUFFICES ASSUME IInv, Next PROVE Live
    OBVIOUS
  <2> USE DEF IInv, HandleInv, Preparing, connectVars, bufferVars, scanVars
  <2>1. CASE Connect
    <3>1. UNCHANGED <<buffers, result>> /\ (accel' = accel \/ accel' = "open")
      BY <2>1 DEF Connect, ProbeForASE, Find, Open, OpenNone, MapMMIO, ConnectMpf,
                  DestroyTokens
    <3> QED
      BY <3>1
  <2>2. CASE Prepare
    <3>1. accel' = accel /\ (buffers' # buffers => pc \in Preparing) /\ result' = result
      BY <2>2 DEF Prepare, Check, PrepareRead, PrepareReadCrashes, PrepareWrite
    <3> QED
      BY <3>1
  <2>3. CASE Scans
    <3>1. accel' = accel /\ (buffers' # buffers => pc = "scan") /\ (result' # result => pc = "copy")
      BY <2>3 DEF Scans, Notify, ScanUnit, ScanUnitFails, ScanEnds, CopyResults, Done,
                  ReleaseAllBuffers, Goto
    <3> QED
      BY <3>1
  <2>4. CASE DisconnectMpf \/ UnmapMMIO
    BY <2>4 DEF DisconnectMpf, UnmapMMIO
  <2>5. CASE Close
    BY <2>5 DEF Close
  <2>6. CASE Ended
    BY <2>6 DEF Ended, vars
  <2> QED
    BY <2>1, <2>2, <2>3, <2>4, <2>5, <2>6 DEF Next, Step
<1>2. [][Live]_vars => LiveHandles
  BY PTL DEF LiveHandles
<1> QED
  BY <1>1, <1>2, SessionInvariant, PTL DEF Spec
=============================================================================
