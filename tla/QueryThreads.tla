----------------------------- MODULE QueryThreads -----------------------------
(***************************************************************************)
(* The threads of one query: the main thread (Master.cpp, ProcessingUnit), *)
(* the CPU cores' handlers (CoreHandler::run), the FPGA's handler in a     *)
(* build with __FPGA__ (FPGAHandler::run), and the three barriers of       *)
(* Syncronizer they meet at.                                               *)
(*                                                                         *)
(* What the handlers compute between two barriers is one step here; the    *)
(* FPGA's scans are the subject of FpgaScan.  A dereferenced null pointer  *)
(* ends the process.                                                       *)
(***************************************************************************)
EXTENDS Integers, FiniteSets

CONSTANTS
  NumOfCus,        \* argv[2], the number of compute units
  FPGA,            \* is __FPGA__ defined?
  MayFailCreate    \* may pthread_create fail?

ASSUME QueryThreadsAssumption ==
  /\ NumOfCus \in Nat \ {0}
  /\ {FPGA, MayFailCreate} \subseteq BOOLEAN

\* createProcessingUnit: a CoreHandler for each compute unit, and the
\* FPGAHandler besides.  startThreads and joinThreads take them in this order.
Core == 0 .. NumOfCus - 1
FpgaThread == NumOfCus
Handler == Core \cup (IF FPGA THEN {FpgaThread} ELSE {})

Barrier == {"start", "fpga", "end"}

VARIABLES
  raw,         \* argv[3]: TRUE RawDataProcessing, FALSE SSBQ1
  main, cur,   \* what the main thread does, and the handler it is at
  running,     \* Thread::running
  pc,          \* where each handler thread is
  waiting,     \* the threads inside each pthread_barrier_wait
  barriers,    \* "ready", or "destroyed" by destroyBarriers
  connected,   \* connectToFPGA() has returned true
  crashed

vars == <<raw, main, cur, running, pc, waiting, barriers, connected, crashed>>
threadVars == <<raw, main, cur, running, barriers>>

\* A thread at a barrier's name is about to wait on it or waits on it.
PC == Barrier \cup {"none", "work", "connect", "scan", "returned"}

TypeOK ==
  /\ raw \in BOOLEAN
  /\ main \in {"start", "join", "destroy", "returned"}
  /\ cur \in 0 .. Cardinality(Handler)
  /\ running \in [Handler -> BOOLEAN]
  /\ pc \in [Handler -> PC]
  /\ waiting \in [Barrier -> SUBSET Handler]
  /\ \A b \in Barrier : \A t \in waiting[b] : pc[t] = b
  /\ \A b \in Barrier : Cardinality(waiting[b]) < NumOfCus
  /\ barriers \in {"ready", "destroyed"}
  /\ {connected, crashed} \subseteq BOOLEAN

Init ==
  /\ raw \in BOOLEAN
  /\ main = "start" /\ cur = 0
  /\ running = [t \in Handler |-> FALSE]
  /\ pc = [t \in Handler |-> "none"]
  /\ waiting = [b \in Barrier |-> {}]
  /\ barriers = "ready"
  /\ connected = FALSE /\ crashed = FALSE
-----------------------------------------------------------------------------
(* The main thread. *)

\* startThreads ignores what Thread::start returns.
StartThread ==
  /\ main = "start"
  /\ IF cur \in Handler
     THEN /\ cur' = cur + 1
          /\ UNCHANGED main
          /\ \/ /\ running' = [running EXCEPT ![cur] = TRUE]
                /\ pc' = [pc EXCEPT ![cur] = "start"]
             \/ MayFailCreate /\ UNCHANGED <<running, pc>>
     ELSE /\ main' = "join" /\ cur' = 0
          /\ UNCHANGED <<running, pc>>
  /\ UNCHANGED <<raw, waiting, barriers, connected, crashed>>

\* Mutant: join() does not wait.
JoinNobody ==
  /\ main = "join"
  /\ IF cur \in Handler THEN cur' = cur + 1 /\ UNCHANGED main
                       ELSE main' = "destroy" /\ UNCHANGED cur
  /\ UNCHANGED <<raw, running, pc, waiting, barriers, connected, crashed>>

\* Thread::join waits for a thread only if it was created.
JoinThread ==
  /\ main = "join"
  /\ IF cur \in Handler
     THEN /\ running[cur] => pc[cur] = "returned"
          /\ cur' = cur + 1
          /\ UNCHANGED main
     ELSE main' = "destroy" /\ UNCHANGED cur
  /\ UNCHANGED <<raw, running, pc, waiting, barriers, connected, crashed>>

DestroyBarriers ==
  /\ main = "destroy"
  /\ main' = "returned"
  /\ barriers' = "destroyed"
  /\ UNCHANGED <<raw, cur, running, pc, waiting, connected, crashed>>

Main == ~crashed /\ (StartThread \/ JoinThread \/ DestroyBarriers)
-----------------------------------------------------------------------------
\* Mutants: barriers one too small, and one too large.
TripEarly == NumOfCus - 1
TripLate == NumOfCus + 1

(***************************************************************************)
(* The handlers.  A barrier initialised for NumOfCus threads lets them go  *)
(* when the NumOfCus-th arrives.                                           *)
(***************************************************************************)
Trip == NumOfCus

\* Mutant: the FPGA thread is sent to the end barrier before it scans.
AfterWithoutScan(t, b) ==
  IF b = "start" THEN IF t = FpgaThread THEN "connect" ELSE "work"
  ELSE IF b = "fpga" THEN "end"
  ELSE "returned"

After(t, b) ==
  IF b = "start" THEN IF t = FpgaThread THEN "connect" ELSE "work"
  ELSE IF b = "fpga" THEN IF t = FpgaThread THEN "scan" ELSE "end"
  ELSE "returned"

\* Mutant: the count is not reset when the barrier opens.
BarrierWaitNoReset(t, b) ==
  /\ pc[t] = b /\ t \notin waiting[b]
  /\ LET met == waiting[b] \cup {t} IN
       /\ waiting' = [waiting EXCEPT ![b] = met]
       /\ pc' = IF Cardinality(met) = Trip
                THEN [u \in Handler |-> IF u \in met THEN After(u, b) ELSE pc[u]]
                ELSE pc
  /\ UNCHANGED <<threadVars, connected, crashed>>

BarrierWait(t, b) ==
  /\ pc[t] = b /\ t \notin waiting[b]
  /\ LET met == waiting[b] \cup {t} IN
       IF Cardinality(met) = Trip
       THEN /\ waiting' = [waiting EXCEPT ![b] = {}]
            /\ pc' = [u \in Handler |-> IF u \in met THEN After(u, b) ELSE pc[u]]
       ELSE /\ waiting' = [waiting EXCEPT ![b] = met]
            /\ UNCHANGED pc
  /\ UNCHANGED <<threadVars, connected, crashed>>

\* Core 0 processes the raw data, through a rawScan only createColumnParser
\* sets; the other cores have nothing to do before the FPGA barrier.
CoreWork(t) ==
  /\ pc[t] = "work"
  /\ IF t = 0 /\ ~raw
     THEN crashed' = TRUE /\ UNCHANGED pc
     ELSE pc' = [pc EXCEPT ![t] = "fpga"] /\ UNCHANGED crashed
  /\ UNCHANGED <<threadVars, waiting, connected>>

\* connectToFPGA, then the buffers for the scan APIs, which only SSBQ1 creates.
FpgaConnect(t) ==
  /\ pc[t] = "connect"
  /\ connected' \in BOOLEAN
  /\ IF raw /\ connected'
     THEN crashed' = TRUE /\ UNCHANGED pc
     ELSE pc' = [pc EXCEPT ![t] = "fpga"] /\ UNCHANGED crashed
  /\ UNCHANGED <<threadVars, waiting>>

\* notifyFPGA dereferences the CSR manager a failed connection leaves null.
FpgaScans(t) ==
  /\ pc[t] = "scan"
  /\ IF connected
     THEN pc' = [pc EXCEPT ![t] = "end"] /\ UNCHANGED crashed
     ELSE crashed' = TRUE /\ UNCHANGED pc
  /\ UNCHANGED <<threadVars, waiting, connected>>

Run(t) ==
  /\ ~crashed
  /\ \/ \E b \in Barrier : BarrierWait(t, b)
     \/ CoreWork(t) \/ FpgaConnect(t) \/ FpgaScans(t)

\* The process ends by returning from main or by a crash.
Ended == (crashed \/ main = "returned") /\ UNCHANGED vars

Next == Main \/ (\E t \in Handler : Run(t)) \/ Ended

Spec == Init /\ [][Next]_vars

\* Every thread is scheduled, and the FPGA's scans end.
FairSpec == Spec /\ WF_vars(Main) /\ \A t \in Handler : WF_vars(Run(t))
-----------------------------------------------------------------------------
\* The barriers a thread has gone through, in the order all handlers take them.
Stage(t) ==
  CASE pc[t] \in {"none", "start"} -> 0
    [] pc[t] \in {"work", "connect", "fpga"} -> 1
    [] pc[t] \in {"scan", "end"} -> 2
    [] pc[t] = "returned" -> 3

Created == {t \in Handler : running[t]}
Passed == {t \in Created : Stage(t) > 0}

\* createProcessingUnit makes one handler more in an FPGA build than the
\* barriers count.  One unit and the FPGA handler are twice what a barrier of
\* one counts: it holds nobody.  Every other choice leaves less than two rounds.
BarriersHold == FPGA => NumOfCus > 1

\* A barrier lets as many threads through as Master.cpp:20 counts and no other
\* ("//including the FPGA Handler"): all of them are in step from then on, also
\* while startThreads is still creating threads, when a creation failed, and in
\* an ordinary FPGA build, whose one thread too many stays at the start.
Rendezvous ==
  BarriersHold =>
    /\ Passed = {} \/ Cardinality(Passed) = NumOfCus
    /\ \A t, u \in Passed : Stage(t) = Stage(u)

\* destroyBarriers runs when no created thread is at, or on its way to, a
\* barrier, also when some threads could not be created.
BarriersOutliveWaiters ==
  barriers = "destroyed" => \A t \in Created : pc[t] = "returned"

\* No handler returns before a created FPGA handler has scanned, over a
\* connection that was made, whatever number of threads the barriers should
\* have counted: that of the ordinary FPGA build too, where core 0, and never
\* the FPGA handler, is the one left at the start if any thread returns.  Raw
\* data gives the FPGA nothing to scan; there it is the one left.
EndAfterScan ==
  FpgaThread \in Created /\ (\E t \in Handler : pc[t] = "returned") =>
    /\ ~raw => pc[FpgaThread] \in {"end", "returned"} /\ connected
    /\ raw /\ BarriersHold => pc[FpgaThread] = "start"

\* Master.cpp:119 "//0: SSB, 1: RawData": either mode runs without a fault.
NoCrash == ~crashed

\* Main waits to join a thread the start barrier will not let go.
WaitsForLeftOver ==
  /\ main = "join"
  /\ cur \in waiting["start"]
  /\ Cardinality(Created) # NumOfCus

\* A query that does not crash ends, every barrier opening and every thread
\* returning, unless more or fewer threads were created than the barriers
\* count: then main may wait for ever, but for one at the start barrier only.
MainReturns == <>[](main = "returned" \/ crashed \/ WaitsForLeftOver)
=============================================================================
