-------------------------- MODULE QueryThreadsProofs --------------------------
(***************************************************************************)
(* Machine-checked proofs about QueryThreads: for any number of compute    *)
(* units, with or without the FPGA handler, in either mode, and whichever  *)
(* threads could not be created.                                           *)
(***************************************************************************)
EXTENDS QueryThreads, FiniteSetTheorems, TLAPS

(***************************************************************************)
(* The inductive invariant adds to TypeOK what main knows of the threads   *)
(* it has not started yet and what it has learnt from the joins it has     *)
(* done.  It is preserved because a thread that has not started or has     *)
(* returned is in no barrier and so is not moved when one opens.           *)
(***************************************************************************)
Joined(t) == (main = "join" /\ t < cur) \/ main \in {"destroy", "returned"}

Unstarted(t) == main = "start" /\ ~(t < cur)

JoinInv ==
  /\ \A t \in Handler : Unstarted(t) => pc[t] = "none"
  /\ \A t \in Handler : Joined(t) /\ running[t] => pc[t] = "returned"
  /\ barriers = "destroyed" => main = "returned"

IInv == TypeOK /\ JoinInv

LEMMA HandlerInterval ==
  /\ IsFiniteSet(Handler)
  /\ Cardinality(Handler) \in Nat
  /\ Handler = 0 .. Cardinality(Handler) - 1
<1>1. CASE FPGA
  <2>1. Handler = 0 .. NumOfCus
    BY <1>1, QueryThreadsAssumption DEF Handler, Core, FpgaThread
  <2> QED
    BY <2>1, QueryThreadsAssumption, FS_Interval
<1>2. CASE ~FPGA
  <2>1. Handler = 0 .. NumOfCus - 1
    BY <1>2 DEF Handler, Core
  <2> QED
    BY <2>1, QueryThreadsAssumption, FS_Interval
<1> QED
  BY <1>1, <1>2

LEMMA Initial == Init => IInv
<1> SUFFICES ASSUME Init PROVE IInv
  OBVIOUS
<1>1. Cardinality({}) < NumOfCus
  BY FS_EmptySet, QueryThreadsAssumption
<1>2. TypeOK
  <2>1. main \in {"start"} /\ cur \in 0 .. Cardinality(Handler)
    BY HandlerInterval DEF Init
  <2>2. running \in [Handler -> BOOLEAN] /\ pc \in [Handler -> PC]
    BY DEF Init, PC
  <2>3. \A b \in Barrier : waiting[b] = {}
    BY DEF Init
  <2>4. waiting \in [Barrier -> SUBSET Handler]
    BY DEF Init
  <2> QED
    BY <1>1, <2>1, <2>2, <2>3, <2>4 DEF Init, TypeOK
<1>3. JoinInv
  BY DEF Init, JoinInv, Joined, Unstarted
<1> QED
  BY <1>2, <1>3 DEF IInv

LEMMA StartThreadStep == IInv /\ StartThread => IInv'
<1> SUFFICES ASSUME IInv, StartThread PROVE IInv'
  OBVIOUS
<1> USE DEF IInv, StartThread
<1>1. TypeOK'
  <2>1. cur' \in 0 .. Cardinality(Handler) /\ main' \in {"start", "join"}
    BY HandlerInterval DEF TypeOK
  <2>2. running' \in [Handler -> BOOLEAN] /\ pc' \in [Handler -> PC]
    BY DEF TypeOK, PC, Barrier
  <2>3. \A b \in Barrier : \A t \in waiting[b] : pc'[t] = b
    <3>1. CASE pc' = pc
      BY <3>1 DEF TypeOK
    <3>2. CASE pc' # pc
      <4>1. /\ cur \in Handler /\ ~(cur < cur)
            /\ pc' = [pc EXCEPT ![cur] = "start"]
        BY <3>2, HandlerInterval DEF TypeOK
      <4>2. pc[cur] = "none"
        BY <4>1 DEF JoinInv, Unstarted
      <4>3. \A b \in Barrier : \A t \in waiting[b] : t # cur
        BY <4>2 DEF TypeOK, Barrier
      <4> QED
        BY <4>1, <4>3 DEF TypeOK
    <3> QED
      BY <3>1, <3>2
  <2> QED
    BY <2>1, <2>2, <2>3 DEF TypeOK
<1>2. JoinInv'
  <2>1. \A t \in Handler : ~(Joined(t)')
    <3>1. CASE cur \in Handler
      BY <3>1 DEF Joined
    <3>2. CASE cur \notin Handler
      <4>1. \A t \in Handler : ~(t < 0)
        BY HandlerInterval
      <4> QED
        BY <3>2, <4>1 DEF Joined
    <3> QED
      BY <3>1, <3>2
  <2>2. barriers' # "destroyed"
    BY DEF JoinInv
  <2>3. ASSUME NEW t \in Handler, Unstarted(t)' PROVE pc'[t] = "none"
    <3>1. cur \in Handler /\ main = "start" /\ cur' = cur + 1
      BY <2>3 DEF Unstarted
    <3>2. t # cur /\ ~(t < cur)
      BY <2>3, <3>1, HandlerInterval DEF Unstarted
    <3>3. pc[t] = "none"
      BY <3>1, <3>2 DEF JoinInv, Unstarted
    <3> QED
      BY <3>2, <3>3 DEF TypeOK
  <2> QED
    BY <2>1, <2>2, <2>3 DEF JoinInv
<1> QED
  BY <1>1, <1>2

LEMMA JoinThreadStep == IInv /\ JoinThread => IInv'
<1> SUFFICES ASSUME IInv, JoinThread PROVE IInv'
  OBVIOUS
<1> USE DEF IInv, JoinThread
<1>1. TypeOK'
  BY HandlerInterval DEF TypeOK
<1>2. JoinInv'
  <2>1. CASE cur \in Handler
    <3>1. \A t \in Handler : t < cur + 1 => t < cur \/ t = cur
      BY HandlerInterval, <2>1
    <3> QED
      BY <2>1, <3>1 DEF JoinInv, Joined, Unstarted, TypeOK
  <2>2. CASE cur \notin Handler
    <3>1. \A t \in Handler : t < cur
      BY <2>2, HandlerInterval DEF TypeOK
    <3> QED
      BY <2>2, <3>1 DEF JoinInv, Joined, Unstarted, TypeOK
  <2> QED
    BY <2>1, <2>2
<1> QED
  BY <1>1, <1>2

LEMMA DestroyBarriersStep == IInv /\ DestroyBarriers => IInv'
BY DEF IInv, DestroyBarriers, TypeOK, JoinInv, Joined, Unstarted

\* A thread that has not started or has returned is in no barrier, so no step
\* of another moves it.
LEMMA OutsideStays ==
  ASSUME IInv, NEW t \in Handler, Run(t),
         NEW u \in Handler, pc[u] \in {"none", "returned"}
  PROVE  pc'[u] = pc[u]
<1>1. ASSUME NEW b \in Barrier, BarrierWait(t, b) PROVE pc'[u] = pc[u]
  <2>1. u # t /\ u \notin waiting[b]
    BY <1>1 DEF IInv, TypeOK, BarrierWait, Barrier
  <2> QED
    BY <1>1, <2>1 DEF BarrierWait
<1>2. CASE CoreWork(t)
  BY <1>2 DEF CoreWork, IInv, TypeOK
<1>3. CASE FpgaConnect(t)
  BY <1>3 DEF FpgaConnect, IInv, TypeOK
<1>4. CASE FpgaScans(t)
  BY <1>4 DEF FpgaScans, IInv, TypeOK
<1> QED
  BY <1>1, <1>2, <1>3, <1>4 DEF Run

LEMMA BarrierWaitType ==
  ASSUME TypeOK, NEW t \in Handler, NEW b \in Barrier, BarrierWait(t, b)
  PROVE  TypeOK'
<1> DEFINE met == waiting[b] \cup {t}
<1>1. met \in SUBSET Handler /\ \A u \in met : pc[u] = b
  BY DEF TypeOK, BarrierWait
<1>2. Cardinality(met) <= NumOfCus
  <2>1. IsFiniteSet(waiting[b])
    BY HandlerInterval, FS_Subset DEF TypeOK
  <2>2. Cardinality(met) = Cardinality(waiting[b]) + 1
    BY <2>1, FS_AddElement DEF BarrierWait
  <2> QED
    BY <2>1, <2>2, FS_CardinalityType, QueryThreadsAssumption DEF TypeOK
<1>3. Cardinality(met) \in Nat
  BY <1>1, HandlerInterval, FS_Subset, FS_CardinalityType
<1>4. \A u \in Handler : After(u, b) \in PC
  BY DEF After, PC, Barrier
<1>5. CASE Cardinality(met) = Trip
  <2>1. pc' = [u \in Handler |-> IF u \in met THEN After(u, b) ELSE pc[u]]
        /\ waiting' = [waiting EXCEPT ![b] = {}]
    BY <1>5 DEF BarrierWait
  <2>2. pc' \in [Handler -> PC] /\ waiting' \in [Barrier -> SUBSET Handler]
    BY <2>1, <1>4 DEF TypeOK
  <2>3. ASSUME NEW c \in Barrier
        PROVE  /\ \A u \in waiting'[c] : pc'[u] = c
               /\ Cardinality(waiting'[c]) < NumOfCus
    <3>1. CASE c = b
      BY <2>1, <3>1, FS_EmptySet, QueryThreadsAssumption DEF TypeOK
    <3>2. CASE c # b
      <4>1. waiting'[c] = waiting[c]
        BY <2>1, <3>2 DEF TypeOK
      <4> QED
        BY <4>1, <2>1, <3>2, <1>1 DEF TypeOK
    <3> QED
      BY <3>1, <3>2
  <2> QED
    BY <2>2, <2>3 DEF TypeOK, BarrierWait, threadVars
<1>6. CASE Cardinality(met) # Trip
  <2>1. pc' = pc /\ waiting' = [waiting EXCEPT ![b] = met]
    BY <1>6 DEF BarrierWait
  <2>2. Cardinality(met) < NumOfCus
    BY <1>2, <1>3, <1>6, QueryThreadsAssumption DEF Trip
  <2>3. ASSUME NEW c \in Barrier
        PROVE  /\ \A u \in waiting'[c] : pc'[u] = c
               /\ Cardinality(waiting'[c]) < NumOfCus
    BY <2>1, <2>2, <1>1 DEF TypeOK
  <2>4. waiting' \in [Barrier -> SUBSET Handler]
    BY <2>1, <1>1 DEF TypeOK
  <2> QED
    BY <2>1, <2>3, <2>4 DEF TypeOK, BarrierWait, threadVars
<1> QED
  BY <1>5, <1>6

LEMMA RunType ==
  ASSUME TypeOK, NEW t \in Handler, Run(t)
  PROVE  TypeOK'
<1>1. ASSUME NEW s \in PC, pc[t] \notin Barrier, pc' \in {pc, [pc EXCEPT ![t] = s]},
             connected' \in BOOLEAN, crashed' \in BOOLEAN,
             UNCHANGED <<threadVars, waiting>>
      PROVE  TypeOK'
  <2>1. pc' \in [Handler -> PC]
    BY <1>1 DEF TypeOK
  <2>2. \A b \in Barrier : \A u \in waiting[b] : u # t /\ pc'[u] = pc[u]
    BY <1>1 DEF TypeOK
  <2> QED
    BY <1>1, <2>1, <2>2 DEF TypeOK, threadVars
<1>2. CASE CoreWork(t)
  BY <1>1, <1>2 DEF CoreWork, TypeOK, PC, Barrier
<1>3. CASE FpgaConnect(t)
  BY <1>1, <1>3 DEF FpgaConnect, TypeOK, PC, Barrier
<1>4. CASE FpgaScans(t)
  BY <1>1, <1>4 DEF FpgaScans, TypeOK, PC, Barrier
<1> QED
  BY <1>2, <1>3, <1>4, BarrierWaitType DEF Run

LEMMA RunStep ==
  ASSUME IInv, NEW t \in Handler, Run(t)
  PROVE  IInv'
<1>1. TypeOK'
  BY RunType DEF IInv
<1>2. UNCHANGED threadVars
  BY DEF Run, BarrierWait, CoreWork, FpgaConnect, FpgaScans
<1>3. JoinInv'
  BY <1>2, OutsideStays DEF IInv, JoinInv, Joined, Unstarted, threadVars
<1> QED
  BY <1>1, <1>3 DEF IInv

LEMMA Inductive == IInv /\ [Next]_vars => IInv'
<1> SUFFICES ASSUME IInv, [Next]_vars PROVE IInv'
  OBVIOUS
<1>1. CASE Main
  BY <1>1, StartThreadStep, JoinThreadStep, DestroyBarriersStep DEF Main
<1>2. ASSUME NEW t \in Handler, Run(t) PROVE IInv'
  BY <1>2, RunStep
<1>3. CASE UNCHANGED vars
  BY <1>3 DEF vars, IInv, TypeOK, JoinInv, Joined, Unstarted
<1> QED
  BY <1>1, <1>2, <1>3 DEF Next, Ended

-----------------------------------------------------------------------------
(***************************************************************************)
(* The rendezvous.  When a barrier opens, NumOfCus created threads are     *)
(* inside.  The start barrier opens once: a second opening would take      *)
(* another NumOfCus threads, and there is at most one more.  The other two *)
(* are reached only by threads that have passed it, so when one of them    *)
(* opens these are all in it.                                              *)
(*                                                                         *)
(* The end of the query.  In SSB mode core 0 does not come to the FPGA     *)
(* barrier, so the NumOfCus threads that open the end barrier are all the  *)
(* others, the FPGA handler among them.  With raw data the FPGA handler    *)
(* does not come to the end barrier, so whoever is in it passed the start  *)
(* without the FPGA handler.                                               *)
(***************************************************************************)
InPlace(t) ==
  /\ running[t] <=> pc[t] # "none"
  /\ pc[t] = "connect" => t = FpgaThread
  /\ pc[t] = "work" => t # FpgaThread
  /\ t = FpgaThread /\ pc[t] \in {"end", "returned"} => connected /\ ~raw
  /\ t = FpgaThread /\ raw /\ pc[t] \in {"fpga", "scan"} => ~connected
  /\ t = 0 /\ ~raw => pc[t] \in {"none", "start", "work"}

EndsWithFpga ==
  (\E t \in Handler : pc[t] = "returned") /\ FPGA /\ ~raw
    => pc[FpgaThread] \in {"end", "returned"}

StepInv ==
  /\ \A t \in Handler : InPlace(t)
  /\ Rendezvous
  /\ EndsWithFpga

LEMMA HandlerCount ==
  /\ FpgaThread \in Handler <=> FPGA
  /\ 0 \in Handler /\ FpgaThread # 0
  /\ Cardinality(Handler) <= NumOfCus + 1
  /\ BarriersHold => Cardinality(Handler) < 2 * NumOfCus
<1>1. Cardinality(Core) = NumOfCus /\ IsFiniteSet(Core)
  BY QueryThreadsAssumption, FS_Interval DEF Core
<1>2. FpgaThread \notin Core /\ 0 \in Core /\ FpgaThread # 0
  BY QueryThreadsAssumption DEF Core, FpgaThread
<1>3. CASE FPGA
  <2>1. Handler = Core \cup {FpgaThread}
    BY <1>3 DEF Handler
  <2>2. Cardinality(Handler) = NumOfCus + 1
    BY <2>1, <1>1, <1>2, FS_AddElement
  <2> QED
    BY <2>1, <2>2, <1>2, <1>3, QueryThreadsAssumption DEF BarriersHold
<1>4. CASE ~FPGA
  BY <1>1, <1>2, <1>4, QueryThreadsAssumption DEF Handler
<1> QED
  BY <1>3, <1>4

LEMMA StageType ==
  ASSUME TypeOK, NEW t \in Handler
  PROVE  Stage(t) \in 0 .. 3 /\ (Stage(t) = 0 <=> pc[t] \in {"none", "start"})
<1>1. pc[t] \in PC
  BY DEF TypeOK
<1> QED
  BY <1>1 DEF Stage, PC, Barrier

LEMMA StepInitial == Init => StepInv
<1> SUFFICES ASSUME Init PROVE StepInv
  OBVIOUS
<1>1. \A t \in Handler : pc[t] = "none" /\ ~running[t]
  BY DEF Init
<1>2. Passed = {}
  BY <1>1 DEF Passed, Created
<1> QED
  BY <1>1, <1>2 DEF StepInv, InPlace, Rendezvous, EndsWithFpga

LEMMA StepUnchanged ==
  ASSUME StepInv, UNCHANGED <<raw, running, pc, connected>>
  PROVE  StepInv'
<1>1. \A t \in Handler : InPlace(t)'
  BY DEF StepInv, InPlace
<1>2. Passed' = Passed /\ \A t \in Passed : Stage(t)' = Stage(t)
  BY DEF Passed, Created, Stage
<1>3. Rendezvous'
  BY <1>2 DEF StepInv, Rendezvous
<1>4. EndsWithFpga'
  BY DEF StepInv, EndsWithFpga
<1> QED
  BY <1>1, <1>3, <1>4 DEF StepInv

\* A step that leaves every thread at its stage keeps the rendezvous.
LEMMA SameStage ==
  ASSUME Rendezvous, Passed' = Passed,
         \A t \in Passed : Stage(t)' = Stage(t)
  PROVE  Rendezvous'
BY DEF Rendezvous

LEMMA StepStartThread ==
  ASSUME IInv, StepInv, StartThread
  PROVE  StepInv'
<1>1. CASE UNCHANGED <<running, pc>>
  BY <1>1, StepUnchanged DEF StartThread
<1>2. ASSUME NEW k \in Handler, k = cur,
             running' = [running EXCEPT ![k] = TRUE],
             pc' = [pc EXCEPT ![k] = "start"]
      PROVE  StepInv'
  <2>1. TypeOK /\ connected' = connected /\ raw' = raw
    BY DEF IInv, StartThread
  <2>2. pc[k] = "none"
    <3>1. k \in Int /\ ~(k < cur) /\ main = "start"
      BY <1>2, HandlerInterval DEF StartThread
    <3> QED
      BY <3>1, <1>2 DEF IInv, JoinInv, Unstarted
  <2>3. \A t \in Handler : t # k => pc'[t] = pc[t] /\ running'[t] = running[t]
    BY <1>2, <2>1 DEF TypeOK
  <2>4. pc'[k] = "start" /\ running'[k]
    BY <1>2, <2>1 DEF TypeOK
  <2>5. Rendezvous'
    <3>1. Stage(k) = 0 /\ Stage(k)' = 0
      BY <2>2, <2>4 DEF Stage
    <3>2. \A t \in Handler : Stage(t)' = Stage(t)
      BY <2>3, <3>1 DEF Stage
    <3>3. Passed' = Passed
      BY <3>1, <3>2, <2>3 DEF Passed, Created
    <3> QED
      BY <3>2, <3>3, SameStage DEF StepInv, Passed, Created
  <2>6. \A t \in Handler : InPlace(t)'
    BY <2>1, <2>3, <2>4 DEF StepInv, InPlace
  <2>7. EndsWithFpga'
    BY <2>1, <2>2, <2>3, <2>4, HandlerCount DEF StepInv, EndsWithFpga
  <2> QED
    BY <2>5, <2>6, <2>7 DEF StepInv
<1> QED
  BY <1>1, <1>2 DEF StartThread

\* The opening of a barrier moves the NumOfCus threads in it, and no other.
LEMMA Opening ==
  ASSUME TypeOK, StepInv, NEW t \in Handler, NEW b \in Barrier, BarrierWait(t, b),
         pc' # pc
  PROVE  \E met \in SUBSET Created :
           /\ Cardinality(met) = NumOfCus
           /\ \A u \in met : pc[u] = b /\ pc'[u] = After(u, b)
           /\ \A u \in Handler \ met : pc'[u] = pc[u]
<1> DEFINE met == waiting[b] \cup {t}
<1>1. \A u \in met : u \in Handler /\ pc[u] = b
  BY DEF TypeOK, BarrierWait
<1>2. met \in SUBSET Created
  BY <1>1 DEF StepInv, InPlace, Barrier, Created
<1>3. Cardinality(met) = NumOfCus
      /\ pc' = [u \in Handler |-> IF u \in met THEN After(u, b) ELSE pc[u]]
  BY DEF BarrierWait, Trip
<1> HIDE DEF met
<1> QED
  BY <1>1, <1>2, <1>3

LEMMA RendezvousOpening ==
  ASSUME TypeOK, StepInv, NEW b \in Barrier, running' = running,
         NEW met \in SUBSET Created, Cardinality(met) = NumOfCus,
         \A u \in met : pc[u] = b /\ pc'[u] = After(u, b),
         \A u \in Handler \ met : pc'[u] = pc[u]
  PROVE  Rendezvous'
<1> SUFFICES ASSUME BarriersHold
             PROVE  /\ Cardinality(Passed') = NumOfCus
                    /\ \A u, v \in Passed' : Stage(u)' = Stage(v)'
  BY DEF Rendezvous
<1>1. IsFiniteSet(met) /\ IsFiniteSet(Passed) /\ met \in SUBSET Handler
      /\ Passed \in SUBSET Handler /\ met # {}
  BY HandlerInterval, FS_Subset, FS_EmptySet, QueryThreadsAssumption DEF Created, Passed
<1>2. Passed = {} \/ Cardinality(Passed) = NumOfCus
  BY DEF StepInv, Rendezvous
<1>3. Created' = Created
  BY DEF Created
<1>4. \A u \in Handler \ met : Stage(u)' = Stage(u)
  BY DEF Stage
<1>5. CASE b = "start"
  <2>1. \A u \in met : Stage(u) = 0 /\ Stage(u)' = 1
    BY <1>5 DEF Stage, After
  <2>2. Passed = {}
    <3> SUFFICES ASSUME Cardinality(Passed) = NumOfCus PROVE FALSE
      BY <1>2
    <3>1. met \cap Passed = {}
      BY <2>1 DEF Passed
    <3>2. Cardinality(met \cup Passed) = NumOfCus + NumOfCus
      <4>1. Cardinality(met \cap Passed) = 0
        BY <3>1, FS_EmptySet
      <4>2. Cardinality(met \cup Passed)
              = Cardinality(met) + Cardinality(Passed) - Cardinality(met \cap Passed)
        BY <1>1, FS_Union
      <4> QED
        BY <4>1, <4>2, QueryThreadsAssumption
    <3>3. Cardinality(met \cup Passed) <= Cardinality(Handler)
      BY <1>1, HandlerInterval, FS_Subset
    <3> QED
      BY <3>2, <3>3, HandlerCount, HandlerInterval, QueryThreadsAssumption
  <2>3. Passed' = met
    BY <2>1, <2>2, <1>1, <1>3, <1>4 DEF Passed, Created
  <2> QED
    BY <2>1, <2>3
<1>6. CASE b # "start"
  <2>1. \A u \in met : Stage(u) > 0 /\ Stage(u)' > 0
    BY <1>6 DEF Stage, After, Barrier
  <2>2. met \in SUBSET Passed
    BY <2>1 DEF Passed
  <2>3. met = Passed
    BY <2>2, <1>1, <1>2, FS_Subset
  <2>4. Passed' = met
    <3>1. \A u \in Created : u \in met <=> Stage(u)' > 0
      BY <2>1, <2>3, <1>1, <1>4 DEF Passed, Created
    <3> QED
      BY <3>1, <1>3 DEF Passed
  <2>5. \A u, v \in met : Stage(u)' = Stage(v)'
    BY <1>6 DEF Stage, After, Barrier
  <2> QED
    BY <2>4, <2>5
<1> QED
  BY <1>5, <1>6

LEMMA EndOpening ==
  ASSUME TypeOK, StepInv, NEW b \in Barrier, raw' = raw,
         NEW met \in SUBSET Created, Cardinality(met) = NumOfCus,
         \A u \in met : pc[u] = b /\ pc'[u] = After(u, b),
         \A u \in Handler \ met : pc'[u] = pc[u]
  PROVE  EndsWithFpga'
<1> SUFFICES ASSUME FPGA, ~raw, NEW t \in Handler, pc'[t] = "returned"
             PROVE  pc'[FpgaThread] \in {"end", "returned"}
  BY DEF EndsWithFpga
<1>1. FpgaThread \in Handler /\ 0 \in Handler
  BY HandlerCount
<1>2. CASE b = "end"
  <2>1. 0 \notin met
    BY <1>1, <1>2 DEF StepInv, InPlace
  <2>2. met \cup {0} = Handler
    <3>1. IsFiniteSet(met) /\ met \cup {0} \in SUBSET Handler
      BY <1>1, HandlerInterval, FS_Subset DEF Created
    <3>2. Cardinality(met \cup {0}) = NumOfCus + 1
      BY <2>1, <3>1, FS_AddElement
    <3>3. Cardinality(met \cup {0}) = Cardinality(Handler)
      BY <3>1, <3>2, HandlerCount, HandlerInterval, FS_Subset, QueryThreadsAssumption
    <3> QED
      BY <3>1, <3>3, HandlerInterval, FS_Subset
  <2>3. FpgaThread \in met
    BY <2>2, <1>1, HandlerCount
  <2> QED
    BY <2>3, <1>2 DEF After
<1>3. CASE b # "end"
  <2>1. \A u \in met : pc'[u] # "returned" /\ pc[u] # "end" /\ pc[u] # "returned"
    BY <1>3 DEF After, Barrier
  <2>2. t \notin met /\ pc[t] = "returned"
    BY <2>1
  <2>3. pc[FpgaThread] \in {"end", "returned"}
    BY <2>2 DEF StepInv, EndsWithFpga
  <2> QED
    BY <2>1, <2>3, <1>1
<1> QED
  BY <1>2, <1>3

LEMMA StepBarrierWait ==
  ASSUME TypeOK, StepInv, NEW t \in Handler, NEW b \in Barrier, BarrierWait(t, b)
  PROVE  StepInv'
<1>1. UNCHANGED <<raw, running, connected>>
  BY DEF BarrierWait, threadVars
<1>2. CASE pc' = pc
  BY <1>1, <1>2, StepUnchanged
<1>3. CASE pc' # pc
  <2>1. PICK met \in SUBSET Created :
          /\ Cardinality(met) = NumOfCus
          /\ \A u \in met : pc[u] = b /\ pc'[u] = After(u, b)
          /\ \A u \in Handler \ met : pc'[u] = pc[u]
    BY <1>3, Opening
  <2>2. Rendezvous' /\ EndsWithFpga'
    BY <1>1, <2>1, RendezvousOpening, EndOpening
  <2>3. ASSUME NEW u \in Handler PROVE InPlace(u)'
    <3>1. CASE u \notin met
      BY <3>1, <1>1, <2>1 DEF StepInv, InPlace
    <3>2. CASE u \in met
      <4>1. pc[u] = b /\ pc'[u] = After(u, b) /\ InPlace(u) /\ running[u]
        BY <3>2, <2>1 DEF StepInv, Created
      <4>2. u = FpgaThread => u # 0
        BY HandlerCount
      <4> QED
        BY <4>1, <4>2, <1>1 DEF InPlace, After, Barrier
    <3> QED
      BY <3>1, <3>2
  <2> QED
    BY <2>2, <2>3 DEF StepInv
<1> QED
  BY <1>2, <1>3

LEMMA StepRun ==
  ASSUME TypeOK, StepInv, NEW t \in Handler, Run(t)
  PROVE  StepInv'
<1>1. ASSUME CoreWork(t) \/ FpgaConnect(t) \/ FpgaScans(t)
      PROVE  StepInv'
  <2>1. running' = running /\ raw' = raw
    BY <1>1 DEF CoreWork, FpgaConnect, FpgaScans, threadVars
  <2>2. Rendezvous'
    <3>1. ASSUME NEW u \in Handler PROVE Stage(u)' = Stage(u)
      BY <1>1 DEF CoreWork, FpgaConnect, FpgaScans, Stage, TypeOK
    <3>2. Passed' = Passed
      BY <3>1, <2>1 DEF Passed, Created
    <3> QED
      BY <3>1, <3>2, SameStage DEF StepInv, Passed, Created
  <2>3. \A u \in Handler : u # t => pc'[u] = pc[u]
    BY <1>1 DEF CoreWork, FpgaConnect, FpgaScans, TypeOK
  <2>4. pc[t] \in {"work", "connect", "scan"} /\ pc'[t] \in {pc[t], "fpga", "end"}
    BY <1>1 DEF CoreWork, FpgaConnect, FpgaScans, TypeOK
  <2>5. EndsWithFpga'
    <3>1. \A u \in Handler : pc'[u] = "returned" => pc[u] = "returned"
      BY <2>3, <2>4
    <3> QED
      BY <3>1, <2>1, <2>3, <2>4, HandlerCount DEF StepInv, EndsWithFpga
  <2>6. ASSUME NEW u \in Handler PROVE InPlace(u)'
    <3>1. InPlace(u) /\ InPlace(t)
      BY DEF StepInv
    <3>2. CASE CoreWork(t)
      <4>1. CASE u = t
        <5>1. pc[t] = "work" /\ pc'[t] \in {"work", "fpga"} /\ connected' = connected
              /\ (t = 0 /\ ~raw => pc'[t] = pc[t])
          BY <3>2 DEF CoreWork, TypeOK
        <5>2. t # FpgaThread
          BY <5>1, <3>1 DEF InPlace
        <5> QED
          BY <4>1, <5>1, <5>2, <3>1, <2>1 DEF InPlace
      <4>2. CASE u # t
        BY <4>2, <3>1, <3>2, <2>1, <2>3 DEF InPlace, CoreWork
      <4> QED
        BY <4>1, <4>2
    <3>3. CASE FpgaConnect(t)
      <4>1. t = FpgaThread /\ FpgaThread # 0
        BY <3>1, <3>3, HandlerCount DEF FpgaConnect, InPlace
      <4>2. CASE u = t
        <5>1. pc[t] = "connect" /\ running[t] /\ t # 0
          BY <3>1, <3>3, <4>1 DEF FpgaConnect, InPlace
        <5>2. pc'[t] = "connect" \/ (pc'[t] = "fpga" /\ (raw => ~connected'))
          BY <3>3, <5>1 DEF FpgaConnect, TypeOK
        <5> QED
          BY <5>1, <5>2, <4>1, <4>2, <2>1 DEF InPlace
      <4>3. CASE u # t
        BY <4>1, <4>3, <3>1, <2>1, <2>3 DEF InPlace
      <4> QED
        BY <4>2, <4>3
    <3>4. CASE FpgaScans(t)
      BY <3>1, <3>4, <2>1 DEF FpgaScans, InPlace, TypeOK
    <3> QED
      BY <3>2, <3>3, <3>4, <1>1
  <2> QED
    BY <2>2, <2>5, <2>6 DEF StepInv
<1> QED
  BY <1>1, StepBarrierWait DEF Run

LEMMA StepInductive == IInv /\ StepInv /\ [Next]_vars => StepInv'
<1> SUFFICES ASSUME IInv, StepInv, [Next]_vars PROVE StepInv'
  OBVIOUS
<1>1. CASE StartThread
  BY <1>1, StepStartThread
<1>2. CASE JoinThread \/ DestroyBarriers \/ UNCHANGED vars
  BY <1>2, StepUnchanged DEF JoinThread, DestroyBarriers, vars
<1>3. ASSUME NEW t \in Handler, Run(t) PROVE StepInv'
  BY <1>3, StepRun DEF IInv
<1> QED
  BY <1>1, <1>2, <1>3 DEF Next, Main, Ended
-----------------------------------------------------------------------------
LEMMA Invariance == Spec => [](IInv /\ StepInv)
<1>1. Init => IInv /\ StepInv
  BY Initial, StepInitial
<1>2. IInv /\ StepInv /\ [Next]_vars => (IInv /\ StepInv)'
  BY Inductive, StepInductive
<1> QED
  BY <1>1, <1>2, PTL DEF Spec

\* A barrier holds fewer threads than open it, each of them waiting there and
\* nowhere else, also when there are more threads than the barriers count.
THEOREM ThreadTypeCorrect == Spec => []TypeOK
BY Invariance, PTL DEF IInv

\* destroyBarriers frees the barriers after the last created thread has left
\* them, whatever was or was not created, in every build and mode.
THEOREM WaitersGone == Spec => []BarriersOutliveWaiters
<1>1. IInv => BarriersOutliveWaiters
  BY DEF IInv, JoinInv, Joined, Unstarted, BarriersOutliveWaiters, Created
<1> QED
  BY <1>1, Invariance, PTL

\* Syncronizer's three barriers let NumOfCus threads through and keep them in
\* step, however late some are created, whichever creations fail, and also when
\* the FPGA handler makes one thread more than the barriers count.
THEOREM InStep == Spec => []Rendezvous
<1>1. StepInv => Rendezvous
  BY DEF StepInv
<1> QED
  BY <1>1, Invariance, PTL

\* In SSB mode no handler returns before a created FPGA handler has scanned
\* over a connection that was made, for any number of units, one included, and
\* whether or not every thread could be created; with raw data the FPGA handler
\* has not left the start barrier when a handler returns.
THEOREM ScanBeforeEnd == Spec => []EndAfterScan
<1> SUFFICES ASSUME IInv, StepInv PROVE EndAfterScan
  BY Invariance, PTL
<1> SUFFICES ASSUME FpgaThread \in Created,
                    NEW t \in Handler, pc[t] = "returned"
             PROVE  /\ ~raw => pc[FpgaThread] \in {"end", "returned"} /\ connected
                    /\ raw /\ BarriersHold => pc[FpgaThread] = "start"
  BY DEF EndAfterScan
<1>1. FpgaThread \in Handler /\ FPGA /\ running[FpgaThread] /\ InPlace(FpgaThread)
  BY HandlerCount DEF StepInv, Created
<1>2. ASSUME ~raw PROVE pc[FpgaThread] \in {"end", "returned"} /\ connected
  <2>1. pc[FpgaThread] \in {"end", "returned"}
    BY <1>1, <1>2 DEF StepInv, EndsWithFpga
  <2> QED
    BY <2>1, <1>1 DEF InPlace
<1>3. ASSUME raw, BarriersHold PROVE pc[FpgaThread] = "start"
  <2>1. t \in Passed /\ Stage(t) = 3
    BY DEF StepInv, InPlace, Passed, Created, Stage
  <2>2. pc[FpgaThread] \in PC /\ pc[FpgaThread] # "returned"
    BY <1>1, <1>3 DEF IInv, TypeOK, InPlace
  <2>3. Stage(FpgaThread) # 3
    BY <2>2 DEF Stage, PC, Barrier
  <2>4. FpgaThread \notin Passed
    BY <2>1, <2>3, <1>3 DEF StepInv, Rendezvous
  <2>5. pc[FpgaThread] \in {"none", "start"}
    BY <2>4, <1>1, StageType DEF Passed, IInv
  <2> QED
    BY <2>5, <1>1 DEF InPlace
<1> QED
  BY <1>2, <1>3
=============================================================================
