------------------------ MODULE ReceiverPipelineProofs ------------------------
(***************************************************************************)
(* The accounting of ReceiverPipeline for every number of messages, every  *)
(* queue capacity, ordered and unordered transports, and whether or not    *)
(* stopping wakes the network thread.                                      *)
(***************************************************************************)
EXTENDS ReceiverPipeline, SequenceTheorems, TLAPS

(* What the network thread pushes is a data message.                       *)
PushesData == net = "push" => cur \in Data

TypeInv == TypeOK /\ PushesData

LEMMA ModBound == \A n \in Nat : (n + 1) % FlushEvery \in 0 .. FlushEvery - 1
BY PipelineAssumption

LEMMA TypeInvInit == Init => TypeInv
<1> SUFFICES ASSUME Init PROVE TypeInv
  OBVIOUS
<1> USE PipelineAssumption DEF Init, Queue!Init
<1>1. <<>> \in Seq(Data) /\ Len(<<>>) = 0
  OBVIOUS
<1>2. /\ chan \in Seq(Data) /\ Len(chan) <= Capacity
      /\ taken \in [{Processor} -> Seq(Data)]
  BY <1>1
<1>3. result \in [sent : Nat \cup {Null}, overflow : Nat, received : Nat, samples : Nat]
  <2>1. result = NoResult
    OBVIOUS
  <2> HIDE PipelineAssumption DEF Init
  <2> QED
    BY <2>1 DEF NoResult
<1>4. net \in NetPoints /\ proc \in ProcPoints /\ main \in MainPoints
  BY DEF NetPoints, ProcPoints, MainPoints
<1>5. unflushed \in 0 .. FlushEvery - 1
  OBVIOUS
<1>6. cur \in Wire \cup {Null} /\ sentCount \in {0, MsgCount} /\ ended \in SUBSET {Processor}
  OBVIOUS
<1> QED
  BY <1>2, <1>3, <1>4, <1>5, <1>6 DEF TypeInv, TypeOK, PushesData

LEMMA TypeInvStep == TypeInv /\ [Next]_vars => TypeInv'
<1> SUFFICES ASSUME TypeInv, [Next]_vars PROVE TypeInv'
  OBVIOUS
<1> USE PipelineAssumption DEF TypeInv, PushesData, netVars, queueVars, procVars, mainVars
<1>1. CASE UNCHANGED vars
  BY <1>1 DEF vars, TypeOK
<1>2. ASSUME NEW m \in Wire, NetReceive(m) PROVE TypeInv'
  BY <1>2 DEF NetReceive, NetGoto, NetPoints, TypeOK, Wire
<1>3. CASE NetStep
  <2>1. CASE NetLoop
    BY <2>1 DEF NetLoop, NetGoto, NetPoints, TypeOK
  <2>2. CASE NetWoken
    BY <2>2 DEF NetWoken, NetGoto, NetPoints, TypeOK
  <2>3. CASE NetSetFlag
    BY <2>3 DEF NetSetFlag, NetGoto, NetPoints, TypeOK
  <2>4. CASE NetSetCount
    BY <2>4 DEF NetSetCount, NetGoto, NetPoints, TypeOK
  <2>5. CASE NetAccepted
    <3>1. chan' \in Seq(Data) /\ Len(chan') <= Capacity
      BY <2>5, AppendProperties DEF NetAccepted, NetPush, NetGoto, Queue!Accept, TypeOK
    <3> QED
      BY <2>5, <3>1 DEF NetAccepted, NetPush, NetGoto, Queue!Accept, NetPoints, TypeOK
  <2>6. CASE NetRefused
    BY <2>6 DEF NetRefused, NetPush, NetGoto, NetPoints, TypeOK
  <2> QED
    BY <1>3, <2>1, <2>2, <2>3, <2>4, <2>5, <2>6 DEF NetStep
<1>4. CASE ProcStep
  <2>1. CASE ProcPop
    <3>1. Head(chan) \in Data /\ chan' \in Seq(Data) /\ Len(chan') <= Capacity
      BY <2>1, HeadTailProperties DEF ProcPop, Queue!Take, TypeOK
    <3>2. taken' \in [{Processor} -> Seq(Data)]
      BY <2>1, <3>1, AppendProperties DEF ProcPop, Queue!Take, TypeOK
    <3> QED
      BY <2>1, <3>1, <3>2 DEF ProcPop, ProcGoto, ProcPoints, Queue!Take, TypeOK
  <2>2. CASE ProcEnd
    BY <2>2 DEF ProcEnd, ProcGoto, ProcPoints, Queue!Finish, TypeOK
  <2>3. CASE ProcRow
    <3>1. unflushed' \in 0 .. FlushEvery - 1
      BY <2>3, ModBound DEF ProcRow, TypeOK
    <3> QED
      BY <2>3, <3>1 DEF ProcRow, ProcGoto, ProcPoints, TypeOK
  <2>4. CASE ProcCount
    BY <2>4 DEF ProcCount, ProcGoto, ProcPoints, TypeOK
  <2>5. CASE ProcSample
    BY <2>5 DEF ProcSample, ProcGoto, ProcPoints, TypeOK
  <2> QED
    BY <1>4, <2>1, <2>2, <2>3, <2>4, <2>5 DEF ProcStep
<1>5. CASE DeadlinePasses
  BY <1>5 DEF DeadlinePasses, TypeOK
<1>6. CASE MainStep
  <2> USE DEF MainGoto, MainPoints
  <2>1. CASE MainBind
    BY <2>1 DEF MainBind, NetPoints, TypeOK
  <2>2. CASE MainBindFails \/ MainWait \/ MainStopReceiver
    BY ZenonT(40), <2>2 DEF MainBindFails, MainWait, MainStopReceiver, TypeOK
  <2>3. CASE MainStopQueue \/ MainStopProcessor
    <3>1. Len(chan) \in Nat /\ Len(Popped) \in Nat
      <4>1. chan \in Seq(Data) /\ Popped \in Seq(Data)
        BY DEF TypeOK, Popped
      <4> QED
        BY <4>1, LenProperties
    <3>2. early' \in Nat /\ closed' = TRUE /\ main' \in MainPoints
      BY SMTT(30), <2>3, <3>1 DEF MainStopQueue, MainStopProcessor, Queue!Close, TypeOK
    <3> QED
      BY <2>3, <3>2 DEF MainStopQueue, MainStopProcessor, Queue!Close, TypeOK
  <2>4. CASE MainReadSent \/ MainReadOverflow \/ MainFinalize \/ MainPercentiles
    <3>1. /\ result.sent \in Nat \cup {Null} /\ result.overflow \in Nat
          /\ result.received \in Nat /\ result.samples \in Nat
      BY DEF TypeOK
    <3>2. sentCount \in Nat /\ overflow \in Nat /\ received \in Nat /\ samples \in Nat
      BY DEF TypeOK
    <3>3. result' \in [sent : Nat \cup {Null}, overflow : Nat, received : Nat, samples : Nat]
      BY <2>4, <3>1, <3>2
         DEF TypeOK, MainReadSent, MainReadOverflow, MainFinalize, MainPercentiles
    <3>4. /\ main' \in MainPoints
          /\ UNCHANGED <<ordered, netVars, queueVars, procVars, expired, stopAsked, early>>
      BY <2>4 DEF MainReadSent, MainReadOverflow, MainFinalize, MainPercentiles, MainRead
    <3> QED
      BY <3>3, <3>4 DEF TypeOK
  <2>5. CASE MainFlush \/ MainCloseCsv
    BY ZenonT(40), <2>5 DEF MainFlush, MainCloseCsv, TypeOK
  <2>6. CASE MainSave \/ MainJoinReceiver \/ MainJoinProcessor
    BY ZenonT(40), <2>6 DEF MainSave, MainJoinReceiver, MainJoinProcessor, TypeOK
  <2> QED
    BY <1>6, <2>1, <2>2, <2>3, <2>4, <2>5, <2>6 DEF MainStep
<1> QED
  BY <1>1, <1>2, <1>3, <1>4, <1>5, <1>6 DEF Next

(* Every reachable state of the three threads is well typed.               *)
THEOREM PipelineTypeCorrect == Spec => []TypeOK
<1>1. TypeInv => TypeOK
  BY DEF TypeInv
<1> QED
  BY TypeInvInit, TypeInvStep, <1>1, PTL DEF Spec

LEMMA TypeInvAlways == Spec => []TypeInv
BY TypeInvInit, TypeInvStep, PTL DEF Spec

-----------------------------------------------------------------------------
(* Accounting                                                              *)

InHand == IF proc = "row" THEN 1 ELSE 0

(* Main has not yet stopped the queue.                                     *)
BeforeStop == main \in {"bind", "wait", "stop_receiver", "stop_queue"}

(* What ties the three threads together: each popped packet has its row or *)
(* is in hand; a row is counted after it is written; main's copies are old *)
(* values of counters that only grow; and the packets queued at the stop   *)
(* are popped before the processing thread may end.                        *)
AccountInv ==
  /\ handed = overflow + Len(chan) + Len(Popped)
  /\ Len(Popped) = rows + InHand
  /\ rows = received + (IF proc = "count" THEN 1 ELSE 0)
  /\ result.received <= received
  /\ result.overflow <= overflow
  /\ early <= Len(chan) + Len(Popped)
  /\ proc = "exited" => closed /\ early <= Len(Popped)
  /\ closed => ~BeforeStop
  /\ main \in {"close_csv", "exited"} => proc = "exited"
  /\ main = "exited" => onDisk = rows

LEMMA LensAreNat == TypeInv => Len(chan) \in Nat /\ Len(Popped) \in Nat
<1> SUFFICES ASSUME TypeInv PROVE Len(chan) \in Nat /\ Len(Popped) \in Nat
  OBVIOUS
<1>1. chan \in Seq(Data) /\ Popped \in Seq(Data)
  BY DEF TypeInv, TypeOK, Popped
<1> QED
  BY <1>1, LenProperties

LEMMA AccountInit == Init => AccountInv
<1> SUFFICES ASSUME Init PROVE AccountInv
  OBVIOUS
<1>1. Len(chan) = 0 /\ Len(Popped) = 0 /\ closed = FALSE
  BY DEF Init, Queue!Init, Popped
<1> QED
  BY <1>1 DEF Init, AccountInv, InHand, BeforeStop, NoResult

(* Steps of the network thread that touch neither queue nor counters.      *)
LEMMA AccountNet ==
  ASSUME TypeInv, AccountInv, UNCHANGED <<handed, overflow, queueVars, procVars, mainVars>>
  PROVE  AccountInv'
BY DEF AccountInv, InHand, BeforeStop, Popped, queueVars, procVars, mainVars

LEMMA AccountStep == TypeInv /\ AccountInv /\ [Next]_vars => AccountInv'
<1> SUFFICES ASSUME TypeInv, AccountInv, [Next]_vars PROVE AccountInv'
  OBVIOUS
<1>t. /\ Len(chan) \in Nat /\ Len(Popped) \in Nat
      /\ handed \in Nat /\ overflow \in Nat /\ rows \in Nat /\ received \in Nat
      /\ early \in Nat /\ chan \in Seq(Data) /\ Popped \in Seq(Data)
  BY LensAreNat DEF TypeInv, TypeOK, Popped
<1>r. /\ result.overflow \in Nat /\ result.received \in Nat
      /\ result \in [sent : Nat \cup {Null}, overflow : Nat, received : Nat, samples : Nat]
  BY DEF TypeInv, TypeOK
<1>1. CASE UNCHANGED vars
  BY <1>1, AccountNet DEF vars, netVars
<1>2. ASSUME NEW m \in Wire, NetReceive(m) PROVE AccountInv'
  BY <1>2, AccountNet DEF NetReceive
<1>3. CASE NetStep
  <2>1. CASE NetLoop \/ NetWoken \/ NetSetFlag \/ NetSetCount
    BY <2>1, AccountNet DEF NetLoop, NetWoken, NetSetFlag, NetSetCount
  <2>2. CASE NetAccepted
    <3>1. cur \in Data
      BY <2>2 DEF NetAccepted, NetPush, NetGoto, TypeInv, PushesData
    <3>2. Len(chan') = Len(chan) + 1 /\ Popped' = Popped
      BY <1>t, <2>2, <3>1, AppendProperties DEF NetAccepted, Queue!Accept, Popped
    <3>3. handed' = handed + 1 /\ UNCHANGED <<overflow, closed, procVars, mainVars>>
      BY <2>2 DEF NetAccepted, NetPush, Queue!Accept
    <3> QED
      BY <1>t, <3>2, <3>3 DEF AccountInv, InHand, BeforeStop, procVars, mainVars
  <2>3. CASE NetRefused
    <3>1. /\ handed' = handed + 1 /\ overflow' = overflow + 1
          /\ UNCHANGED <<queueVars, procVars, mainVars>>
      BY <2>3 DEF NetRefused, NetPush
    <3>2. /\ UNCHANGED <<chan, Popped, InHand, rows, received, proc, closed, onDisk>>
          /\ UNCHANGED <<result, early, main>>
      BY <3>1 DEF queueVars, procVars, mainVars, Popped, InHand
    <3>3. handed' = overflow' + Len(chan') + Len(Popped')
      BY <1>t, <3>1, <3>2 DEF AccountInv
    <3>4. result'.overflow <= overflow'
      BY <1>t, <1>r, <3>1, <3>2 DEF AccountInv
    <3> QED
      BY <3>2, <3>3, <3>4 DEF AccountInv, BeforeStop
  <2> QED
    BY <1>3, <2>1, <2>2, <2>3 DEF NetStep
<1>4. CASE ProcStep
  <2> USE DEF InHand, BeforeStop
  <2>1. CASE ProcPop
    <3>1. chan # <<>> /\ Head(chan) \in Data
      BY <1>t, <2>1, HeadTailProperties DEF ProcPop, Queue!Take
    <3>2. Len(chan') = Len(chan) - 1
      BY <1>t, <2>1, <3>1, HeadTailProperties DEF ProcPop, Queue!Take
    <3>3. Popped' = Append(Popped, Head(chan))
      BY <2>1 DEF ProcPop, Queue!Take, Popped, TypeInv, TypeOK
    <3>4. Len(Popped') = Len(Popped) + 1
      BY <1>t, <3>1, <3>3, AppendProperties
    <3>5. /\ proc = "pop" /\ proc' = "row"
          /\ UNCHANGED <<handed, overflow, rows, received, closed, onDisk, mainVars>>
      BY <2>1 DEF ProcPop, ProcGoto, Queue!Take, netVars
    <3> QED
      BY <1>t, <3>2, <3>4, <3>5 DEF AccountInv, mainVars
  <2>2. CASE ProcEnd
    <3>1. /\ closed /\ Len(chan) = 0 /\ proc = "pop" /\ proc' = "exited"
          /\ UNCHANGED <<handed, overflow, chan, taken, rows, received, closed, onDisk, mainVars>>
      BY <2>2 DEF ProcEnd, ProcGoto, Queue!Finish, netVars
    <3>2. Popped' = Popped /\ early' <= Len(Popped') /\ main' = main
      BY <1>t, <3>1 DEF AccountInv, Popped, mainVars
    <3> QED
      BY <1>t, <3>1, <3>2 DEF AccountInv, mainVars
  <2>3. CASE ProcRow
    <3>1. /\ proc = "row" /\ proc' = "count" /\ rows' = rows + 1
          /\ UNCHANGED <<handed, overflow, queueVars, received, mainVars>>
      BY <2>3 DEF ProcRow, ProcGoto, netVars
    <3> QED
      BY <1>t, <3>1 DEF AccountInv, Popped, queueVars, mainVars
  <2>4. CASE ProcCount
    <3>1. /\ proc = "count" /\ proc' \in {"pop", "sample"} /\ received' = received + 1
          /\ UNCHANGED <<handed, overflow, queueVars, rows, onDisk, mainVars>>
      BY <2>4 DEF ProcCount, ProcGoto, netVars
    <3>2. result'.received <= received' /\ result'.overflow <= overflow'
      BY <1>t, <1>r, <3>1 DEF AccountInv, mainVars
    <3>3. rows' = received' + (IF proc' = "count" THEN 1 ELSE 0)
      BY <1>t, <3>1 DEF AccountInv
    <3> QED
      BY <3>1, <3>2, <3>3 DEF AccountInv, Popped, queueVars, mainVars
  <2>5. CASE ProcSample
    <3>1. /\ proc = "sample" /\ proc' = "pop"
          /\ UNCHANGED <<handed, overflow, queueVars, rows, received, onDisk, mainVars>>
      BY <2>5 DEF ProcSample, ProcGoto, netVars
    <3> QED
      BY <1>t, <3>1 DEF AccountInv, Popped, queueVars, mainVars
  <2> QED
    BY <1>4, <2>1, <2>2, <2>3, <2>4, <2>5 DEF ProcStep
<1>5. CASE DeadlinePasses
  BY <1>5 DEF DeadlinePasses, AccountInv, InHand, BeforeStop, Popped, netVars,
              queueVars, procVars
<1>6. CASE MainStep
  <2> USE DEF MainGoto, InHand, BeforeStop, Popped, netVars, queueVars, procVars
  <2>1. CASE MainBind \/ MainBindFails \/ MainWait \/ MainStopReceiver
    BY <2>1 DEF MainBind, MainBindFails, MainWait, MainStopReceiver, AccountInv
  <2>2. CASE MainStopQueue
    <3>1. proc # "exited"
      BY <2>2 DEF MainStopQueue, AccountInv
    <3>2. /\ main' = "stop_processor" /\ early' = Len(Popped) + Len(chan)
          /\ UNCHANGED <<handed, overflow, chan, taken, procVars, result>>
      BY <2>2 DEF MainStopQueue, Queue!Close
    <3> QED
      BY <1>t, <3>1, <3>2 DEF AccountInv
  <2>3. CASE MainStopProcessor
    BY <2>3 DEF MainStopProcessor, Queue!Close, AccountInv
  <2>4. CASE MainReadSent \/ MainReadOverflow \/ MainFinalize \/ MainPercentiles
    <3>1. /\ result'.received \in {result.received, received}
          /\ result'.overflow \in {result.overflow, overflow}
      BY <1>r, <2>4 DEF MainReadSent, MainReadOverflow, MainFinalize, MainPercentiles
    <3>2. /\ main' \in {"read_overflow", "flush", "percentiles", "save"}
          /\ UNCHANGED <<netVars, queueVars, procVars, early>>
      BY <2>4 DEF MainReadSent, MainReadOverflow, MainFinalize, MainPercentiles, MainRead
    <3> QED
      BY <1>t, <3>1, <3>2 DEF AccountInv
  <2>5. CASE MainFlush \/ MainCloseCsv
    BY <2>5 DEF MainFlush, MainCloseCsv, AccountInv
  <2>6. CASE MainSave \/ MainJoinReceiver \/ MainJoinProcessor
    BY <2>6 DEF MainSave, MainJoinReceiver, MainJoinProcessor, AccountInv
  <2> QED
    BY <1>6, <2>1, <2>2, <2>3, <2>4, <2>5, <2>6 DEF MainStep
<1> QED
  BY <1>1, <1>2, <1>3, <1>4, <1>5, <1>6 DEF Next

LEMMA AccountAlways == Spec => [](TypeInv /\ AccountInv)
<1>1. Init => TypeInv /\ AccountInv
  BY TypeInvInit, AccountInit
<1>2. TypeInv /\ AccountInv /\ [Next]_vars => (TypeInv /\ AccountInv)'
  BY TypeInvStep, AccountStep
<1> QED
  BY <1>1, <1>2, PTL DEF Spec

(* No packet given to try_push disappears between the three threads.       *)
THEOREM EveryPacketAccountedAlways == Spec => []EveryPacketAccounted
<1>1. TypeInv /\ AccountInv => EveryPacketAccounted
  BY LensAreNat DEF AccountInv, EveryPacketAccounted, InHand, TypeInv, TypeOK
<1> QED
  BY <1>1, AccountAlways, PTL

(* summary.json counts no packet without a row and no drop that did not    *)
(* happen, although finalize runs while the other threads may still run.   *)
THEOREM SummaryNeverOvercountsAlways == Spec => []SummaryNeverOvercounts
<1>1. TypeInv /\ AccountInv => SummaryNeverOvercounts
  <2> SUFFICES ASSUME TypeInv, AccountInv PROVE SummaryNeverOvercounts
    OBVIOUS
  <2>1. /\ Len(chan) \in Nat /\ Len(Popped) \in Nat
        /\ overflow \in Nat /\ rows \in Nat /\ received \in Nat
        /\ result.received \in Nat /\ result.overflow \in Nat
    BY LensAreNat DEF TypeInv, TypeOK
  <2> QED
    BY SMTT(30), <2>1 DEF AccountInv, SummaryNeverOvercounts, InHand
<1> QED
  BY <1>1, AccountAlways, PTL

(* Every packet accepted before the first stop of the queue is on disk in  *)
(* packets.csv when the receiver process exits.                            *)
THEOREM AcceptedBeforeStopIsSavedAlways == Spec => []AcceptedBeforeStopIsSaved
<1>1. TypeInv /\ AccountInv => AcceptedBeforeStopIsSaved
  BY LensAreNat DEF AccountInv, AcceptedBeforeStopIsSaved, InHand, TypeInv, TypeOK
<1> QED
  BY <1>1, AccountAlways, PTL
-----------------------------------------------------------------------------
(* A sentinel that was handled.  The network thread stores the flag before *)
(* the count, so who sees the count sees the flag; and from stop() on the  *)
(* main thread only goes forward, past one reading of both.                *)

FlagFirst == sentCount = MsgCount \/ net = "count" => flag

BeforeTheReading == {"stop_receiver", "stop_queue", "stop_processor", "read_sent"}
AfterTheReading ==
  {"read_overflow", "flush", "finalize", "percentiles", "save", "join_receiver",
   "join_processor", "close_csv", "exited"}

(* The count is in store, or already in the result.                        *)
Reported ==
  \/ main \in BeforeTheReading /\ sentCount = MsgCount
  \/ main \in AfterTheReading /\ result.sent = MsgCount

LEMMA FlagFirstInit == Init => FlagFirst
BY PipelineAssumption DEF Init, FlagFirst

LEMMA FlagFirstStep == FlagFirst /\ [Next]_vars => FlagFirst'
<1> SUFFICES ASSUME FlagFirst, [Next]_vars PROVE FlagFirst'
  OBVIOUS
<1> USE DEF FlagFirst, vars, netVars, queueVars, procVars, mainVars
<1>1. CASE UNCHANGED vars
  BY <1>1
<1>2. ASSUME NEW m \in Wire, NetReceive(m) PROVE FlagFirst'
  BY <1>2 DEF NetReceive, NetGoto
<1>3. CASE NetStep
  BY <1>3 DEF NetStep, NetLoop, NetWoken, NetSetFlag, NetSetCount, NetAccepted, NetRefused,
              NetPush, NetGoto
<1>4. CASE ProcStep
  BY <1>4 DEF ProcStep, ProcPop, ProcEnd, ProcRow, ProcCount, ProcSample
<1>5. CASE MainStep
  BY <1>5 DEF MainStep, MainBind, MainBindFails, MainWait, MainStopReceiver, MainStopQueue,
              MainStopProcessor, MainReadSent, MainReadOverflow, MainFlush, MainFinalize,
              MainPercentiles, MainSave, MainJoinReceiver, MainJoinProcessor, MainCloseCsv,
              MainRead, MainGoto
<1>6. CASE DeadlinePasses
  BY <1>6 DEF DeadlinePasses
<1> QED
  BY <1>1, <1>2, <1>3, <1>4, <1>5, <1>6 DEF Next

LEMMA ReportedStep == TypeInv /\ FlagFirst /\ Reported /\ [Next]_vars => Reported'
<1> SUFFICES ASSUME TypeInv, FlagFirst, Reported, [Next]_vars PROVE Reported'
  OBVIOUS
<1> USE DEF FlagFirst, Reported, BeforeTheReading, AfterTheReading, vars, netVars, queueVars,
            procVars, mainVars
<1>1. CASE UNCHANGED vars
  BY <1>1
<1>2. ASSUME NEW m \in Wire, NetReceive(m) PROVE Reported'
  BY <1>2 DEF NetReceive, NetGoto
<1>3. CASE NetStep
  BY <1>3 DEF NetStep, NetLoop, NetWoken, NetSetFlag, NetSetCount, NetAccepted, NetRefused,
              NetPush, NetGoto
<1>4. CASE ProcStep
  BY <1>4 DEF ProcStep, ProcPop, ProcEnd, ProcRow, ProcCount, ProcSample
<1>5. CASE MainStep
  <2> USE DEF MainRead, MainGoto
  <2>1. CASE MainReadSent
    <3>1. main = "read_sent" /\ main' = "read_overflow" /\ flag /\ sentCount = MsgCount
      BY <2>1 DEF MainReadSent
    <3>2. result'.sent = MsgCount
      BY <2>1, <3>1 DEF MainReadSent, TypeInv, TypeOK
    <3> QED
      BY <3>1, <3>2
  <2>2. CASE MainReadOverflow \/ MainFinalize \/ MainPercentiles
    <3>1. result'.sent = result.sent
      BY <2>2 DEF MainReadOverflow, MainFinalize, MainPercentiles, TypeInv, TypeOK
    <3> QED
      BY <2>2, <3>1 DEF MainReadOverflow, MainFinalize, MainPercentiles
  <2>3. CASE MainBind \/ MainBindFails \/ MainWait \/ MainStopReceiver \/ MainStopQueue
             \/ MainStopProcessor
    BY <2>3 DEF MainBind, MainBindFails, MainWait, MainStopReceiver, MainStopQueue,
                MainStopProcessor
  <2>4. CASE MainFlush \/ MainSave \/ MainJoinReceiver \/ MainJoinProcessor \/ MainCloseCsv
    BY <2>4 DEF MainFlush, MainSave, MainJoinReceiver, MainJoinProcessor, MainCloseCsv
  <2> QED
    BY <1>5, <2>1, <2>2, <2>3, <2>4 DEF MainStep
<1>6. CASE DeadlinePasses
  BY <1>6 DEF DeadlinePasses
<1> QED
  BY <1>1, <1>2, <1>3, <1>4, <1>5, <1>6 DEF Next

(* A sentinel that the network thread has handled when main comes to stop  *)
(* the receiver is in summary.json when the process exits, in whatever     *)
(* order the threads run and the deadline passes.                          *)
THEOREM HandledSentinelIsReportedAlways == Spec => HandledSentinelIsReported
<1>1. main = "stop_receiver" /\ sentCount = MsgCount => Reported
  BY DEF Reported, BeforeTheReading
<1>2. Reported => (main = "exited" => result.sent = MsgCount)
  BY DEF Reported, BeforeTheReading
<1>3. Init => TypeInv /\ FlagFirst
  BY TypeInvInit, FlagFirstInit
<1>4. TypeInv /\ FlagFirst /\ [Next]_vars => (TypeInv /\ FlagFirst)'
  BY TypeInvStep, FlagFirstStep
<1>5. TypeInv /\ FlagFirst /\ Reported /\ [Next]_vars => Reported'
  BY ReportedStep
<1> QED
  BY <1>1, <1>2, <1>3, <1>4, <1>5, PTL DEF Spec, HandledSentinelIsReported
=============================================================================
