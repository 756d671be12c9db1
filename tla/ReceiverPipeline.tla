--------------------------- MODULE ReceiverPipeline ---------------------------
(***************************************************************************)
(* The receiver process (app/main.cpp 284-346): the network thread that    *)
(* runs on_wire_bytes, the processing thread that runs process_loop, and   *)
(* the main thread that waits for the sentinel or the deadline, stops the  *)
(* others, writes summary.json and unwinds its stack.                      *)
(*                                                                         *)
(* The queue between them is LossyFifo, which BoundedQueue implements.     *)
(* One network thread that main joins stands for the recv thread of UDP    *)
(* and ZMQ and the callback thread of MQTT.                                *)
(***************************************************************************)
EXTENDS Naturals, Sequences

CONSTANTS MsgCount,     \* data messages the sender sends, warmup included
          WarmupCount,  \* the first of them carry the warmup flag
          MaxArrivals,  \* bound: wire messages that reach the network thread
          Capacity,     \* of the queue
          FlushEvery,   \* kFlushEvery of CsvPacketWriter
          WakesOnStop,  \* does closing its socket wake a blocked receive?
          Sentinel, Null

Data == 0 .. MsgCount - 1
Wire == Data \cup {Sentinel}

ASSUME PipelineAssumption ==
  /\ MsgCount \in Nat \ {0}
  /\ WarmupCount \in 0 .. MsgCount
  /\ MaxArrivals \in Nat
  /\ Capacity \in Nat \ {0}
  /\ FlushEvery \in Nat \ {0}
  /\ WakesOnStop \in BOOLEAN
  /\ Sentinel \notin Data
  /\ Null \notin Nat

VARIABLES
  ordered,      \* the transport delivers in order, once and without loss
  arrivals,     \* history: wire messages that arrived
  handed,       \* history: data messages handed to try_push
  net,          \* the network thread
  cur,          \* the wire message the network thread holds
  flag,         \* sentinel_received_
  sentCount,    \* msgs_sent_from_sentinel_
  overflow,     \* overflow_count_
  chan, closed, taken, ended,  \* the queue (see LossyFifo)
  proc,         \* the processing thread
  rows,         \* rows written to packets.csv
  onDisk,       \* of these, the rows no longer in the stream's buffer
  unflushed,    \* rows_since_flush_
  received,     \* msgs_received_
  samples,      \* reservoir_count_
  main,         \* the main thread
  expired,      \* the deadline has passed
  stopAsked,    \* receiver->stop() was called
  result,       \* the RunResult main fills
  early         \* history: packets accepted before the queue was first stopped

queueVars == <<chan, closed, taken, ended>>
netVars == <<arrivals, handed, net, cur, flag, sentCount, overflow>>
procVars == <<proc, rows, onDisk, unflushed, received, samples>>
mainVars == <<main, expired, stopAsked, result, early>>
vars == <<ordered, netVars, queueVars, procVars, mainVars>>

Processor == "processor"
Queue == INSTANCE LossyFifo WITH Items <- Data, Consumers <- {Processor}

NoResult == [sent |-> Null, overflow |-> 0, received |-> 0, samples |-> 0]

(* The packets popped so far, and the one being worked on.                 *)
Popped == taken[Processor]
Current == Popped[Len(Popped)]
IsWarmup(m) == m < WarmupCount

Init ==
  /\ ordered \in BOOLEAN
  /\ arrivals = 0 /\ handed = 0 /\ net = "none" /\ cur = Null
  /\ flag = FALSE /\ sentCount = 0 /\ overflow = 0
  /\ Queue!Init
  /\ proc = "pop" /\ rows = 0 /\ onDisk = 0 /\ unflushed = 0
  /\ received = 0 /\ samples = 0
  /\ main = "bind" /\ expired = FALSE /\ stopAsked = FALSE
  /\ result = NoResult /\ early = 0

-----------------------------------------------------------------------------
(* The network thread                                                      *)

NetGoto(from, to) == net = from /\ net' = to

(* The loop's test, before each blocking receive.                          *)
NetLoop ==
  /\ NetGoto("loop", IF stopAsked THEN "exited" ELSE "receive")
  /\ UNCHANGED <<ordered, arrivals, handed, cur, flag, sentCount, overflow, queueVars, procVars, mainVars>>

(* What may come next: on TCP, MQTT (QoS 1 and 2) and ZMQ the messages in  *)
(* order with the sentinel last, on UDP anything sent, lost, repeated or   *)
(* early.                                                                  *)
MayArrive(m) ==
  ordered => m = IF arrivals < MsgCount THEN arrivals ELSE Sentinel

NetReceive(m) ==
  /\ arrivals < MaxArrivals
  /\ ordered => arrivals <= MsgCount
  /\ MayArrive(m)
  /\ NetGoto("receive", IF m = Sentinel THEN "flag" ELSE "push")
  /\ arrivals' = arrivals + 1
  /\ cur' = m
  /\ UNCHANGED <<ordered, handed, flag, sentCount, overflow, queueVars, procVars, mainVars>>

(* Where close() wakes the blocked call it returns an error: the loop ends *)
NetWoken ==
  /\ WakesOnStop /\ stopAsked
  /\ NetGoto("receive", "exited")
  /\ UNCHANGED <<ordered, arrivals, handed, cur, flag, sentCount, overflow, queueVars, procVars, mainVars>>

(* The sentinel: two plain stores, the flag before the count.              *)
NetSetFlag ==
  /\ NetGoto("flag", "count")
  /\ flag' = TRUE
  /\ UNCHANGED <<ordered, arrivals, handed, cur, sentCount, overflow, queueVars, procVars, mainVars>>

NetSetCount ==
  /\ NetGoto("count", "loop")
  /\ sentCount' = MsgCount
  /\ cur' = Null
  /\ UNCHANGED <<ordered, arrivals, handed, flag, overflow, queueVars, procVars, mainVars>>

(* The packet is handed to try_push and the thread is done with it.        *)
NetPush ==
  /\ NetGoto("push", "loop")
  /\ handed' = handed + 1
  /\ cur' = Null

(* try_push succeeds, even on a queue that is already stopped.             *)
NetAccepted ==
  /\ NetPush
  /\ Queue!Accept(cur)
  /\ UNCHANGED <<ordered, arrivals, flag, sentCount, overflow, procVars, mainVars>>

(* Another thread is inside the queue: the lock may be taken.              *)
QueueBusy == proc = "pop" \/ main \in {"stop_queue", "stop_processor"}

(* Mutant: the drop is not counted.                                        *)
NetRefusedSilently ==
  /\ NetPush
  /\ Len(chan) >= Capacity \/ QueueBusy
  /\ UNCHANGED <<ordered, arrivals, flag, sentCount, overflow, queueVars, procVars, mainVars>>

NetRefused ==
  /\ NetPush
  /\ Len(chan) >= Capacity \/ QueueBusy
  /\ overflow' = overflow + 1
  /\ UNCHANGED <<ordered, arrivals, flag, sentCount, queueVars, procVars, mainVars>>

NetStep ==
  \/ NetLoop
  \/ NetWoken
  \/ NetSetFlag
  \/ NetSetCount
  \/ NetAccepted
  \/ NetRefused

-----------------------------------------------------------------------------
(* The processing thread                                                   *)

ProcGoto(from, to) == proc = from /\ proc' = to

ProcPop ==
  /\ ProcGoto("pop", "row")
  /\ Queue!Take(Processor)
  /\ UNCHANGED <<ordered, netVars, rows, onDisk, unflushed, received, samples, mainVars>>

ProcEnd ==
  /\ ProcGoto("pop", "exited")
  /\ Queue!Finish(Processor)
  /\ UNCHANGED <<ordered, netVars, rows, onDisk, unflushed, received, samples, mainVars>>

(* Mutant: warmup packets are kept out of packets.csv, but still counted.  *)
ProcRowUnlessWarmup ==
  /\ ProcGoto("row", "count")
  /\ IF IsWarmup(Current)
     THEN UNCHANGED <<rows, onDisk, unflushed>>
     ELSE /\ rows' = rows + 1
          /\ unflushed' = (unflushed + 1) % FlushEvery
          /\ onDisk' = IF unflushed' = 0 THEN rows' ELSE onDisk
  /\ UNCHANGED <<ordered, netVars, queueVars, received, samples, mainVars>>

(* compute and write_row: a row for every packet, warmup included.         *)
ProcRow ==
  /\ ProcGoto("row", "count")
  /\ rows' = rows + 1
  /\ unflushed' = (unflushed + 1) % FlushEvery
  /\ onDisk' = IF unflushed' = 0 THEN rows' ELSE onDisk
  /\ UNCHANGED <<ordered, netVars, queueVars, received, samples, mainVars>>

ProcCount ==
  /\ ProcGoto("count", IF IsWarmup(Current) THEN "pop" ELSE "sample")
  /\ received' = received + 1
  /\ UNCHANGED <<ordered, netVars, queueVars, rows, onDisk, unflushed, samples, mainVars>>

(* The Welford accumulators and the reservoir.                             *)
ProcSample ==
  /\ ProcGoto("sample", "pop")
  /\ samples' = samples + 1
  /\ UNCHANGED <<ordered, netVars, queueVars, rows, onDisk, unflushed, received, mainVars>>

ProcStep == ProcPop \/ ProcEnd \/ ProcRow \/ ProcCount \/ ProcSample

-----------------------------------------------------------------------------
(* The main thread                                                         *)

MainGoto(from, to) == main = from /\ main' = to

MainBind ==
  /\ MainGoto("bind", "wait")
  /\ net' = "loop"
  /\ UNCHANGED <<ordered, arrivals, handed, cur, flag, sentCount, overflow, queueVars, procVars,
                 expired, stopAsked, result, early>>

(* die() exits the process; nothing is unwound.                            *)
MainBindFails ==
  /\ MainGoto("bind", "died")
  /\ UNCHANGED <<ordered, netVars, queueVars, procVars, expired, stopAsked, result, early>>

DeadlinePasses ==
  /\ main = "wait" /\ ~expired
  /\ expired' = TRUE
  /\ UNCHANGED <<ordered, netVars, queueVars, procVars, main, stopAsked, result, early>>

(* Mutant: wait for the sentinel alone.                                    *)
MainWaitForSentinel ==
  /\ flag
  /\ MainGoto("wait", "stop_receiver")
  /\ UNCHANGED <<ordered, netVars, queueVars, procVars, expired, stopAsked, result, early>>

MainWait ==
  /\ flag \/ expired
  /\ MainGoto("wait", "stop_receiver")
  /\ UNCHANGED <<ordered, netVars, queueVars, procVars, expired, stopAsked, result, early>>

MainStopReceiver ==
  /\ MainGoto("stop_receiver", "stop_queue")
  /\ stopAsked' = TRUE
  /\ UNCHANGED <<ordered, netVars, queueVars, procVars, expired, result, early>>

MainStopQueue ==
  /\ MainGoto("stop_queue", "stop_processor")
  /\ Queue!Close
  /\ early' = Len(Popped) + Len(chan)
  /\ UNCHANGED <<ordered, netVars, procVars, expired, stopAsked, result>>

(* request_stop, which process_loop never looks at, and queue.stop again.  *)
(* The thread is not joined here.                                          *)
MainStopProcessor ==
  /\ MainGoto("stop_processor", "read_sent")
  /\ Queue!Close
  /\ UNCHANGED <<ordered, netVars, procVars, expired, stopAsked, result, early>>

(* One field of the RunResult is read from what the other threads share.   *)
MainRead(from, to) ==
  /\ MainGoto(from, to)
  /\ UNCHANGED <<ordered, netVars, queueVars, procVars, expired, stopAsked, early>>

(* Mutant: a run that timed out reports no count.                          *)
MainReadSentInTime ==
  /\ MainRead("read_sent", "read_overflow")
  /\ result' = [result EXCEPT !.sent = IF flag /\ ~expired THEN sentCount ELSE Null]

MainReadSent ==
  /\ MainRead("read_sent", "read_overflow")
  /\ result' = [result EXCEPT !.sent = IF flag THEN sentCount ELSE Null]

MainReadOverflow ==
  /\ MainRead("read_overflow", "flush")
  /\ result' = [result EXCEPT !.overflow = overflow]

MainFlush ==
  /\ MainGoto("flush", "finalize")
  /\ onDisk' = rows
  /\ UNCHANGED <<ordered, netVars, queueVars, proc, rows, unflushed, received, samples,
                 expired, stopAsked, result, early>>

(* finalize(): first the counters, then a copy of the reservoir.           *)
MainFinalize ==
  /\ MainRead("finalize", "percentiles")
  /\ result' = [result EXCEPT !.received = received]

MainPercentiles ==
  /\ MainRead("percentiles", "save")
  /\ result' = [result EXCEPT !.samples = samples]

MainSave ==
  /\ MainGoto("save", "join_receiver")
  /\ UNCHANGED <<ordered, netVars, queueVars, procVars, expired, stopAsked, result, early>>

(* The receiver goes first and its jthread joins ...                       *)
MainJoinReceiver ==
  /\ net = "exited"
  /\ MainGoto("join_receiver", "join_processor")
  /\ UNCHANGED <<ordered, netVars, queueVars, procVars, expired, stopAsked, result, early>>

(* ... then the processor: its members go in reverse order of declaration, *)
(* the counters and the reservoir before the jthread that joins ...        *)
MainJoinProcessor ==
  /\ proc = "exited"
  /\ MainGoto("join_processor", "close_csv")
  /\ UNCHANGED <<ordered, netVars, queueVars, procVars, expired, stopAsked, result, early>>

(* ... and then the CSV writer, which flushes.                             *)
MainCloseCsv ==
  /\ MainGoto("close_csv", "exited")
  /\ onDisk' = rows
  /\ UNCHANGED <<ordered, netVars, queueVars, proc, rows, unflushed, received, samples,
                 expired, stopAsked, result, early>>

MainStep ==
  \/ MainBind
  \/ MainBindFails
  \/ MainWait
  \/ MainStopReceiver
  \/ MainStopQueue
  \/ MainStopProcessor
  \/ MainReadSent
  \/ MainReadOverflow
  \/ MainFlush
  \/ MainFinalize
  \/ MainPercentiles
  \/ MainSave
  \/ MainJoinReceiver
  \/ MainJoinProcessor
  \/ MainCloseCsv

-----------------------------------------------------------------------------
Terminated == main \in {"exited", "died"}

Next ==
  /\ ~Terminated
  /\ \/ \E m \in Wire : NetReceive(m)
     \/ NetStep
     \/ ProcStep
     \/ MainStep
     \/ DeadlinePasses

Spec == Init /\ [][Next]_vars

(* Each thread runs on when it can and the clock advances; that a message  *)
(* ever arrives is not assumed.                                            *)
Fairness ==
  /\ WF_vars(~Terminated /\ NetStep)
  /\ WF_vars(~Terminated /\ ProcStep)
  /\ WF_vars(~Terminated /\ MainStep)
  /\ WF_vars(~Terminated /\ DeadlinePasses)

FairSpec == Spec /\ Fairness

-----------------------------------------------------------------------------
(* Properties                                                              *)

NetPoints == {"none", "loop", "receive", "flag", "count", "push", "exited"}
ProcPoints == {"pop", "row", "count", "sample", "exited"}
MainPoints ==
  {"bind", "wait", "stop_receiver", "stop_queue", "stop_processor", "read_sent",
   "read_overflow", "flush", "finalize", "percentiles", "save", "join_receiver",
   "join_processor", "close_csv", "exited", "died"}

TypeOK ==
  /\ ordered \in BOOLEAN
  /\ arrivals \in Nat /\ handed \in Nat
  /\ net \in NetPoints /\ cur \in Wire \cup {Null}
  /\ flag \in BOOLEAN /\ sentCount \in {0, MsgCount} /\ overflow \in Nat
  /\ chan \in Seq(Data) /\ Len(chan) <= Capacity
  /\ closed \in BOOLEAN
  /\ taken \in [{Processor} -> Seq(Data)]
  /\ ended \in SUBSET {Processor}
  /\ proc \in ProcPoints
  /\ rows \in Nat /\ onDisk \in Nat /\ unflushed \in 0 .. FlushEvery - 1
  /\ received \in Nat /\ samples \in Nat
  /\ main \in MainPoints /\ expired \in BOOLEAN /\ stopAsked \in BOOLEAN
  /\ result \in [sent : Nat \cup {Null}, overflow : Nat, received : Nat, samples : Nat]
  /\ early \in Nat

(* Every data message handed to try_push is in exactly one place: dropped  *)
(* and counted, queued, in the processing thread's hands, or in            *)
(* packets.csv.  No interleaving of the three threads loses one silently.  *)
EveryPacketAccounted ==
  handed = overflow + Len(chan) + rows + (IF proc = "row" THEN 1 ELSE 0)

(* What summary.json claims is never more than what happened: the packets  *)
(* it counts have rows, and with its drops they arrived.                   *)
SummaryNeverOvercounts ==
  /\ result.received <= rows
  /\ result.received + result.overflow <= handed

(* A packet accepted before the first stop of the queue has its row in the *)
(* file when the receiver exits, although stop comes before the drain.     *)
AcceptedBeforeStopIsSaved == main = "exited" => onDisk >= early

(* A sentinel that is fully handled before main stops the receiver is      *)
(* reported, even when it came after the deadline.                         *)
HandledSentinelIsReported ==
  [](main = "stop_receiver" /\ sentCount = MsgCount
       => [](main = "exited" => result.sent = MsgCount))

(* The receiver comes to an end, sentinel or not.                          *)
ReceiverTerminates == <>Terminated

-----------------------------------------------------------------------------
(* What the documentation and comments say and the code does not do        *)

(* PacketProcessor.hpp 45: "Sequential state - no mutex needed (single     *)
(* processing thread)".  While ~PacketProcessor waits for its jthread, the *)
(* members declared after it are already destroyed.                        *)
NoUseAfterDestruction ==
  main = "join_processor" => proc \notin {"row", "count", "sample"}
=============================================================================
