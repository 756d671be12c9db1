------------------------------- MODULE EndToEnd -------------------------------
(***************************************************************************)
(* A benchmark run: the sender of SenderProcess, the network, and the      *)
(* receiver: its network thread, its main thread and what they share; of   *)
(* the processing thread only how much it has left (ReceiverPipeline has   *)
(* the rest).  What does the loss in summary.json say, and does the        *)
(* sentinel come before the receiver gives up?                             *)
(***************************************************************************)
EXTENDS SenderProcess, FiniteSets

CONSTANTS
  Latency,       \* ticks a message may be under way
  Copies,        \* how often a datagram may arrive
  MaxStart,      \* bound: the tick by which both processes are started
  MaxOverflow,   \* bound: packets try_push refuses
  CountRange,    \* 2^32
  Null

ASSUME EndToEndAssumption ==
  /\ Latency \in Nat /\ Copies \in Nat \ {0}
  /\ MaxStart \in Nat /\ MaxOverflow \in Nat
  /\ CountRange \in Nat \ {0}
  /\ Null \notin Nat

(* Nothing sends 2^64 messages: at the highest rate that takes a century.  *)
ASSUME FewMessages ==
  \A p \in Plans : p.warmup * p.rate + p.duration * p.rate < IdRange

VARIABLES
  copies,        \* how often each of wires arrived
  connectedAt,   \* history: when the sender connected
  net,           \* the receiver's network thread
  cur,           \* the sentinel it is storing
  flag,          \* sentinel_received_
  sentCount,     \* msgs_sent_from_sentinel_
  accepted,      \* packets try_push took
  overflow,      \* overflow_count_
  recv,          \* the receiver's main thread
  readyAt,       \* when it began to wait
  result,        \* what it writes to summary.json
  halfRead       \* history: it read the flag of a sentinel before the count

netVars == <<net, cur, flag, sentCount, accepted, overflow>>
mainVars == <<recv, readyAt, result, halfRead>>
receiverVars == <<netVars, mainVars>>
vars == <<senderVars, copies, connectedAt, receiverVars>>

EndToEndInit ==
  /\ Init
  /\ copies = <<>> /\ connectedAt = Null
  /\ net = "receive" /\ cur = Null /\ flag = FALSE /\ sentCount = 0
  /\ accepted = 0 /\ overflow = 0
  /\ recv = "off" /\ readyAt = Null /\ halfRead = FALSE
  /\ result = [sent |-> Null, received |-> 0, overflow |-> 0, waiting |-> 0]

-----------------------------------------------------------------------------
(* The sender on its network                                               *)

(* A stream is connected only to a receiver that listens.                  *)
Sends ==
  /\ SenderStep
  /\ plan.stream /\ pc = "start" /\ pc' = "loop" => recv = "ready"
  /\ connectedAt' = IF pc = "start" THEN now ELSE connectedAt
  /\ copies' = [w \in DOMAIN wires' |-> IF w \in DOMAIN copies THEN copies[w] ELSE 0]
  /\ UNCHANGED <<receiverVars>>

(* A stream delivers in order, once and in time.  A datagram may stay out, *)
(* come twice and overtake others.                                         *)
MayArrive(w) ==
  /\ now - wires[w].at <= Latency
  /\ IF plan.stream
     THEN copies[w] = 0 /\ \A v \in 1 .. w - 1 : copies[v] = 1
     ELSE copies[w] < Copies

Due(w) == plan.stream /\ copies[w] = 0 /\ now - wires[w].at >= Latency

-----------------------------------------------------------------------------
(* The network thread                                                      *)

StopAsked == recv \notin {"off", "ready"}

(* The loop's test, after a message: a thread that was at it when stop()   *)
(* came takes one more at most.                                            *)
NextReceive == IF StopAsked THEN "ended" ELSE "receive"

Receives(w) ==
  /\ recv \notin {"off", "done"} /\ net = "receive"
  /\ MayArrive(w)
  /\ copies' = [copies EXCEPT ![w] = @ + 1]
  /\ UNCHANGED <<senderVars, connectedAt, sentCount, mainVars>>

ArriveData(w) ==
  /\ Receives(w) /\ ~wires[w].sentinel
  /\ \/ accepted' = accepted + 1 /\ UNCHANGED overflow
     \/ overflow < MaxOverflow /\ overflow' = overflow + 1 /\ UNCHANGED accepted
  /\ net' = NextReceive
  /\ UNCHANGED <<cur, flag>>

(* Two plain stores, the flag before the count.                            *)
ArriveSentinel(w) ==
  /\ Receives(w) /\ wires[w].sentinel
  /\ flag' = TRUE
  /\ net' = "count" /\ cur' = w
  /\ UNCHANGED <<accepted, overflow>>

SetCount ==
  /\ net = "count" /\ net' = NextReceive
  /\ sentCount' = (wires[cur].id + 1) % IdRange
  /\ cur' = Null
  /\ UNCHANGED <<senderVars, copies, connectedAt, flag, accepted, overflow, mainVars>>

-----------------------------------------------------------------------------
(* The main thread of the receiver                                         *)

RecvGoto(from, to) ==
  /\ recv = from /\ recv' = to
  /\ UNCHANGED <<senderVars, copies, connectedAt, netVars>>

GetReady ==
  /\ RecvGoto("off", "ready")
  /\ readyAt' = now
  /\ UNCHANGED <<result, halfRead>>

(* Mutant: the receiver does not wait for the warmup.                      *)
PatienceMeasured == (plan.duration + plan.extra) % CountRange

(* Seconds, a sum of three uint32_t.                                       *)
Patience == (plan.duration + plan.warmup + plan.extra) % CountRange

Deadline == readyAt + Second * Patience

StopWaiting ==
  /\ RecvGoto("ready", "stopping")
  /\ flag \/ now >= Deadline
  /\ UNCHANGED <<readyAt, result, halfRead>>

ReadSent ==
  /\ RecvGoto("stopping", "overflow")
  /\ result' = [result EXCEPT !.sent = IF flag THEN sentCount ELSE Null]
  /\ halfRead' = (net = "count" /\ sentCount = 0)
  /\ UNCHANGED readyAt

ReadOverflow ==
  /\ RecvGoto("overflow", "finalize")
  /\ result' = [result EXCEPT !.overflow = overflow]
  /\ UNCHANGED <<readyAt, halfRead>>

(* Mutant: the packets that were refused count as received.                *)
FinalizeRefused ==
  /\ RecvGoto("finalize", "done")
  /\ result' = [result EXCEPT !.received = accepted + overflow]
  /\ UNCHANGED <<readyAt, halfRead>>

(* finalize(), with what the processing thread has popped by then.  What   *)
(* comes later is in no count.                                             *)
Finalize ==
  /\ RecvGoto("finalize", "done")
  /\ \E waiting \in 0 .. accepted :
       result' = [result EXCEPT !.received = accepted - waiting, !.waiting = waiting]
  /\ UNCHANGED <<readyAt, halfRead>>

-----------------------------------------------------------------------------
Over == recv = "done" /\ pc \in {"exited", "died"}

(* The receiver looks at the flag and the clock often and stops at once;   *)
(* its threads are not held up between two steps.                          *)
Time ==
  /\ ~Over /\ recv \in {"off", "ready", "done"} /\ net # "count"
  /\ now < MaxStart \/ (recv # "off" /\ pc # "start")
  /\ recv = "ready" => ~flag /\ now < Deadline
  /\ recv = "ready" => \A w \in DOMAIN wires : ~Due(w)
  /\ Tick
  /\ UNCHANGED <<copies, connectedAt, receiverVars>>

Next ==
  \/ Sends
  \/ \E w \in DOMAIN wires : ArriveData(w) \/ ArriveSentinel(w)
  \/ SetCount
  \/ GetReady
  \/ StopWaiting
  \/ ReadSent
  \/ ReadOverflow
  \/ Finalize
  \/ Time

EndToEndSpec == EndToEndInit /\ [][Next]_vars

-----------------------------------------------------------------------------
(* Properties                                                              *)

Arrivals(id) == {w \in DOMAIN wires : ~wires[w].sentinel /\ wires[w].id = id /\ copies[w] > 0}
Repeats ==
  Cardinality({p \in (DOMAIN wires) \X (2 .. Copies) : ~wires[p[1]].sentinel /\ p[2] <= copies[p[1]]})

(* What packet_loss_pct counts as lost, when finalize() reads the counter: *)
(* messages of which nothing arrived, for the network's sake or because    *)
(* send had failed, packets refused by the queue and packets still in it;  *)
(* and each copy that came too often makes up for one of them.  On a       *)
(* stream no loss therefore means that every message was sent, arrived and *)
(* was processed.  Of the refused ones the summary may miss one, refused   *)
(* after main read the counter.  A flag that main sees before its count    *)
(* leaves no message to lose.                                              *)
LossIsWhatIsMissing ==
  recv = "done" /\ result.sent # Null =>
    IF halfRead
    THEN result.sent = 0
    ELSE /\ result.sent - result.received =
              Cardinality({id \in 0 .. result.sent - 1 : Arrivals(id) = {}})
                + overflow + result.waiting - Repeats
         /\ overflow - result.overflow \in {0, 1}

(* A receiver that is ready no more than its extra time, less the latency, *)
(* before the sender connects sees the sentinel before it gives up, if no  *)
(* send takes longer than the interval: the schedule of both phases fits   *)
(* the time it waits.  It then reports the number of messages, unless it   *)
(* read the count before it was stored.  The sum of the three times must   *)
(* fit 32 bits.                                                            *)
WaitFits == plan.duration + plan.warmup + plan.extra < CountRange

OnTime ==
  /\ \A k \in DOMAIN attempts : attempts[k].ended - attempts[k].began <= Interval
  /\ pc = "sending" => now - began <= Interval

SentinelInTime ==
  recv = "done" /\ plan.stream /\ connectedAt # Null /\ OnTime /\ WaitFits
  /\ (connectedAt - readyAt) + Latency < Second * plan.extra =>
       \/ result.sent = Total("warmup") + Total("measured")
       \/ halfRead /\ result.sent = 0
       \/ pc = "died"
       \/ /\ pc \in {"disconnect", "exited"}
          /\ \A w \in DOMAIN wires : ~wires[w].sentinel
===============================================================================
