----------------------------- MODULE SenderProcess -----------------------------
(***************************************************************************)
(* The sender process (app/main.cpp 188-281 and Sender::send): a warmup    *)
(* and a measurement phase, each sending its messages at a fixed rate, and *)
(* then the sentinel that tells the receiver how many there were.          *)
(*                                                                         *)
(* Time is a variable.  It passes while do_send works and while the thread *)
(* sleeps; what the thread does in between takes no time.  A payload is    *)
(* the number of its record.                                               *)
(***************************************************************************)
EXTENDS Integers, Sequences

CONSTANTS
  Plans,         \* configurations, with the kind of network
  Second,        \* ticks of a second
  RecordCount,   \* records of the payload file
  SendTimes,     \* bound: the ticks a send may take
  MaxFailures,   \* bound: sends that fail
  IdRange        \* 2^64

ASSUME SenderAssumption ==
  /\ Plans \subseteq [rate : Nat, warmup : Nat, duration : Nat \ {0}, extra : Nat, stream : BOOLEAN]
  /\ Second \in Nat \ {0} /\ RecordCount \in Nat \ {0}
  /\ SendTimes \subseteq Nat /\ MaxFailures \in Nat
  /\ IdRange \in Nat \ {0}

Records == 0 .. RecordCount - 1
Phases == {"warmup", "measured"}

VARIABLES
  plan,         \* the configuration
  bad,          \* the records serialize or compress fails on
  pc,           \* the main thread
  phase,
  i,            \* message of the phase
  seqId,        \* seq_id
  tStart,       \* t_start
  now,          \* the steady clock
  next,         \* idx_ of the payload source
  payload,      \* the record being sent
  began,        \* ts_created_ns
  attempts,     \* history: every call of send, with its outcome
  log,          \* the rows write_row was called for (sender_log.csv)
  wires         \* history: what was put on the network, and when

loopVars == <<phase, i, seqId, tStart>>
sendVars == <<next, payload, began>>
senderVars == <<plan, bad, pc, loopVars, now, sendVars, attempts, log, wires>>

-----------------------------------------------------------------------------
Burst == plan.rate = 0
Total(ph) == IF ph = "warmup" THEN plan.warmup * plan.rate ELSE plan.duration * plan.rate
Interval == IF Burst THEN 0 ELSE Second \div plan.rate

Init ==
  /\ plan \in Plans
  /\ bad \in SUBSET Records
  /\ pc = "start" /\ phase = "warmup"
  /\ i = 0 /\ seqId = 0 /\ tStart = 0 /\ now = 0
  /\ next = 0 /\ payload = 0 /\ began = 0
  /\ attempts = <<>> /\ log = <<>> /\ wires = <<>>

(* The payload source, the compressor and the connection are there.        *)
Connect ==
  /\ pc = "start" /\ pc' = "loop"
  /\ tStart' = now
  /\ UNCHANGED <<plan, bad, phase, i, seqId, now, sendVars, attempts, log, wires>>

(* One of them is not, or the process is killed.                           *)
Die ==
  /\ pc \notin {"exited", "died"} /\ pc' = "died"
  /\ UNCHANGED <<plan, bad, loopVars, now, sendVars, attempts, log, wires>>

-----------------------------------------------------------------------------
(* Sender::send                                                            *)

(* The source moves on before anything can fail.                           *)
Take ==
  /\ pc = "loop" /\ i < Total(phase) /\ pc' = "sending"
  /\ payload' = next
  /\ next' = (next + 1) % RecordCount
  /\ began' = now
  /\ UNCHANGED <<plan, bad, loopVars, now, attempts, log, wires>>

Message(ph) == [id |-> seqId, sentinel |-> FALSE, warmup |-> ph = "warmup", at |-> now]

Returns(outcome) ==
  /\ pc = "sending" /\ pc' = "pace"
  /\ attempts' = Append(attempts, [id |-> seqId, record |-> payload, phase |-> phase,
                                   began |-> began, ended |-> now, outcome |-> outcome])
  /\ UNCHANGED <<plan, bad, loopVars, now, sendVars>>

EncodingFails ==
  /\ payload \in bad /\ began = now
  /\ Returns("unencodable")
  /\ UNCHANGED <<log, wires>>

(* do_send fails, which does not mean that nothing left: a fragment of a   *)
(* UDP message or an MQTT message without its acknowledgement may be out.  *)
SendFails ==
  /\ payload \notin bad /\ now - began \in SendTimes
  /\ Len(SelectSeq(attempts, LAMBDA a : a.outcome = "failed")) < MaxFailures
  /\ Returns("failed")
  /\ wires' \in {wires, Append(wires, Message(phase))}
  /\ UNCHANGED log

(* Mutant: the row says what phase of the message was last counted.        *)
SendSucceedsLogged ==
  /\ payload \notin bad /\ now - began \in SendTimes
  /\ Returns("sent")
  /\ wires' = Append(wires, Message(phase))
  /\ log' = Append(log, [id |-> Len(log), warmup |-> phase = "warmup"])

(* CsvSenderWriter::write_row, from what is in the header.                 *)
WriteRow == log' = Append(log, [id |-> seqId, warmup |-> phase = "warmup"])

SendSucceeds ==
  /\ payload \notin bad /\ now - began \in SendTimes
  /\ Returns("sent")
  /\ wires' = Append(wires, Message(phase))
  /\ WriteRow

-----------------------------------------------------------------------------
(* The loops                                                               *)

(* Mutant: sleep an interval from the end of the send.                     *)
WakeTimeDrifting == attempts[Len(attempts)].ended + Interval

(* t_target                                                                *)
WakeTime == tStart + Interval * i

(* Without a rate there is no sleep.  A failed send moves on like others.  *)
Pace ==
  /\ pc = "pace" /\ pc' = "loop"
  /\ Burst \/ now >= WakeTime
  /\ i' = i + 1
  /\ seqId' = seqId + 1
  /\ UNCHANGED <<plan, bad, phase, tStart, now, sendVars, attempts, log, wires>>

(* Mutant: the ids begin again with the measurement.                       *)
EndWarmupResetting ==
  /\ pc = "loop" /\ phase = "warmup" /\ i >= Total(phase)
  /\ phase' = "measured" /\ i' = 0 /\ seqId' = 0 /\ tStart' = now
  /\ UNCHANGED <<plan, bad, pc, now, sendVars, attempts, log, wires>>

EndWarmup ==
  /\ pc = "loop" /\ phase = "warmup" /\ i >= Total(phase)
  /\ phase' = "measured" /\ i' = 0 /\ tStart' = now
  /\ UNCHANGED <<plan, bad, pc, seqId, now, sendVars, attempts, log, wires>>

EndMeasurement ==
  /\ pc = "loop" /\ phase = "measured" /\ i >= Total(phase) /\ pc' = "sentinel"
  /\ UNCHANGED <<plan, bad, loopVars, now, sendVars, attempts, log, wires>>

(* Mutant: the sentinel carries the count.                                 *)
SentinelIdCount == seqId

(* seq_id - 1 in 64 bits, which after no message at all is the largest id. *)
SentinelId == (seqId - 1) % IdRange

Sentinel == [id |-> SentinelId, sentinel |-> TRUE, warmup |-> FALSE, at |-> now]

SendSentinel ==
  /\ pc = "sentinel" /\ pc' = "disconnect"
  /\ wires' \in {wires, Append(wires, Sentinel)}
  /\ UNCHANGED <<plan, bad, loopVars, now, sendVars, attempts, log>>

Disconnect ==
  /\ pc = "disconnect" /\ pc' = "exited"
  /\ UNCHANGED <<plan, bad, loopVars, now, sendVars, attempts, log, wires>>

(* The thread does not run: it has not been started, it is in do_send or   *)
(* asleep, or it is gone.                                                  *)
Waiting ==
  \/ pc \in {"start", "exited", "died"}
  \/ pc = "sending" /\ payload \notin bad /\ (\E t \in SendTimes : now - began < t)
  \/ pc = "pace" /\ ~Burst /\ now < WakeTime

Tick ==
  /\ Waiting
  /\ now' = now + 1
  /\ UNCHANGED <<plan, bad, pc, loopVars, sendVars, attempts, log, wires>>

SenderStep ==
  \/ Connect
  \/ Die
  \/ Take
  \/ EncodingFails
  \/ SendFails
  \/ SendSucceeds
  \/ Pace
  \/ EndWarmup
  \/ EndMeasurement
  \/ SendSentinel
  \/ Disconnect

SenderNext == SenderStep \/ Tick

Spec == Init /\ [][SenderNext]_senderVars

-----------------------------------------------------------------------------
(* Properties                                                              *)

Outcomes == {"unencodable", "failed", "sent"}
Attempt == [id : Nat, record : Records, phase : Phases, began : Nat, ended : Nat,
            outcome : Outcomes]
Wire == [id : Nat, sentinel : BOOLEAN, warmup : BOOLEAN, at : Nat]

TypeOK ==
  /\ plan \in Plans /\ bad \subseteq Records
  /\ pc \in {"start", "loop", "sending", "pace", "sentinel", "disconnect", "exited", "died"}
  /\ phase \in Phases
  /\ i \in Nat /\ seqId \in Nat /\ tStart \in Nat /\ now \in Nat
  /\ next \in Records /\ payload \in Records /\ began \in Nat
  /\ attempts \in Seq(Attempt)
  /\ log \in Seq([id : Nat, warmup : BOOLEAN])
  /\ wires \in Seq(Wire)

(* Ids number the calls of send from 0 through both phases, and whatever   *)
(* fails, message k carries record k modulo their number: the warmup flag  *)
(* is on the first ones and a bad record fails at the same ids every time. *)
RecordsFollowIds ==
  \A k \in DOMAIN attempts :
    LET a == attempts[k]
    IN /\ a.id = k - 1 /\ a.record = a.id % RecordCount
       /\ a.phase = "warmup" <=> a.id < Total("warmup")
       /\ a.outcome = "unencodable" <=> a.record \in bad

(* sender_log.csv has the sends that succeeded, all of them and in order,  *)
(* and each of them did leave; what left without a row had failed.         *)
Successes == {k \in DOMAIN attempts : attempts[k].outcome = "sent"}
RowOf(a) == [id |-> a.id, warmup |-> a.phase = "warmup"]

LogIsWhatLeft ==
  /\ {log[k] : k \in DOMAIN log} = {RowOf(attempts[k]) : k \in Successes}
  /\ \A j, k \in DOMAIN log : j < k => log[j].id < log[k].id
  /\ \A k \in DOMAIN log : \E w \in DOMAIN wires :
       wires[w].id = log[k].id /\ wires[w].warmup = log[k].warmup /\ ~wires[w].sentinel
  /\ \A w \in DOMAIN wires :
       \/ wires[w].sentinel
       \/ \E k \in DOMAIN attempts :
            attempts[k].id = wires[w].id /\ attempts[k].outcome # "unencodable"

(* The sentinel comes last and tells the receiver, which adds one in 64    *)
(* bits, how often send was called: all messages of both phases, failed    *)
(* ones among them, and none in burst mode.                                *)
SentinelCountsAttempts ==
  \A w \in DOMAIN wires :
    wires[w].sentinel =>
      /\ w = Len(wires)
      /\ (wires[w].id + 1) % IdRange = Len(attempts) % IdRange
      /\ Len(attempts) = Total("warmup") + Total("measured")

(* A message leaves when the one before it is done, and not before it is   *)
(* due: messages 0 and 1 of a phase at once, message k an interval times   *)
(* k - 1 after them.  A slow send delays those behind it, which catch up;  *)
(* the schedule itself never shifts.                                       *)
First(ph) == CHOOSE k \in DOMAIN attempts :
               attempts[k].phase = ph /\ \A j \in 1 .. k - 1 : attempts[j].phase # ph

KeepsSchedule ==
  \A k \in DOMAIN attempts \ {1} :
    LET first == First(attempts[k].phase)
        before == attempts[k - 1].ended
        due == IF k = first
               THEN attempts[1].began + Interval * (k - 2)
               ELSE attempts[first].began + Interval * (k - first - 1)
    IN attempts[k].began = IF before > due THEN before ELSE due
===============================================================================
