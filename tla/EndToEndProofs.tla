---------------------------- MODULE EndToEndProofs ----------------------------
(***************************************************************************)
(* What the sender process guarantees for every plan, payload file, time   *)
(* a send takes and number of failures, alone and in a whole run: the ids, *)
(* the records and the count the sentinel carries.                         *)
(***************************************************************************)
EXTENDS EndToEnd, SequenceTheorems, FiniteSetTheorems, TLAPS

LEMMA Successor ==
  ASSUME NEW n \in Nat \ {0}, NEW x \in Int
  PROVE  (x % n) \in 0 .. n - 1 /\ ((x % n) + 1) % n = (x + 1) % n
<1> DEFINE r == x % n
           q == x \div n
<1>1. q \in Int /\ r \in 0 .. n - 1 /\ x = n * q + r
  OBVIOUS
<1> HIDE DEF q, r
<1>2. CASE r + 1 < n
  BY <1>1, <1>2
<1>3. CASE r + 1 = n
  BY <1>1, <1>3
<1> QED
  BY <1>1, <1>2, <1>3 DEF r

LEMMA SmallRemainder ==
  ASSUME NEW n \in Nat \ {0}, NEW x \in 0 .. n - 1
  PROVE  x % n = x
OBVIOUS

-----------------------------------------------------------------------------
(* The invariant: where the loops are in the two phases, and what that     *)
(* says of the ids, of the payload source and of the network.              *)

Ids == seqId = IF phase = "warmup" THEN i ELSE Total("warmup") + i

NoSentinel == \A w \in DOMAIN wires : ~wires[w].sentinel

Progress ==
  pc # "died" =>
    /\ Ids /\ i <= Total(phase)
    /\ pc \in {"sending", "pace"} => i < Total(phase)
    /\ pc \in {"sentinel", "disconnect", "exited"} => phase = "measured" /\ i = Total(phase)
    /\ Len(attempts) = IF pc = "pace" THEN seqId + 1 ELSE seqId
    /\ next = (IF pc \in {"sending", "pace"} THEN seqId + 1 ELSE seqId) % RecordCount
    /\ pc = "sending" => payload = seqId % RecordCount
    /\ pc \notin {"disconnect", "exited"} => NoSentinel

IInv == TypeOK /\ Progress /\ RecordsFollowIds /\ SentinelCountsAttempts

LEMMA Totals == ASSUME plan \in Plans PROVE Total("warmup") \in Nat /\ Total("measured") \in Nat
<1>1. plan \in [rate : Nat, warmup : Nat, duration : Nat \ {0}, extra : Nat, stream : BOOLEAN]
  BY SenderAssumption
<1>2. plan.rate \in Nat /\ plan.warmup \in Nat /\ plan.duration \in Nat
  BY <1>1
<1>3. \A a, b \in Nat : a * b \in Nat
  OBVIOUS
<1> QED
  BY <1>2, <1>3 DEF Total

LEMMA SenderInit == Init => IInv
<1> SUFFICES ASSUME Init PROVE IInv
  OBVIOUS
<1> USE DEF Init
<1>1. RecordCount \in Nat \ {0} /\ 0 \in Records /\ 0 % RecordCount = 0
  BY SenderAssumption DEF Records
<1>2. TypeOK
  BY <1>1 DEF TypeOK, Phases
<1>3. Progress
  BY <1>1, Totals DEF Progress, Ids, NoSentinel
<1>4. RecordsFollowIds /\ SentinelCountsAttempts
  BY DEF RecordsFollowIds, SentinelCountsAttempts
<1> QED
  BY <1>2, <1>3, <1>4 DEF IInv

(* Steps that leave what was attempted and sent alone.                     *)
LEMMA Unattempted ==
  ASSUME IInv, UNCHANGED <<plan, bad, attempts, wires>>
  PROVE  RecordsFollowIds' /\ SentinelCountsAttempts' /\ (NoSentinel' <=> NoSentinel)
         /\ Total("warmup")' = Total("warmup") /\ Total("measured")' = Total("measured")
BY DEF IInv, RecordsFollowIds, SentinelCountsAttempts, NoSentinel, Total

LEMMA TypesOf ==
  ASSUME IInv
  PROVE  /\ seqId \in Nat /\ i \in Nat /\ now \in Nat /\ tStart \in Nat /\ began \in Nat
         /\ Total("warmup") \in Nat /\ Total("measured") \in Nat /\ phase \in Phases
         /\ attempts \in Seq(Attempt) /\ Len(attempts) \in Nat
         /\ DOMAIN attempts = 1 .. Len(attempts)
         /\ wires \in Seq(Wire) /\ Len(wires) \in Nat /\ DOMAIN wires = 1 .. Len(wires)
         /\ RecordCount \in Nat \ {0} /\ IdRange \in Nat \ {0} /\ next \in Records /\ payload \in Records
BY Totals, SenderAssumption DEF IInv, TypeOK

LEMMA ReturnsStep ==
  ASSUME IInv, NEW outcome \in Outcomes, Returns(outcome),
         outcome = "unencodable" <=> payload \in bad,
         \/ wires' = wires
         \/ wires' = Append(wires, Message(phase)),
         \/ log' = log
         \/ log' = Append(log, [id |-> seqId, warmup |-> phase = "warmup"])
  PROVE  IInv'
<1> DEFINE a == [id |-> seqId, record |-> payload, phase |-> phase,
                 began |-> began, ended |-> now, outcome |-> outcome]
<1>1. /\ pc = "sending" /\ pc' = "pace" /\ attempts' = Append(attempts, a)
      /\ UNCHANGED <<plan, bad, phase, i, seqId, tStart, now, next, payload, began>>
  BY DEF Returns, loopVars, sendVars
<1>2. /\ a \in Attempt /\ a.id = seqId /\ a.record = payload /\ a.phase = phase
      /\ a.outcome = outcome
  BY TypesOf DEF Attempt
<1> HIDE DEF a
<1>3. /\ attempts' \in Seq(Attempt) /\ Len(attempts') = Len(attempts) + 1
      /\ DOMAIN attempts' = 1 .. Len(attempts) + 1
      /\ attempts'[Len(attempts) + 1] = a
      /\ \A k \in 1 .. Len(attempts) : attempts'[k] = attempts[k]
  BY <1>1, <1>2, TypesOf, AppendProperties
<1>4. wires' \in Seq(Wire) /\ NoSentinel'
  <2>1. NoSentinel
    BY <1>1 DEF IInv, Progress
  <2>2. CASE wires' = wires
    BY <2>1, <2>2, TypesOf DEF NoSentinel
  <2>3. CASE wires' = Append(wires, Message(phase))
    <3>1. Message(phase) \in Wire /\ ~Message(phase).sentinel
      BY TypesOf DEF Message, Wire
    <3>2. /\ wires' \in Seq(Wire) /\ DOMAIN wires' = 1 .. Len(wires) + 1
          /\ wires'[Len(wires) + 1] = Message(phase)
          /\ \A k \in 1 .. Len(wires) : wires'[k] = wires[k]
      BY <2>3, <3>1, TypesOf, AppendProperties
    <3>3. ASSUME NEW w \in 1 .. Len(wires) + 1 PROVE ~wires'[w].sentinel
      <4>1. CASE w \in 1 .. Len(wires)
        BY <2>1, <3>2, <4>1, TypesOf DEF NoSentinel
      <4>2. CASE w = Len(wires) + 1
        BY <3>1, <3>2, <4>2
      <4> QED
        BY <4>1, <4>2, TypesOf
    <3> QED
      BY <3>2, <3>3 DEF NoSentinel
  <2> QED
    BY <2>2, <2>3
<1>5. TypeOK'
  <2>1. log \in Seq([id : Nat, warmup : BOOLEAN])
    BY DEF IInv, TypeOK
  <2>2. [id |-> seqId, warmup |-> phase = "warmup"] \in [id : Nat, warmup : BOOLEAN]
    BY TypesOf
  <2>3. log' \in Seq([id : Nat, warmup : BOOLEAN])
    <3>1. PICK Rows : Rows = [id : Nat, warmup : BOOLEAN]
      OBVIOUS
    <3>2. PICK e : e = [id |-> seqId, warmup |-> phase = "warmup"]
      OBVIOUS
    <3>3. log \in Seq(Rows) /\ e \in Rows /\ (log' = log \/ log' = Append(log, e))
      BY <2>1, <2>2, <3>1, <3>2
    <3>4. log' \in Seq(Rows)
      BY <3>3, AppendProperties
    <3> QED
      BY <3>1, <3>4
  <2> QED
    BY <1>1, <1>3, <1>4, <2>3 DEF IInv, TypeOK
<1>6. Total("warmup")' = Total("warmup") /\ Total("measured")' = Total("measured")
  BY <1>1 DEF Total
<1>7. Progress'
  <2>1. /\ Ids /\ i < Total(phase) /\ Len(attempts) = seqId /\ next = (seqId + 1) % RecordCount
    BY <1>1 DEF IInv, Progress
  <2>2. CASE phase = "warmup"
    BY <1>1, <1>3, <1>4, <1>6, <2>1, <2>2, TypesOf DEF Progress, Ids
  <2>3. CASE phase = "measured"
    BY SMTT(30), <1>1, <1>3, <1>4, <1>6, <2>1, <2>3, TypesOf DEF Progress, Ids
  <2> QED
    BY <2>2, <2>3, TypesOf DEF Phases
<1>8. RecordsFollowIds'
  <2>1. /\ Ids /\ i < Total(phase) /\ Len(attempts) = seqId /\ payload = seqId % RecordCount
    BY <1>1 DEF IInv, Progress
  <2>2. a.phase = "warmup" <=> a.id < Total("warmup")
    BY <1>2, <2>1, TypesOf DEF Ids, Phases
  <2>3. ASSUME NEW k \in 1 .. Len(attempts) + 1
        PROVE  LET b == attempts'[k]
               IN /\ b.id = k - 1 /\ b.record = b.id % RecordCount
                  /\ b.phase = "warmup" <=> b.id < Total("warmup")
                  /\ b.outcome = "unencodable" <=> b.record \in bad
    <3>1. CASE k = Len(attempts) + 1
      BY <1>2, <1>3, <2>1, <2>2, <3>1, TypesOf
    <3>2. CASE k \in 1 .. Len(attempts)
      BY <1>3, <3>2, TypesOf DEF IInv, RecordsFollowIds
    <3> QED
      BY <3>1, <3>2, TypesOf
  <2> QED
    BY <1>1, <1>3, <1>6, <2>3 DEF RecordsFollowIds
<1>9. SentinelCountsAttempts'
  BY <1>4 DEF NoSentinel, SentinelCountsAttempts
<1> QED
  BY <1>5, <1>7, <1>8, <1>9 DEF IInv

LEMMA SentinelStep == ASSUME IInv, SendSentinel PROVE IInv'
<1>1. /\ pc = "sentinel" /\ pc' = "disconnect"
      /\ UNCHANGED <<plan, bad, phase, i, seqId, tStart, now, next, payload, began, attempts, log>>
      /\ wires' = wires \/ wires' = Append(wires, Sentinel)
  BY DEF SendSentinel, loopVars, sendVars
<1>2. /\ Ids /\ phase = "measured" /\ i = Total("measured") /\ Len(attempts) = seqId /\ NoSentinel
      /\ seqId = Total("warmup") + Total("measured") /\ next = seqId % RecordCount
  BY <1>1, TypesOf DEF IInv, Progress, Ids
<1>3. Total("warmup")' = Total("warmup") /\ Total("measured")' = Total("measured")
  BY <1>1 DEF Total
<1>4. /\ Sentinel \in Wire /\ Sentinel.sentinel
      /\ (Sentinel.id + 1) % IdRange = Len(attempts) % IdRange
  <2>1. PICK x \in Int : x = seqId - 1
    BY TypesOf
  <2>2. SentinelId = x % IdRange
    BY <2>1 DEF SentinelId
  <2>3. SentinelId \in 0 .. IdRange - 1 /\ (SentinelId + 1) % IdRange = (x + 1) % IdRange
    BY <2>2, Successor, TypesOf
  <2>4. x + 1 = Len(attempts)
    BY <1>2, <2>1, TypesOf
  <2>5. Sentinel \in Wire /\ Sentinel.sentinel /\ Sentinel.id = SentinelId
    BY <2>3, TypesOf DEF Sentinel, Wire
  <2> QED
    BY <2>3, <2>4, <2>5
<1>5. wires' \in Seq(Wire) /\ SentinelCountsAttempts'
  <2>1. CASE wires' = wires
    BY <1>1, <1>2, <2>1, TypesOf DEF NoSentinel, SentinelCountsAttempts
  <2>2. CASE wires' = Append(wires, Sentinel)
    <3>1. /\ wires' \in Seq(Wire) /\ DOMAIN wires' = 1 .. Len(wires) + 1
          /\ Len(wires') = Len(wires) + 1 /\ wires'[Len(wires) + 1] = Sentinel
          /\ \A k \in 1 .. Len(wires) : wires'[k] = wires[k]
      BY <1>4, <2>2, TypesOf, AppendProperties
    <3>2. ASSUME NEW w \in 1 .. Len(wires) + 1, w # Len(wires) + 1 PROVE ~wires'[w].sentinel
      <4>1. w \in 1 .. Len(wires)
        BY <3>2, TypesOf
      <4> QED
        BY <1>2, <3>1, <4>1, TypesOf DEF NoSentinel
    <3> QED
      BY <1>1, <1>2, <1>3, <1>4, <3>1, <3>2 DEF SentinelCountsAttempts
  <2> QED
    BY <1>1, <2>1, <2>2
<1>6. RecordsFollowIds'
  BY <1>1, <1>3 DEF IInv, RecordsFollowIds
<1>7. TypeOK'
  BY <1>1, <1>5 DEF IInv, TypeOK
<1>8. Progress'
  BY <1>1, <1>2, <1>3, TypesOf DEF Progress, Ids, Total
<1> QED
  BY <1>5, <1>6, <1>7, <1>8 DEF IInv

(* The other steps of the sender.                                          *)
LEMMA LoopStep ==
  ASSUME IInv,
         Connect \/ Die \/ Take \/ Pace \/ EndWarmup \/ EndMeasurement \/ Disconnect \/ Tick
  PROVE  IInv'
<1> USE DEF loopVars, sendVars
<1>1. UNCHANGED <<plan, bad, attempts, wires, log>>
  BY DEF Connect, Die, Take, Pace, EndWarmup, EndMeasurement, Disconnect, Tick
<1>2. /\ RecordsFollowIds' /\ SentinelCountsAttempts' /\ (NoSentinel' <=> NoSentinel)
      /\ Total("warmup")' = Total("warmup") /\ Total("measured")' = Total("measured")
  BY <1>1, Unattempted
<1>3. (next + 1) % RecordCount \in Records /\ seqId % RecordCount \in Records
  <2>1. PICK x \in Int : x = next + 1
    BY TypesOf DEF Records
  <2>2. \A y \in Int : (y % RecordCount) \in 0 .. RecordCount - 1
    BY Successor, TypesOf
  <2>3. seqId \in Int
    BY TypesOf
  <2> QED
    BY <2>1, <2>2, <2>3 DEF Records
<1>4. TypeOK'
  <2>1. /\ phase' \in Phases /\ i' \in Nat /\ seqId' \in Nat /\ tStart' \in Nat /\ now' \in Nat
        /\ began' \in Nat /\ payload' \in Records
    BY SMTT(30), TypesOf
       DEF Phases, Connect, Die, Take, Pace, EndWarmup, EndMeasurement, Disconnect, Tick
  <2>2. next' \in Records
    BY <1>3, TypesOf DEF Connect, Die, Take, Pace, EndWarmup, EndMeasurement, Disconnect, Tick
  <2>3. pc' \in {"start", "loop", "sending", "pace", "sentinel", "disconnect", "exited", "died"}
    BY DEF IInv, TypeOK, Connect, Die, Take, Pace, EndWarmup, EndMeasurement, Disconnect, Tick
  <2> QED
    BY <1>1, <2>1, <2>2, <2>3 DEF IInv, TypeOK
<1>5. Progress'
  <2>1. CASE Connect \/ Die \/ Disconnect \/ Tick
    BY <1>1, <1>2, <2>1, TypesOf DEF IInv, Progress, Ids, Phases, Connect, Die, Disconnect, Tick
  <2>2. CASE Take
    <3>1. /\ pc = "loop" /\ pc' = "sending" /\ i < Total(phase) /\ payload' = next
          /\ next' = (next + 1) % RecordCount /\ UNCHANGED <<phase, i, seqId>>
      BY <2>2 DEF Take
    <3>2. next = seqId % RecordCount /\ Ids /\ Len(attempts) = seqId /\ NoSentinel
      BY <3>1 DEF IInv, Progress
    <3>3. next' = (seqId + 1) % RecordCount
      <4>1. PICK x \in Int : x = seqId
        BY TypesOf
      <4>2. ((x % RecordCount) + 1) % RecordCount = (x + 1) % RecordCount
        BY Successor, TypesOf
      <4> QED
        BY <3>1, <3>2, <4>1, <4>2
    <3> QED
      BY <1>1, <1>2, <3>1, <3>2, <3>3, TypesOf DEF Progress, Ids, Phases
  <2>3. CASE Pace
    <3>1. /\ pc = "pace" /\ pc' = "loop" /\ i' = i + 1 /\ seqId' = seqId + 1
          /\ UNCHANGED <<phase, next>>
      BY <2>3 DEF Pace
    <3>2. /\ Ids /\ i < Total(phase) /\ Len(attempts) = seqId + 1 /\ NoSentinel
          /\ next = (seqId + 1) % RecordCount
      BY <3>1 DEF IInv, Progress
    <3> QED
      BY SMTT(30), <1>1, <1>2, <3>1, <3>2, TypesOf DEF Progress, Ids, Phases
  <2>4. CASE EndWarmup
    <3>1. /\ pc = "loop" /\ pc' = "loop" /\ phase = "warmup" /\ i >= Total("warmup")
          /\ phase' = "measured" /\ i' = 0 /\ UNCHANGED <<seqId, next>>
      BY <2>4 DEF EndWarmup
    <3>2. /\ Ids /\ i <= Total("warmup") /\ Len(attempts) = seqId /\ NoSentinel
          /\ next = seqId % RecordCount
      BY <3>1 DEF IInv, Progress
    <3> QED
      BY <1>1, <1>2, <3>1, <3>2, TypesOf DEF Progress, Ids
  <2>5. CASE EndMeasurement
    <3>1. /\ pc = "loop" /\ pc' = "sentinel" /\ phase = "measured" /\ i >= Total("measured")
          /\ UNCHANGED <<phase, i, seqId, next>>
      BY <2>5 DEF EndMeasurement
    <3>2. /\ Ids /\ i <= Total("measured") /\ Len(attempts) = seqId /\ NoSentinel
          /\ next = seqId % RecordCount
      BY <3>1 DEF IInv, Progress
    <3> QED
      BY <1>1, <1>2, <3>1, <3>2, TypesOf DEF Progress, Ids
  <2> QED
    BY <2>1, <2>2, <2>3, <2>4, <2>5
<1> QED
  BY <1>2, <1>4, <1>5 DEF IInv

LEMMA SenderInv == Spec => []IInv
<1>1. IInv /\ [SenderNext]_senderVars => IInv'
  <2> SUFFICES ASSUME IInv, [SenderNext]_senderVars PROVE IInv'
    OBVIOUS
  <2>1. CASE EncodingFails \/ SendFails \/ SendSucceeds
    BY <2>1, ReturnsStep DEF EncodingFails, SendFails, SendSucceeds, WriteRow, Outcomes
  <2>2. CASE UNCHANGED senderVars
    <3> USE <2>2 DEF senderVars, loopVars, sendVars
    <3>1. TypeOK'
      BY DEF IInv, TypeOK
    <3>2. Progress'
      BY DEF IInv, Progress, Ids, NoSentinel, Total
    <3> QED
      BY <3>1, <3>2, Unattempted DEF IInv
  <2> QED
    BY <2>1, <2>2, SentinelStep, LoopStep DEF SenderNext, SenderStep
<1> QED
  BY <1>1, SenderInit, PTL DEF Spec

-----------------------------------------------------------------------------
(* The schedule.  WakeAfter(k) is when the thread wakes after message k of *)
(* the run, as long as the sends before it were no slower.                 *)

Later(a, b) == IF a > b THEN a ELSE b
FirstOf(k) == IF k <= Total("warmup") THEN 1 ELSE Total("warmup") + 1
WakeAfter(k) == attempts[FirstOf(k)].began + Interval * (k - FirstOf(k))
NextDue == Later(attempts[Len(attempts)].ended, WakeAfter(Len(attempts)))

Paced ==
  \A k \in DOMAIN attempts \ {1} :
    attempts[k].began = Later(attempts[k - 1].ended, WakeAfter(k - 1))

(* Where time stands: the thread takes a message when the one before is    *)
(* done and due, t_start is when the first of its phase was taken, and it  *)
(* wakes no later than it has to.                                          *)
Taken == IF pc = "sending" THEN began ELSE now

Clock ==
  /\ pc = "start" => phase = "warmup" /\ i = 0
  /\ pc \in {"loop", "sending"} =>
       /\ i = 0 => Taken = tStart
       /\ attempts # <<>> => Taken = NextDue
  /\ pc \in {"loop", "sending", "pace"} =>
       (Len(attempts) > seqId - i => attempts[seqId - i + 1].began = tStart)
  /\ pc = "pace" =>
       LET done == attempts[Len(attempts)].ended
       IN now >= done /\ (now = done \/ now <= WakeTime)

SInv == IInv /\ Paced /\ Clock

LEMMA IntervalType == ASSUME plan \in Plans PROVE Interval \in Nat
<1>1. plan.rate \in Nat
  BY SenderAssumption
<1>2. \A x, y \in Nat : y # 0 => x \div y \in Nat
  OBVIOUS
<1> QED
  BY <1>1, <1>2, SenderAssumption DEF Interval, Burst

(* Steps that leave attempts alone.                                        *)
LEMMA SamePace ==
  ASSUME UNCHANGED <<plan, attempts>>
  PROVE  /\ Paced' <=> Paced
         /\ Interval' = Interval
         /\ NextDue' = NextDue
BY DEF Paced, NextDue, WakeAfter, FirstOf, Total, Interval, Burst, Later

LEMMA SInvTypes ==
  ASSUME SInv
  PROVE  /\ seqId \in Nat /\ i \in Nat /\ now \in Nat /\ tStart \in Nat /\ began \in Nat
         /\ Total("warmup") \in Nat /\ Total("measured") \in Nat /\ phase \in Phases
         /\ attempts \in Seq(Attempt) /\ Len(attempts) \in Nat
         /\ DOMAIN attempts = 1 .. Len(attempts) /\ payload \in Records
         /\ Interval \in Nat /\ plan.rate \in Nat /\ plan.warmup \in Nat /\ plan.duration \in Nat
BY TypesOf, IntervalType, SenderAssumption DEF SInv, IInv, TypeOK

LEMMA AttemptTypes ==
  ASSUME SInv, NEW k \in 1 .. Len(attempts)
  PROVE  attempts[k] \in Attempt /\ attempts[k].ended \in Nat /\ attempts[k].began \in Nat
<1>1. attempts[k] \in Attempt
  BY SInvTypes, ElementOfSeq
<1> QED
  BY <1>1 DEF Attempt

(* What a message does to the schedule: it is the next one, and it left at *)
(* the time the clock had for it.                                          *)
LEMMA PacedReturns ==
  ASSUME SInv, NEW outcome \in Outcomes, Returns(outcome)
  PROVE  Paced' /\ Clock'
<1> DEFINE n == Len(attempts)
           a == [id |-> seqId, record |-> payload, phase |-> phase,
                 began |-> began, ended |-> now, outcome |-> outcome]
<1>1. /\ pc = "sending" /\ pc' = "pace" /\ attempts' = Append(attempts, a)
      /\ UNCHANGED <<plan, phase, i, seqId, tStart, now, began>>
  BY DEF Returns, loopVars, sendVars
<1>2. /\ a \in Attempt /\ a.began = began /\ a.ended = now
  BY SInvTypes DEF Attempt
<1> HIDE DEF a
<1>3. /\ attempts' \in Seq(Attempt) /\ Len(attempts') = n + 1
      /\ DOMAIN attempts' = 1 .. n + 1 /\ attempts'[n + 1] = a
      /\ \A k \in 1 .. n : attempts'[k] = attempts[k]
  BY <1>1, <1>2, SInvTypes, AppendProperties
<1>4. /\ i = 0 => began = tStart
      /\ attempts # <<>> => began = Later(attempts[n].ended, WakeAfter(n))
      /\ n > seqId - i => attempts[seqId - i + 1].began = tStart
      /\ n = seqId /\ Ids /\ i < Total(phase)
  BY <1>1 DEF SInv, IInv, Progress, Clock, Taken, NextDue
<1>5. Total("warmup")' = Total("warmup") /\ Interval' = Interval
  BY <1>1 DEF Total, Interval, Burst
<1>6. \A k \in 1 .. n : WakeAfter(k)' = WakeAfter(k)
  <2> SUFFICES ASSUME NEW k \in 1 .. n PROVE WakeAfter(k)' = WakeAfter(k)
    OBVIOUS
  <2>1. FirstOf(k) \in 1 .. n /\ FirstOf(k)' = FirstOf(k)
    BY SMTT(30), <1>5, SInvTypes DEF FirstOf
  <2> QED
    BY <1>3, <1>5, <2>1 DEF WakeAfter
<1>7. Paced'
  <2> SUFFICES ASSUME NEW k \in 2 .. n + 1
               PROVE  attempts'[k].began = Later(attempts'[k - 1].ended, WakeAfter(k - 1)')
    BY SMTT(30), <1>3, SInvTypes DEF Paced, Later
  <2>1. CASE k \in 2 .. n
    <3>1. k \in DOMAIN attempts \ {1} /\ k \in 1 .. n /\ k - 1 \in 1 .. n
      BY <2>1, SInvTypes
    <3>2. attempts[k].began = Later(attempts[k - 1].ended, WakeAfter(k - 1))
      BY <3>1 DEF SInv, Paced
    <3> QED
      BY <1>3, <1>6, <3>1, <3>2
  <2>2. CASE k = n + 1
    <3>1. n \in 1 .. n /\ attempts # <<>> /\ k - 1 = n
      BY <2>2, SInvTypes
    <3> QED
      BY <1>2, <1>3, <1>4, <1>6, <2>2, <3>1
  <2> QED
    BY <2>1, <2>2, SInvTypes
<1>8. Clock'
  <2>1. attempts'[seqId - i + 1].began = tStart
    <3>1. CASE i = 0
      BY <1>2, <1>3, <1>4, <3>1, SInvTypes
    <3>2. CASE i # 0
      <4>1. n > seqId - i /\ seqId - i + 1 \in 1 .. n
        BY SMTT(30), <1>4, <3>2, SInvTypes DEF Ids
      <4> QED
        BY <1>3, <1>4, <4>1
    <3> QED
      BY <3>1, <3>2
  <2>2. attempts'[Len(attempts')].ended = now
    BY <1>2, <1>3
  <2> QED
    BY <1>1, <2>1, <2>2, SInvTypes DEF Clock
<1> QED
  BY <1>7, <1>8

(* The thread wakes when message i is done and due.                        *)
LEMMA PacedPace == ASSUME SInv, Pace PROVE Clock'
<1> DEFINE n == Len(attempts)
           done == attempts[n].ended
<1>1. /\ pc = "pace" /\ pc' = "loop" /\ (Burst \/ now >= WakeTime)
      /\ i' = i + 1 /\ seqId' = seqId + 1
      /\ UNCHANGED <<plan, phase, tStart, now, attempts>>
  BY DEF Pace
<1>2. /\ Ids /\ i < Total(phase) /\ n = seqId + 1
      /\ n > seqId - i => attempts[seqId - i + 1].began = tStart
      /\ now >= done /\ (now = done \/ now <= WakeTime)
  BY <1>1 DEF SInv, IInv, Progress, Clock
<1>3. plan.rate # 0
  <2>1. plan.rate = 0 => Total("warmup") = 0 /\ Total("measured") = 0
    BY SInvTypes DEF Total
  <2> QED
    BY <1>2, <2>1, SInvTypes DEF Phases
<1>4. now >= WakeTime
  BY <1>1, <1>3 DEF Burst
<1>5. FirstOf(n) = seqId - i + 1 /\ n - FirstOf(n) = i /\ n > seqId - i
  <2>1. n = seqId + 1 /\ Ids /\ i < Total(phase) /\ n \in Nat
    BY <1>2, SInvTypes
  <2> HIDE DEF n
  <2>2. CASE phase = "warmup"
    BY SMTT(30), <2>1, <2>2, SInvTypes DEF FirstOf, Ids
  <2>3. CASE phase = "measured"
    <3>1. PICK w \in Nat : w = Total("warmup")
      BY SInvTypes
    <3>2. n = w + i + 1 /\ seqId = w + i
      BY <2>1, <2>3, <3>1, SInvTypes DEF Ids
    <3>3. FirstOf(n) = w + 1
      BY <3>1, <3>2, SInvTypes DEF FirstOf
    <3>4. i \in Nat
      BY SInvTypes
    <3>5. w + 1 = seqId - i + 1 /\ n - (w + 1) = i /\ n > seqId - i
      BY <3>1, <3>2, <3>4
    <3> QED
      BY <3>3, <3>5
  <2> QED
    BY <2>2, <2>3, SInvTypes DEF Phases
<1>6. WakeAfter(n) = WakeTime
  BY <1>2, <1>5 DEF WakeAfter, WakeTime
<1>7. done \in Nat /\ WakeTime \in Int
  <2>1. n = seqId + 1
    BY <1>2
  <2>2. n \in 1 .. n
    BY <2>1, SInvTypes
  <2>3. done \in Nat
    BY <2>2, AttemptTypes
  <2>4. \A x, y \in Nat : x * y \in Nat
    OBVIOUS
  <2>5. Interval * i \in Nat
    BY <2>4, SInvTypes
  <2> QED
    BY <2>3, <2>5, SInvTypes DEF WakeTime
<1>8. now = Later(done, WakeAfter(n))
  BY SMTT(30), <1>2, <1>4, <1>6, <1>7, SInvTypes DEF Later
<1>9. NextDue' = now
  BY <1>1, <1>8, SamePace DEF NextDue
<1>10. seqId' - i' = seqId - i
  BY <1>1, SInvTypes
<1>11. attempts'[seqId' - i' + 1].began = tStart
  BY <1>1, <1>2, <1>5, <1>10
<1>12. i' # 0 /\ pc' = "loop" /\ tStart' = tStart /\ now' = now
  BY <1>1, SInvTypes
<1> QED
  BY <1>9, <1>11, <1>12 DEF Clock, Taken

(* The other steps leave attempts alone.                                   *)
LEMMA PacedOther ==
  ASSUME SInv,
         \/ Connect \/ Die \/ Take \/ EndWarmup \/ EndMeasurement
         \/ SendSentinel \/ Disconnect \/ Tick \/ UNCHANGED senderVars
  PROVE  Clock'
<1> USE DEF loopVars, sendVars
<1> DEFINE n == Len(attempts)
<1>1. UNCHANGED <<plan, attempts>>
  BY DEF Connect, Die, Take, EndWarmup, EndMeasurement, SendSentinel, Disconnect, Tick, senderVars
<1>2. NextDue' = NextDue
  BY <1>1, SamePace
<1>3. /\ pc = "start" => phase = "warmup" /\ i = 0
      /\ pc \in {"loop", "sending"} =>
           /\ i = 0 => Taken = tStart
           /\ attempts # <<>> => Taken = NextDue
      /\ pc \in {"loop", "sending", "pace"} =>
           (n > seqId - i => attempts[seqId - i + 1].began = tStart)
      /\ pc = "pace" => now >= attempts[n].ended /\ (now = attempts[n].ended \/ now <= WakeTime)
  BY DEF SInv, Clock
<1>4. SUFFICES
        /\ pc' = "start" => phase' = "warmup" /\ i' = 0
        /\ pc' \in {"loop", "sending"} =>
             /\ i' = 0 => Taken' = tStart'
             /\ attempts # <<>> => Taken' = NextDue
        /\ pc' \in {"loop", "sending", "pace"} =>
             (n > seqId' - i' => attempts[seqId' - i' + 1].began = tStart')
        /\ pc' = "pace" => now' >= attempts[n].ended
                           /\ (now' = attempts[n].ended \/ now' <= WakeTime')
  BY <1>1, <1>2 DEF Clock
<1>5. CASE Connect
  <2>1. n = 0 /\ seqId = 0 /\ i = 0 /\ attempts = <<>>
    <3>1. n = seqId /\ Ids /\ phase = "warmup" /\ i = 0
      BY <1>3, <1>5 DEF Connect, SInv, IInv, Progress
    <3> QED
      BY <3>1, SInvTypes, EmptySeq DEF Ids
  <2> QED
    BY <1>5, <2>1 DEF Connect, Taken
<1>6. CASE Die
  BY <1>6 DEF Die
<1>7. CASE Take
  <2>1. /\ pc = "loop" /\ pc' = "sending" /\ began' = now
        /\ UNCHANGED <<phase, i, seqId, tStart, now>>
    BY <1>7 DEF Take
  <2>2. Taken = now /\ Taken' = now
    BY <2>1 DEF Taken
  <2> QED
    BY <1>3, <2>1, <2>2
<1>8. CASE EndWarmup
  <2>1. /\ pc = "loop" /\ pc' = "loop" /\ i' = 0 /\ tStart' = now
        /\ UNCHANGED <<seqId, now>>
    BY <1>8 DEF EndWarmup
  <2>2. Taken = now /\ Taken' = now /\ n = seqId
    BY <2>1 DEF Taken, SInv, IInv, Progress
  <2> QED
    BY <1>3, <2>1, <2>2, SInvTypes
<1>9. CASE EndMeasurement \/ SendSentinel \/ Disconnect
  BY <1>9 DEF EndMeasurement, SendSentinel, Disconnect
<1>10. CASE Tick
  <2>1. Waiting /\ now' = now + 1 /\ UNCHANGED <<pc, phase, i, seqId, tStart, began>>
    BY <1>10 DEF Tick
  <2>2. pc # "loop"
    BY <2>1 DEF Waiting
  <2>3. pc = "sending" => Taken' = Taken
    BY <2>1 DEF Taken
  <2>4. pc = "pace" => now < WakeTime /\ attempts[n].ended \in Nat /\ WakeTime \in Int
    <3> SUFFICES ASSUME pc = "pace"
                 PROVE  now < WakeTime /\ attempts[n].ended \in Nat /\ WakeTime \in Int
      OBVIOUS
    <3>1. now < WakeTime
      BY <2>1 DEF Waiting
    <3>2. n \in 1 .. n
      BY SInvTypes DEF SInv, IInv, Progress
    <3>3. attempts[n].ended \in Nat
      BY <3>2, AttemptTypes
    <3>4. \A x, y \in Nat : x * y \in Nat
      OBVIOUS
    <3>5. Interval * i \in Nat
      BY <3>4, SInvTypes
    <3> QED
      BY <3>1, <3>3, <3>5, SInvTypes DEF WakeTime
  <2>5. WakeTime' = WakeTime
    BY <1>1, <2>1, SamePace DEF WakeTime
  <2>6. pc = "pace" => now' >= attempts[n].ended /\ now' <= WakeTime'
    BY SMTT(30), <1>3, <2>1, <2>4, <2>5, SInvTypes
  <2> QED
    BY <1>3, <2>1, <2>2, <2>3, <2>6
<1>11. CASE UNCHANGED senderVars
  BY <1>3, <1>11, SamePace, <1>1 DEF senderVars, Taken, WakeTime
<1> QED
  BY <1>5, <1>6, <1>7, <1>8, <1>9, <1>10, <1>11

LEMMA PacedInv == Spec => []SInv
<1>1. Init => Paced /\ Clock
  BY DEF Init, Paced, Clock
<1>2. IInv' /\ SInv /\ [SenderNext]_senderVars => SInv'
  <2> SUFFICES ASSUME IInv', SInv, [SenderNext]_senderVars PROVE Paced' /\ Clock'
    BY DEF SInv
  <2>1. CASE EncodingFails \/ SendFails \/ SendSucceeds
    BY <2>1, PacedReturns DEF EncodingFails, SendFails, SendSucceeds, Outcomes
  <2>2. CASE Pace
    BY <2>2, PacedPace, SamePace DEF Pace, SInv
  <2>3. CASE \/ Connect \/ Die \/ Take \/ EndWarmup \/ EndMeasurement
             \/ SendSentinel \/ Disconnect \/ Tick \/ UNCHANGED senderVars
    <3>1. UNCHANGED <<plan, attempts>>
      BY <2>3 DEF Connect, Die, Take, EndWarmup, EndMeasurement, SendSentinel, Disconnect, Tick,
                  senderVars
    <3> QED
      BY <2>3, <3>1, PacedOther, SamePace DEF SInv
  <2> QED
    BY <2>1, <2>2, <2>3 DEF SenderNext, SenderStep
<1>3. IInv /\ Paced /\ Clock <=> SInv
  BY DEF SInv
<1> QED
  BY <1>1, <1>2, <1>3, SenderInv, PTL DEF Spec

(* First picks the message the proofs count from.                          *)
LEMMA FirstIsFirstOf ==
  ASSUME SInv, NEW k \in DOMAIN attempts
  PROVE  First(attempts[k].phase) = FirstOf(k) /\ FirstOf(k) \in 1 .. k
<1> DEFINE ph == attempts[k].phase
           IsFirst(f) == attempts[f].phase = ph /\ \A j \in 1 .. f - 1 : attempts[j].phase # ph
<1>1. PICK w \in Nat : w = Total("warmup")
  BY SInvTypes
<1>2. \A j \in DOMAIN attempts : attempts[j].phase \in Phases /\ (attempts[j].phase = "warmup" <=> j <= w)
  <2> SUFFICES ASSUME NEW j \in DOMAIN attempts
               PROVE  attempts[j].phase \in Phases /\ (attempts[j].phase = "warmup" <=> j <= w)
    OBVIOUS
  <2>1. j \in 1 .. Len(attempts) /\ j \in Nat
    BY SInvTypes
  <2>2. attempts[j].phase \in Phases
    BY <2>1, AttemptTypes DEF Attempt
  <2>3. attempts[j].id = j - 1 /\ (attempts[j].phase = "warmup" <=> attempts[j].id < w)
    BY <1>1 DEF SInv, IInv, RecordsFollowIds
  <2> QED
    BY <2>1, <2>2, <2>3
<1>3. k \in 1 .. Len(attempts) /\ k \in Nat /\ DOMAIN attempts = 1 .. Len(attempts) /\ Len(attempts) \in Nat
  BY SInvTypes
<1>4. FirstOf(k) = IF k <= w THEN 1 ELSE w + 1
  BY <1>1 DEF FirstOf
<1>5. FirstOf(k) \in 1 .. k
  BY <1>3, <1>4
<1>6. FirstOf(k) \in DOMAIN attempts /\ IsFirst(FirstOf(k))
  BY <1>2, <1>3, <1>4, <1>5 DEF Phases
<1>7. ASSUME NEW f \in DOMAIN attempts, NEW g \in DOMAIN attempts, IsFirst(f), IsFirst(g)
      PROVE  f = g
  <2>1. f \in Nat /\ g \in Nat /\ f >= 1 /\ g >= 1
    BY <1>3
  <2>2. ~(f < g) /\ ~(g < f)
    BY <1>7, <2>1
  <2> QED
    BY <2>1, <2>2
<1>8. First(ph) = CHOOSE f \in DOMAIN attempts : IsFirst(f)
  BY DEF First
<1> HIDE DEF IsFirst
<1> QED
  BY <1>5, <1>6, <1>7, <1>8

LEMMA ScheduleKept == SInv => KeepsSchedule
<1> SUFFICES ASSUME SInv, NEW k \in DOMAIN attempts \ {1}
             PROVE  LET first == First(attempts[k].phase)
                        before == attempts[k - 1].ended
                        due == IF k = first
                               THEN attempts[1].began + Interval * (k - 2)
                               ELSE attempts[first].began + Interval * (k - first - 1)
                    IN attempts[k].began = IF before > due THEN before ELSE due
  BY DEF KeepsSchedule
<1>1. PICK w \in Nat : w = Total("warmup")
  BY SInvTypes
<1>2. k \in Nat /\ k >= 2 /\ k - 1 \in Nat
  BY SMTT(30), SInvTypes
<1>3. First(attempts[k].phase) = FirstOf(k)
  BY FirstIsFirstOf
<1>4. attempts[k].began = Later(attempts[k - 1].ended, WakeAfter(k - 1))
  BY DEF SInv, Paced
<1>5. CASE k = FirstOf(k)
  <2>1. k = w + 1 /\ FirstOf(k - 1) = 1 /\ (k - 1) - 1 = k - 2
    BY <1>1, <1>2, <1>5 DEF FirstOf
  <2>2. WakeAfter(k - 1) = attempts[1].began + Interval * (k - 2)
    BY <2>1 DEF WakeAfter
  <2> QED
    BY <1>3, <1>4, <1>5, <2>2 DEF Later
<1>6. CASE k # FirstOf(k)
  <2>1. FirstOf(k - 1) = FirstOf(k) /\ FirstOf(k) \in Nat
    BY <1>1, <1>2, <1>6 DEF FirstOf
  <2>2. (k - 1) - FirstOf(k) = k - FirstOf(k) - 1
    BY <1>2, <2>1
  <2>3. WakeAfter(k - 1) = attempts[FirstOf(k)].began + Interval * (k - FirstOf(k) - 1)
    BY <2>1, <2>2 DEF WakeAfter
  <2> QED
    BY <1>3, <1>4, <1>6, <2>3 DEF Later
<1> QED
  BY <1>5, <1>6

-----------------------------------------------------------------------------
(* The log.                                                                *)

LInv == IInv /\ LogIsWhatLeft

Row == [id : Nat, warmup : BOOLEAN]

LEMMA RowTypes ==
  ASSUME IInv
  PROVE  /\ log \in Seq(Row) /\ Len(log) \in Nat /\ DOMAIN log = 1 .. Len(log)
         /\ \A k \in DOMAIN log : log[k] \in Row /\ log[k].id \in Nat
<1>1. log \in Seq(Row)
  BY DEF IInv, TypeOK, Row
<1>2. \A k \in 1 .. Len(log) : log[k] \in Row
  BY <1>1, ElementOfSeq
<1> QED
  BY <1>1, <1>2 DEF Row

(* A row is older than the next message.                                   *)
LEMMA RowsAreOld ==
  ASSUME LInv, NEW k \in DOMAIN log
  PROVE  log[k].id < Len(attempts)
<1>1. log[k] \in {RowOf(attempts[j]) : j \in Successes}
  BY DEF LInv, LogIsWhatLeft
<1>2. PICK j \in Successes : log[k] = RowOf(attempts[j])
  BY <1>1
<1>3. j \in DOMAIN attempts /\ attempts[j].id = j - 1
  BY DEF Successes, LInv, IInv, RecordsFollowIds
<1>4. log[k].id = j - 1
  BY <1>2, <1>3 DEF RowOf
<1> QED
  BY <1>3, <1>4, TypesOf DEF LInv

(* A message put on the network leaves those before it there.              *)
LEMMA WiresGrow ==
  ASSUME IInv, NEW e \in Wire, wires' = Append(wires, e)
  PROVE  /\ DOMAIN wires' = 1 .. Len(wires) + 1 /\ wires'[Len(wires) + 1] = e
         /\ \A w \in DOMAIN wires : w \in DOMAIN wires' /\ wires'[w] = wires[w]
         /\ \A w \in DOMAIN wires' : w \in DOMAIN wires \/ w = Len(wires) + 1
<1>1. wires \in Seq(Wire) /\ Len(wires) \in Nat /\ DOMAIN wires = 1 .. Len(wires)
  BY TypesOf
<1>2. /\ DOMAIN wires' = 1 .. Len(wires) + 1 /\ wires'[Len(wires) + 1] = e
      /\ \A w \in 1 .. Len(wires) : wires'[w] = wires[w]
  BY <1>1, AppendProperties
<1> QED
  BY <1>1, <1>2

LEMMA LogGrows ==
  ASSUME IInv, NEW e \in Row
  PROVE  /\ DOMAIN Append(log, e) = 1 .. Len(log) + 1 /\ Append(log, e)[Len(log) + 1] = e
         /\ \A k \in 1 .. Len(log) : Append(log, e)[k] = log[k]
         /\ log # Append(log, e)
<1>1. log \in Seq(Row) /\ Len(log) \in Nat /\ DOMAIN log = 1 .. Len(log)
  BY RowTypes
<1>2. PICK f \in Seq(Row) : f = Append(log, e)
  BY <1>1, AppendProperties
<1>3. /\ DOMAIN f = 1 .. Len(log) + 1 /\ f[Len(log) + 1] = e
      /\ \A k \in 1 .. Len(log) : f[k] = log[k]
      /\ Len(f) = Len(log) + 1
  BY <1>1, <1>2, AppendProperties
<1>4. f # log
  BY <1>1, <1>3
<1> QED
  BY <1>2, <1>3, <1>4

LEMMA LogReturns ==
  ASSUME LInv, NEW outcome \in Outcomes, Returns(outcome),
         \/ outcome # "sent" /\ log' = log
         \/ outcome = "sent" /\ WriteRow,
         \/ outcome # "sent" /\ wires' = wires
         \/ outcome # "unencodable" /\ wires' = Append(wires, Message(phase))
  PROVE  LogIsWhatLeft'
<1> DEFINE n == Len(attempts)
           a == [id |-> seqId, record |-> payload, phase |-> phase,
                 began |-> began, ended |-> now, outcome |-> outcome]
           row == [id |-> seqId, warmup |-> phase = "warmup"]
<1>1. /\ pc = "sending" /\ attempts' = Append(attempts, a) /\ n = seqId
  BY DEF Returns, LInv, IInv, Progress
<1>2. a \in Attempt /\ a.id = seqId /\ a.outcome = outcome /\ RowOf(a) = row
  BY TypesOf DEF Attempt, LInv, RowOf
<1>3. row \in Row /\ row.id = seqId /\ row.warmup = (phase = "warmup")
  BY TypesOf DEF Row, LInv
<1>4. /\ Message(phase) \in Wire /\ Message(phase).id = seqId /\ ~Message(phase).sentinel
      /\ Message(phase).warmup = (phase = "warmup")
  BY TypesOf DEF Message, Wire, LInv
<1> HIDE DEF a
<1>5. /\ DOMAIN attempts' = 1 .. n + 1 /\ attempts'[n + 1] = a
      /\ \A k \in 1 .. n : attempts'[k] = attempts[k]
      /\ DOMAIN attempts = 1 .. n /\ n \in Nat
  BY <1>1, <1>2, TypesOf, AppendProperties DEF LInv
<1>6. Successes' = IF outcome = "sent" THEN Successes \cup {n + 1} ELSE Successes
  <2>1. \A k \in 1 .. n + 1 : k \in 1 .. n \/ k = n + 1
    BY <1>5
  <2>2. n + 1 \in 1 .. n + 1 /\ n + 1 \notin 1 .. n /\ \A k \in 1 .. n : k \in 1 .. n + 1
    BY <1>5
  <2> QED
    BY <1>2, <1>5, <2>1, <2>2 DEF Successes
<1>7. {RowOf(attempts[k]) : k \in Successes}' =
        IF outcome = "sent" THEN {RowOf(attempts[k]) : k \in Successes} \cup {row}
                            ELSE {RowOf(attempts[k]) : k \in Successes}
  <2>1. \A k \in Successes : k \in 1 .. n
    BY <1>5 DEF Successes
  <2>2. \A k \in Successes : RowOf(attempts'[k]) = RowOf(attempts[k])
    BY <1>5, <2>1
  <2>3. RowOf(attempts'[n + 1]) = row
    BY <1>2, <1>5
  <2>4. {RowOf(attempts[k]) : k \in Successes}' = {RowOf(attempts'[k]) : k \in Successes'}
    BY DEF RowOf
  <2> HIDE DEF row
  <2> QED
    BY <1>6, <2>2, <2>3, <2>4
<1>8. /\ DOMAIN log \subseteq DOMAIN log' /\ \A k \in DOMAIN log : log'[k] = log[k]
      /\ outcome # "sent" => log' = log
      /\ outcome = "sent" => /\ DOMAIN log' = DOMAIN log \cup {Len(log) + 1}
                             /\ log'[Len(log) + 1] = row
                             /\ \A k \in DOMAIN log : k < Len(log) + 1
  <2> HIDE DEF row
  <2>1. CASE log' = log
    <3>1. outcome # "sent"
      <4>1. outcome = "sent" => log' = Append(log, row)
        BY DEF WriteRow, row
      <4>2. log # Append(log, row)
        BY <1>3, LogGrows DEF LInv
      <4> QED
        BY <2>1, <4>1, <4>2
    <3> QED
      BY <2>1, <3>1
  <2>2. CASE outcome = "sent" /\ WriteRow
    <3>1. log' = Append(log, row)
      BY <2>2 DEF WriteRow, row
    <3>2. /\ DOMAIN log' = 1 .. Len(log) + 1 /\ log'[Len(log) + 1] = row
          /\ \A k \in 1 .. Len(log) : log'[k] = log[k]
      BY <3>1, <1>3, LogGrows DEF LInv
    <3> QED
      BY <2>2, <3>2, RowTypes DEF LInv
  <2> QED
    BY <2>1, <2>2
<1>9. /\ \A w \in DOMAIN wires : w \in DOMAIN wires' /\ wires'[w] = wires[w]
      /\ outcome = "sent" => \E w \in DOMAIN wires' : wires'[w] = Message(phase)
      /\ \A w \in DOMAIN wires' : w \in DOMAIN wires \/ (wires'[w] = Message(phase) /\ outcome # "unencodable")
  <2>1. CASE wires' = wires /\ outcome # "sent"
    BY <2>1
  <2>2. CASE outcome # "unencodable" /\ wires' = Append(wires, Message(phase))
    <3>1. /\ DOMAIN wires' = 1 .. Len(wires) + 1 /\ wires'[Len(wires) + 1] = Message(phase)
          /\ \A w \in DOMAIN wires : w \in DOMAIN wires' /\ wires'[w] = wires[w]
          /\ \A w \in DOMAIN wires' : w \in DOMAIN wires \/ w = Len(wires) + 1
      BY <1>4, <2>2, WiresGrow DEF LInv
    <3>2. Len(wires) + 1 \in DOMAIN wires'
      BY <3>1, TypesOf DEF LInv
    <3> QED
      BY <2>2, <3>1, <3>2
  <2> QED
    BY <2>1, <2>2
<1> HIDE DEF row
<1>10. {log[k] : k \in DOMAIN log}' = {RowOf(attempts[k]) : k \in Successes}'
  <2>1. {log[k] : k \in DOMAIN log} = {RowOf(attempts[k]) : k \in Successes}
    BY DEF LInv, LogIsWhatLeft
  <2>2. {log[k] : k \in DOMAIN log}' =
          IF outcome = "sent" THEN {log[k] : k \in DOMAIN log} \cup {row}
                              ELSE {log[k] : k \in DOMAIN log}
    BY <1>8
  <2> QED
    BY <1>7, <2>1, <2>2
<1>11. \A j, k \in DOMAIN log' : j < k => log'[j].id < log'[k].id
  <2> SUFFICES ASSUME NEW j \in DOMAIN log', NEW k \in DOMAIN log', j < k
               PROVE  log'[j].id < log'[k].id
    OBVIOUS
  <2>1. CASE j \in DOMAIN log /\ k \in DOMAIN log
    BY <1>8, <2>1 DEF LInv, LogIsWhatLeft
  <2>2. CASE j \in DOMAIN log /\ k = Len(log) + 1 /\ outcome = "sent"
    BY <1>1, <1>3, <1>8, <2>2, RowsAreOld
  <2>3. CASE j = Len(log) + 1
    BY <1>8, <2>3, RowTypes DEF LInv
  <2> QED
    BY <1>8, <2>1, <2>2, <2>3
<1>12. \A k \in DOMAIN log' : \E w \in DOMAIN wires' :
         wires'[w].id = log'[k].id /\ wires'[w].warmup = log'[k].warmup /\ ~wires'[w].sentinel
  <2> SUFFICES ASSUME NEW k \in DOMAIN log'
               PROVE  \E w \in DOMAIN wires' :
                        wires'[w].id = log'[k].id /\ wires'[w].warmup = log'[k].warmup
                        /\ ~wires'[w].sentinel
    OBVIOUS
  <2>1. CASE k \in DOMAIN log
    <3>1. PICK w \in DOMAIN wires :
            wires[w].id = log[k].id /\ wires[w].warmup = log[k].warmup /\ ~wires[w].sentinel
      BY <2>1 DEF LInv, LogIsWhatLeft
    <3>2. w \in DOMAIN wires' /\ wires'[w] = wires[w]
      BY <1>9
    <3>3. log'[k] = log[k]
      BY <1>8, <2>1
    <3> QED
      BY <3>1, <3>2, <3>3
  <2>2. CASE k = Len(log) + 1 /\ outcome = "sent"
    BY <1>3, <1>4, <1>8, <1>9, <2>2
  <2> QED
    BY <1>8, <2>1, <2>2
<1>13. \A w \in DOMAIN wires' :
         \/ wires'[w].sentinel
         \/ \E k \in DOMAIN attempts' :
              attempts'[k].id = wires'[w].id /\ attempts'[k].outcome # "unencodable"
  <2> SUFFICES ASSUME NEW w \in DOMAIN wires', ~wires'[w].sentinel
               PROVE  \E k \in DOMAIN attempts' :
                        attempts'[k].id = wires'[w].id /\ attempts'[k].outcome # "unencodable"
    OBVIOUS
  <2>1. CASE w \in DOMAIN wires
    <3>1. wires'[w] = wires[w]
      BY <1>9, <2>1
    <3>2. PICK k \in DOMAIN attempts :
            attempts[k].id = wires[w].id /\ attempts[k].outcome # "unencodable"
      BY <2>1, <3>1 DEF LInv, LogIsWhatLeft
    <3>3. k \in DOMAIN attempts' /\ attempts'[k] = attempts[k]
      BY <1>5
    <3> QED
      BY <3>1, <3>2, <3>3
  <2>2. CASE wires'[w] = Message(phase) /\ outcome # "unencodable"
    <3>1. n + 1 \in DOMAIN attempts' /\ attempts'[n + 1] = a
      BY <1>5
    <3> QED
      BY <1>2, <1>4, <2>2, <3>1
  <2> QED
    BY <1>9, <2>1, <2>2
<1> QED
  BY <1>10, <1>11, <1>12, <1>13 DEF LogIsWhatLeft

LEMMA SentinelType == ASSUME IInv PROVE Sentinel \in Wire /\ Sentinel.sentinel
<1>1. SentinelId \in Nat
  <2>1. PICK x \in Int : x = seqId - 1
    BY TypesOf
  <2>2. SentinelId = x % IdRange
    BY <2>1 DEF SentinelId
  <2>3. SentinelId \in 0 .. IdRange - 1
    BY <2>2, Successor, TypesOf
  <2> QED
    BY <2>3, TypesOf
<1> QED
  BY <1>1, TypesOf DEF Sentinel, Wire

LEMMA LogInv == Spec => []LInv
<1>1. Init => LogIsWhatLeft
  BY DEF Init, LogIsWhatLeft, Successes, RowOf
<1>2. LInv /\ [SenderNext]_senderVars => LogIsWhatLeft'
  <2> SUFFICES ASSUME LInv, [SenderNext]_senderVars PROVE LogIsWhatLeft'
    OBVIOUS
  <2>1. CASE EncodingFails \/ SendFails \/ SendSucceeds
    BY <2>1, LogReturns DEF EncodingFails, SendFails, SendSucceeds, Outcomes
  <2>2. CASE SendSentinel
    <3>1. UNCHANGED <<attempts, log>> /\ (wires' = wires \/ wires' = Append(wires, Sentinel))
      BY <2>2 DEF SendSentinel
    <3>2. CASE wires' = wires
      BY <3>1, <3>2 DEF LInv, LogIsWhatLeft, Successes, RowOf
    <3>3. CASE wires' = Append(wires, Sentinel)
      <4>1. Sentinel \in Wire /\ Sentinel.sentinel
        BY SentinelType DEF LInv
      <4>2. /\ \A w \in DOMAIN wires : w \in DOMAIN wires' /\ wires'[w] = wires[w]
            /\ \A w \in DOMAIN wires' : w \in DOMAIN wires \/ wires'[w] = Sentinel
        BY <3>3, <4>1, WiresGrow DEF LInv
      <4> HIDE DEF Sentinel
      <4>3. \A k \in DOMAIN log : \E w \in DOMAIN wires' :
              wires'[w].id = log[k].id /\ wires'[w].warmup = log[k].warmup /\ ~wires'[w].sentinel
        BY <4>2 DEF LInv, LogIsWhatLeft
      <4>4. \A w \in DOMAIN wires' :
              \/ wires'[w].sentinel
              \/ \E k \in DOMAIN attempts :
                   attempts[k].id = wires'[w].id /\ attempts[k].outcome # "unencodable"
        BY <4>1, <4>2 DEF LInv, LogIsWhatLeft
      <4>5. /\ {log[k] : k \in DOMAIN log}' = {RowOf(attempts[k]) : k \in Successes}'
            /\ \A j, k \in DOMAIN log' : j < k => log'[j].id < log'[k].id
        BY <3>1 DEF LInv, LogIsWhatLeft, Successes, RowOf
      <4> QED
        BY <3>1, <4>3, <4>4, <4>5 DEF LogIsWhatLeft
    <3> QED
      BY <3>1, <3>2, <3>3
  <2>3. CASE \/ Connect \/ Die \/ Take \/ Pace \/ EndWarmup \/ EndMeasurement
             \/ Disconnect \/ Tick \/ UNCHANGED senderVars
    <3>1. UNCHANGED <<attempts, wires, log>>
      BY <2>3 DEF Connect, Die, Take, Pace, EndWarmup, EndMeasurement, Disconnect, Tick, senderVars
    <3> QED
      BY <3>1 DEF LInv, LogIsWhatLeft, Successes, RowOf
  <2> QED
    BY <2>1, <2>2, <2>3 DEF SenderNext, SenderStep
<1>3. IInv /\ LogIsWhatLeft <=> LInv
  BY DEF LInv
<1> QED
  BY <1>1, <1>2, <1>3, SenderInv, PTL DEF Spec

-----------------------------------------------------------------------------
(* The steps of the receiver do not touch the sender.                      *)
ReceiverStep ==
  \/ \E w \in DOMAIN wires : ArriveData(w) \/ ArriveSentinel(w)
  \/ SetCount
  \/ GetReady
  \/ StopWaiting
  \/ ReadSent
  \/ ReadOverflow
  \/ Finalize

LEMMA ReceiverLeavesSender ==
  ReceiverStep \/ UNCHANGED vars => UNCHANGED <<senderVars, connectedAt>>
BY DEF ReceiverStep, ArriveData, ArriveSentinel, Receives, SetCount, GetReady, StopWaiting,
       ReadSent, ReadOverflow, Finalize, RecvGoto, vars

(* In a run against a network and a receiver the sender takes no step that *)
(* it could not take alone.                                                *)
THEOREM RunHasASender == EndToEndSpec => Spec
<1>1. EndToEndInit => Init
  BY DEF EndToEndInit
<1>2. [Next]_vars => [SenderNext]_senderVars
  BY ReceiverLeavesSender DEF Next, ReceiverStep, Sends, Time, SenderNext
<1> QED
  BY <1>1, <1>2, PTL DEF EndToEndSpec, Spec

-----------------------------------------------------------------------------
(* The network and the counts of the receiver.  Got has the messages of    *)
(* which something arrived, Again every arrival after the first.           *)

Data(w) == w \in DOMAIN wires /\ ~wires[w].sentinel
Got == {wires[w].id : w \in {v \in DOMAIN wires : Data(v) /\ copies[v] > 0}}
Again == {p \in (DOMAIN wires) \X (2 .. Copies) : ~wires[p[1]].sentinel /\ p[2] <= copies[p[1]]}

WiresOfAttempts ==
  /\ \A w \in DOMAIN wires : Data(w) => wires[w].id < Len(attempts)
  /\ \A v, w \in DOMAIN wires : Data(v) /\ Data(w) /\ v # w => wires[v].id # wires[w].id

Counted ==
  /\ accepted \in Nat /\ overflow \in Nat
  /\ accepted + overflow = Cardinality(Got) + Cardinality(Again)

(* What a sentinel on the network makes of the count.                      *)
Told(x) == \E w \in DOMAIN wires : wires[w].sentinel /\ x = (wires[w].id + 1) % IdRange

(* Once the flag is set there is a count, or the thread is about to store  *)
(* the first one.                                                          *)
FlagIsSentinel ==
  /\ net = "count" => flag /\ cur \in DOMAIN wires /\ wires[cur].sentinel
  /\ ~flag => sentCount = 0
  /\ flag => (net = "count" /\ sentCount = 0) \/ Told(sentCount)

(* The summary, field by field.                                            *)
Reported ==
  /\ halfRead => result.sent = 0
  /\ result.sent # Null /\ ~halfRead => Told(result.sent)
  /\ recv \in {"finalize", "done"} =>
       /\ result.overflow \in Nat
       /\ \/ overflow = result.overflow
          \/ overflow = result.overflow + 1 /\ net # "receive"
  /\ recv = "done" =>
       result.waiting \in 0 .. accepted /\ result.received = accepted - result.waiting

NetInv ==
  /\ copies \in [DOMAIN wires -> Nat]
  /\ result = [f \in {"sent", "received", "overflow", "waiting"} |-> result[f]]
  /\ WiresOfAttempts /\ Counted /\ FlagIsSentinel /\ Reported

LEMMA GotFinite ==
  ASSUME IInv, NetInv
  PROVE  /\ Got \subseteq 0 .. Len(attempts) - 1
         /\ IsFiniteSet(Got) /\ Cardinality(Got) \in Nat
         /\ IsFiniteSet(Again) /\ Cardinality(Again) \in Nat
<1>1. Got \subseteq 0 .. Len(attempts) - 1
  <2> SUFFICES ASSUME NEW w \in DOMAIN wires, Data(w)
               PROVE  wires[w].id \in 0 .. Len(attempts) - 1
    BY DEF Got
  <2>1. wires[w].id \in Nat
    <3>1. wires[w] \in Wire
      BY TypesOf, ElementOfSeq
    <3> QED
      BY <3>1 DEF Wire
  <2> QED
    BY SMTT(30), <2>1, TypesOf DEF NetInv, WiresOfAttempts
<1>2. IsFiniteSet(0 .. Len(attempts) - 1)
  BY TypesOf, FS_Interval
<1>3. IsFiniteSet((DOMAIN wires) \X (2 .. Copies))
  <2>1. IsFiniteSet(1 .. Len(wires)) /\ IsFiniteSet(2 .. Copies)
    BY TypesOf, EndToEndAssumption, FS_Interval
  <2> QED
    BY <2>1, TypesOf, FS_Product
<1>4. Again \subseteq (DOMAIN wires) \X (2 .. Copies)
  BY DEF Again
<1> QED
  BY <1>1, <1>2, <1>3, <1>4, FS_Subset, FS_CardinalityType

(* A step of the sender puts a message on the network with the id of the   *)
(* send, or the sentinel, or nothing.                                      *)
LEMMA SenderPuts ==
  ASSUME IInv, SenderStep
  PROVE  /\ Len(attempts') \in Nat /\ Len(attempts') >= Len(attempts)
         /\ \/ wires' = wires
            \/ \E e \in Wire :
                 /\ wires' = Append(wires, e)
                 /\ e.sentinel \/ (e.id = Len(attempts) /\ Len(attempts') = Len(attempts) + 1)
<1>1. CASE EncodingFails \/ SendFails \/ SendSucceeds
  <2>1. PICK outcome \in Outcomes : Returns(outcome) /\ (wires' = wires \/ wires' = Append(wires, Message(phase)))
    BY <1>1 DEF EncodingFails, SendFails, SendSucceeds, Outcomes
  <2> DEFINE a == [id |-> seqId, record |-> payload, phase |-> phase,
                   began |-> began, ended |-> now, outcome |-> outcome]
  <2>2. pc = "sending" /\ attempts' = Append(attempts, a) /\ Len(attempts) = seqId
    BY <2>1 DEF Returns, IInv, Progress
  <2>3. a \in Attempt
    BY TypesOf DEF Attempt
  <2> HIDE DEF a
  <2>4. Len(attempts') = Len(attempts) + 1
    BY <2>2, <2>3, TypesOf, AppendProperties
  <2>5. Message(phase) \in Wire /\ Message(phase).id = seqId
    BY TypesOf DEF Message, Wire
  <2> QED
    BY <2>1, <2>2, <2>4, <2>5, TypesOf
<1>2. CASE SendSentinel
  <2>1. attempts' = attempts /\ (wires' = wires \/ wires' = Append(wires, Sentinel))
    BY <1>2 DEF SendSentinel
  <2>2. Len(attempts') = Len(attempts) /\ Len(attempts) \in Nat
    BY <2>1, TypesOf
  <2>3. Sentinel \in Wire /\ Sentinel.sentinel
    BY SentinelType
  <2> HIDE DEF Sentinel
  <2> QED
    BY <2>1, <2>2, <2>3
<1>3. CASE Connect \/ Die \/ Take \/ Pace \/ EndWarmup \/ EndMeasurement \/ Disconnect
  <2>1. UNCHANGED <<attempts, wires>>
    BY <1>3 DEF Connect, Die, Take, Pace, EndWarmup, EndMeasurement, Disconnect
  <2> QED
    BY <2>1, TypesOf
<1> QED
  BY <1>1, <1>2, <1>3 DEF SenderStep

LEMMA SendsNet == ASSUME IInv, NetInv, Sends PROVE NetInv'
<1> DEFINE n == Len(wires)
<1>1. /\ SenderStep
      /\ UNCHANGED <<net, cur, flag, sentCount, accepted, overflow, recv, readyAt, result, halfRead>>
      /\ copies' = [w \in DOMAIN wires' |-> IF w \in DOMAIN copies THEN copies[w] ELSE 0]
  BY DEF Sends, receiverVars, netVars, mainVars
<1>2. DOMAIN copies = DOMAIN wires /\ \A w \in DOMAIN wires : copies[w] \in Nat
  BY DEF NetInv
<1>3. Len(attempts') \in Nat /\ Len(attempts') >= Len(attempts) /\ Len(attempts) \in Nat
  BY <1>1, SenderPuts, TypesOf
<1>4. /\ \A w \in DOMAIN wires : w \in DOMAIN wires' /\ wires'[w] = wires[w]
      /\ \A w \in DOMAIN wires' :
           \/ w \in DOMAIN wires
           \/ /\ w = n + 1
              /\ \/ wires'[w].sentinel
                 \/ wires'[w].id = Len(attempts) /\ Len(attempts') = Len(attempts) + 1
      /\ n + 1 \notin DOMAIN wires
  <2>1. CASE wires' = wires
    BY <2>1, TypesOf
  <2>2. ASSUME NEW e \in Wire, wires' = Append(wires, e),
               e.sentinel \/ (e.id = Len(attempts) /\ Len(attempts') = Len(attempts) + 1)
        PROVE  <1>4
    BY <2>2, WiresGrow, TypesOf
  <2> QED
    BY <1>1, <2>1, <2>2, SenderPuts
<1>5. \A w \in DOMAIN wires : copies'[w] = copies[w] /\ (Data(w)' <=> Data(w))
  BY <1>1, <1>2, <1>4 DEF Data
<1>6. \A w \in DOMAIN wires' : w \notin DOMAIN wires => copies'[w] = 0
  BY <1>1, <1>2
<1>7. copies' \in [DOMAIN wires' -> Nat]
  BY <1>1, <1>2
<1>8. WiresOfAttempts'
  <2>1. \A w \in DOMAIN wires : Data(w) => wires[w].id \in Nat /\ wires[w].id < Len(attempts)
    <3> SUFFICES ASSUME NEW w \in DOMAIN wires, Data(w)
                 PROVE  wires[w].id \in Nat /\ wires[w].id < Len(attempts)
      OBVIOUS
    <3>1. wires[w] \in Wire
      BY TypesOf, ElementOfSeq
    <3> QED
      BY <3>1 DEF Wire, NetInv, WiresOfAttempts
  <2>2. ASSUME NEW w \in DOMAIN wires', Data(w)' PROVE wires'[w].id < Len(attempts')
    <3>1. CASE w \in DOMAIN wires
      BY <1>3, <1>4, <1>5, <2>1, <2>2, <3>1
    <3>2. CASE w \notin DOMAIN wires
      BY <1>3, <1>4, <2>2, <3>2 DEF Data
    <3> QED
      BY <3>1, <3>2
  <2>3. ASSUME NEW v \in DOMAIN wires', NEW w \in DOMAIN wires', Data(v)', Data(w)', v # w
        PROVE  wires'[v].id # wires'[w].id
    <3>1. CASE v \in DOMAIN wires /\ w \in DOMAIN wires
      BY <1>4, <1>5, <2>3, <3>1 DEF NetInv, WiresOfAttempts
    <3>2. CASE v \in DOMAIN wires /\ w \notin DOMAIN wires
      BY <1>3, <1>4, <1>5, <2>1, <2>3, <3>2 DEF Data
    <3>3. CASE v \notin DOMAIN wires /\ w \in DOMAIN wires
      BY <1>3, <1>4, <1>5, <2>1, <2>3, <3>3 DEF Data
    <3>4. CASE v \notin DOMAIN wires /\ w \notin DOMAIN wires
      BY <1>4, <2>3, <3>4
    <3> QED
      BY <3>1, <3>2, <3>3, <3>4
  <2> QED
    BY <2>2, <2>3 DEF WiresOfAttempts
<1>9. Got' = Got /\ Again' = Again
  <2>1. Got' = {wires'[w].id : w \in {v \in DOMAIN wires' : Data(v)' /\ copies'[v] > 0}}
    BY DEF Got, Data
  <2>2. {v \in DOMAIN wires' : Data(v)' /\ copies'[v] > 0} = {v \in DOMAIN wires : Data(v) /\ copies[v] > 0}
    BY <1>4, <1>5, <1>6
  <2>3. Got' = Got
    BY <1>4, <2>1, <2>2 DEF Got
  <2>4. ASSUME NEW w, NEW c \in 2 .. Copies
        PROVE  (w \in DOMAIN wires' /\ ~wires'[w].sentinel /\ c <= copies'[w])
                 <=> (w \in DOMAIN wires /\ ~wires[w].sentinel /\ c <= copies[w])
    BY <1>4, <1>5, <1>6
  <2>5. Again' = Again
    BY <2>4 DEF Again
  <2> QED
    BY <2>3, <2>5
<1>10. FlagIsSentinel' /\ Reported'
  <2>1. \A x : Told(x) => Told(x)'
    BY <1>4 DEF Told
  <2> QED
    BY <1>1, <1>4, <2>1 DEF NetInv, FlagIsSentinel, Reported
<1>11. Counted'
  BY <1>1, <1>9 DEF NetInv, Counted
<1> QED
  BY <1>1, <1>7, <1>8, <1>10, <1>11 DEF NetInv

LEMMA ArriveNet ==
  ASSUME IInv, NetInv, NEW w \in DOMAIN wires, ArriveData(w) \/ ArriveSentinel(w)
  PROVE  NetInv'
<1>1. /\ copies' = [copies EXCEPT ![w] = @ + 1] /\ MayArrive(w)
      /\ UNCHANGED <<plan, attempts, wires, sentCount, recv, result, halfRead>>
      /\ recv # "done" /\ net = "receive"
  BY DEF ArriveData, ArriveSentinel, Receives, senderVars, mainVars
<1>2. /\ DOMAIN copies = DOMAIN wires /\ \A v \in DOMAIN wires : copies[v] \in Nat
      /\ copies' \in [DOMAIN wires' -> Nat]
      /\ copies'[w] = copies[w] + 1
      /\ \A v \in DOMAIN wires : v # w => copies'[v] = copies[v]
  BY <1>1 DEF NetInv
<1>3. WiresOfAttempts' /\ \A x : Told(x)' <=> Told(x)
  BY <1>1 DEF NetInv, WiresOfAttempts, Data, Told
<1>4. /\ Got' = {wires[v].id : v \in {u \in DOMAIN wires : Data(u) /\ copies'[u] > 0}}
      /\ Again' = {p \in (DOMAIN wires) \X (2 .. Copies) : ~wires[p[1]].sentinel /\ p[2] <= copies'[p[1]]}
  BY <1>1 DEF Got, Again, Data
<1>5. CASE wires[w].sentinel
  <2>1. flag' /\ net' = "count" /\ cur' = w /\ UNCHANGED <<accepted, overflow>>
    BY <1>5 DEF ArriveData, ArriveSentinel
  <2>2. FlagIsSentinel' /\ Reported'
    BY <1>1, <1>3, <1>5, <2>1 DEF NetInv, FlagIsSentinel, Reported
  <2>3. Got' = Got
    BY <1>2, <1>4, <1>5 DEF Got, Data
  <2>4. Again' = Again
    BY <1>2, <1>4, <1>5 DEF Again
  <2> QED
    BY <1>1, <1>2, <1>3, <2>1, <2>2, <2>3, <2>4 DEF NetInv, Counted
<1>6. CASE ~wires[w].sentinel
  <2>1. /\ accepted' \in Nat /\ overflow' \in Nat
        /\ accepted' + overflow' = accepted + overflow + 1
        /\ overflow' = overflow \/ overflow' = overflow + 1
        /\ UNCHANGED <<flag, cur>> /\ net' = NextReceive
    BY <1>6 DEF ArriveData, ArriveSentinel, NetInv, Counted
  <2>2. FlagIsSentinel' /\ Reported'
    <3>1. net' \in {"receive", "ended"} /\ (recv \in {"finalize", "done"} => net' = "ended")
      BY <2>1 DEF NextReceive, StopAsked
    <3>2. FlagIsSentinel'
      BY <1>1, <1>3, <2>1, <3>1 DEF NetInv, FlagIsSentinel
    <3> QED
      BY <1>1, <1>3, <2>1, <3>1, <3>2 DEF NetInv, Reported
  <2>3. Data(w)
    BY <1>6 DEF Data
  <2>4. CASE copies[w] = 0
    <3>1. Got' = Got \cup {wires[w].id}
      <4>1. {u \in DOMAIN wires : Data(u) /\ copies'[u] > 0} =
              {u \in DOMAIN wires : Data(u) /\ copies[u] > 0} \cup {w}
        BY <1>2, <2>3, <2>4
      <4> QED
        BY <1>4, <4>1 DEF Got
    <3>2. wires[w].id \notin Got
      BY SMTT(30), <2>3, <2>4, <1>2 DEF Got, NetInv, WiresOfAttempts
    <3>3. Cardinality(Got') = Cardinality(Got) + 1
      BY <3>1, <3>2, GotFinite, FS_AddElement
    <3>4. ASSUME NEW v \in DOMAIN wires, NEW c \in 2 .. Copies
          PROVE  c <= copies'[v] <=> c <= copies[v]
      BY <1>2, <2>4
    <3>5. Again' = Again
      BY <1>4, <3>4 DEF Again
    <3>7. accepted' + overflow' = Cardinality(Got') + Cardinality(Again')
      <4>1. accepted + overflow = Cardinality(Got) + Cardinality(Again)
        BY DEF NetInv, Counted
      <4>2. Cardinality(Got) \in Nat /\ Cardinality(Again) \in Nat
        BY GotFinite
      <4> QED
        BY <2>1, <3>3, <3>5, <4>1, <4>2
    <3> QED
      BY <1>1, <1>2, <1>3, <2>1, <2>2, <3>7 DEF NetInv, Counted
  <2>5. CASE copies[w] # 0
    <3>1. Got' = Got
      BY SMTT(30), <1>2, <1>4, <2>5 DEF Got
    <3>2. copies[w] + 1 \in 2 .. Copies
      BY <1>1, <1>2, <2>5, EndToEndAssumption DEF MayArrive
    <3>3. ASSUME NEW v \in DOMAIN wires, NEW c \in 2 .. Copies
          PROVE  c <= copies'[v] <=> c <= copies[v] \/ (v = w /\ c = copies[w] + 1)
      BY <1>2
    <3>4. Again' = Again \cup {<<w, copies[w] + 1>>}
      BY <1>4, <1>6, <3>2, <3>3 DEF Again
    <3>5. <<w, copies[w] + 1>> \notin Again
      BY <1>2 DEF Again
    <3>6. Cardinality(Again') = Cardinality(Again) + 1
      BY <3>4, <3>5, GotFinite, FS_AddElement
    <3>7. accepted' + overflow' = Cardinality(Got') + Cardinality(Again')
      <4>1. accepted + overflow = Cardinality(Got) + Cardinality(Again)
        BY DEF NetInv, Counted
      <4>2. Cardinality(Got) \in Nat /\ Cardinality(Again) \in Nat
        BY GotFinite
      <4> QED
        BY <2>1, <3>1, <3>6, <4>1, <4>2
    <3> QED
      BY <1>1, <1>2, <1>3, <2>1, <2>2, <3>7 DEF NetInv, Counted
  <2> QED
    BY <2>4, <2>5
<1> QED
  BY <1>5, <1>6

LEMMA OtherNet ==
  ASSUME IInv, NetInv,
         \/ SetCount \/ GetReady \/ StopWaiting \/ ReadSent \/ ReadOverflow \/ Finalize
         \/ Time \/ UNCHANGED vars
  PROVE  NetInv'
<1> USE DEF RecvGoto
<1>1. UNCHANGED <<plan, attempts, wires, copies, flag, accepted, overflow>>
  BY DEF SetCount, GetReady, StopWaiting, ReadSent, ReadOverflow, Finalize, Time, Tick, vars,
         senderVars, receiverVars, netVars
<1>2. Got' = Got /\ Again' = Again /\ WiresOfAttempts' /\ \A x : Told(x)' <=> Told(x)
  BY <1>1 DEF Got, Again, Data, NetInv, WiresOfAttempts, Told
<1>3. Counted'
  BY <1>1, <1>2 DEF NetInv, Counted
<1> DEFINE Record == result = [f \in {"sent", "received", "overflow", "waiting"} |-> result[f]]
<1>4. FlagIsSentinel' /\ Reported' /\ Record'
  <2>0. FlagIsSentinel /\ Reported /\ Record /\ accepted \in Nat /\ overflow \in Nat
    BY DEF NetInv, Counted
  <2>1. CASE SetCount
    <3>1. /\ net = "count" /\ net' = NextReceive /\ sentCount' = (wires[cur].id + 1) % IdRange
          /\ UNCHANGED <<recv, result, halfRead>>
      BY <2>1 DEF SetCount, mainVars
    <3>2. flag /\ Told(sentCount')
      BY <2>0, <3>1 DEF FlagIsSentinel, Told
    <3>3. net' \in {"receive", "ended"} /\ (recv \in {"finalize", "done"} => net' = "ended")
      BY <3>1 DEF NextReceive, StopAsked
    <3>4. FlagIsSentinel'
      BY <1>1, <1>2, <3>2, <3>3 DEF FlagIsSentinel
    <3> QED
      BY <1>1, <1>2, <2>0, <3>1, <3>3, <3>4 DEF Reported
  <2>2. CASE ~SetCount
    <3>1. UNCHANGED <<net, cur, sentCount>>
      BY <2>2 DEF GetReady, StopWaiting, ReadSent, ReadOverflow, Finalize, Time, vars,
                  receiverVars, netVars
    <3>2. FlagIsSentinel'
      BY <1>1, <1>2, <2>0, <3>1 DEF FlagIsSentinel
    <3>3. CASE ReadSent
      <4>1. /\ recv' = "overflow" /\ halfRead' = (net = "count" /\ sentCount = 0)
            /\ result' = [result EXCEPT !.sent = IF flag THEN sentCount ELSE Null]
        BY <3>3 DEF ReadSent
      <4>2. result'.sent = IF flag THEN sentCount ELSE Null
        BY <2>0, <4>1
      <4>3. halfRead' => result'.sent = 0
        BY <2>0, <4>1, <4>2 DEF FlagIsSentinel
      <4>4. result'.sent # Null /\ ~halfRead' => Told(result'.sent)
        BY <2>0, <4>1, <4>2 DEF FlagIsSentinel
      <4>5. Reported'
        BY <1>2, <4>1, <4>3, <4>4 DEF Reported
      <4> QED
        BY <2>0, <3>2, <4>1, <4>5
    <3>4. CASE ReadOverflow
      <4>1. /\ recv' = "finalize" /\ UNCHANGED halfRead
            /\ result' = [result EXCEPT !.overflow = overflow]
        BY <3>4 DEF ReadOverflow
      <4>2. result'.sent = result.sent /\ result'.overflow = overflow
        BY <2>0, <4>1
      <4>3. Reported'
        BY <1>1, <1>2, <2>0, <4>1, <4>2 DEF Reported
      <4> QED
        BY <2>0, <3>2, <4>1, <4>3
    <3>5. CASE Finalize
      <4>1. recv = "finalize" /\ recv' = "done" /\ UNCHANGED halfRead
        BY <3>5 DEF Finalize
      <4>2. PICK waiting \in 0 .. accepted :
              result' = [result EXCEPT !.received = accepted - waiting, !.waiting = waiting]
        BY <3>5 DEF Finalize
      <4>3. /\ result'.sent = result.sent /\ result'.overflow = result.overflow
            /\ result'.waiting = waiting /\ result'.received = accepted - waiting
        BY <2>0, <4>2
      <4>4. Reported'
        BY <1>1, <1>2, <2>0, <3>1, <4>1, <4>3 DEF Reported
      <4> QED
        BY <2>0, <3>2, <4>2, <4>4
    <3>6. CASE GetReady \/ StopWaiting \/ Time \/ UNCHANGED vars
      <4>1. UNCHANGED <<result, halfRead>> /\ (recv' = recv \/ recv' \notin {"finalize", "done"})
        BY <3>6 DEF GetReady, StopWaiting, Time, vars, receiverVars, mainVars
      <4> QED
        BY <1>1, <1>2, <2>0, <3>1, <3>2, <4>1 DEF Reported
    <3> QED
      BY <2>2, <3>3, <3>4, <3>5, <3>6
  <2> QED
    BY <2>1, <2>2
<1> QED
  BY <1>1, <1>2, <1>3, <1>4 DEF NetInv

LEMMA NetworkInv == EndToEndSpec => [](IInv /\ NetInv)
<1>1. EndToEndInit => NetInv
  <2> SUFFICES ASSUME EndToEndInit PROVE NetInv
    OBVIOUS
  <2>1. /\ wires = <<>> /\ copies = <<>> /\ accepted = 0 /\ overflow = 0 /\ recv = "off"
        /\ flag = FALSE /\ sentCount = 0 /\ net = "receive" /\ halfRead = FALSE
        /\ result = [sent |-> Null, received |-> 0, overflow |-> 0, waiting |-> 0]
    BY DEF EndToEndInit, Init
  <2>2. Got = {} /\ Again = {}
    BY <2>1 DEF Got, Again
  <2>3. Counted
    BY <2>1, <2>2, FS_EmptySet DEF Counted
  <2> QED
    BY <2>1, <2>3 DEF NetInv, WiresOfAttempts, FlagIsSentinel, Reported
<1>2. IInv /\ NetInv /\ [Next]_vars => NetInv'
  BY SendsNet, ArriveNet, OtherNet DEF Next
<1> QED
  BY <1>1, <1>2, RunHasASender, SenderInv, PTL DEF EndToEndSpec

(* The sentinel says how many messages there were.                         *)
LEMMA ToldCounts ==
  ASSUME IInv, NetInv, NEW x, Told(x)
  PROVE  /\ x = Len(attempts) /\ Len(attempts) = Total("warmup") + Total("measured")
         /\ Len(attempts) \in Nat
<1>1. PICK w \in DOMAIN wires : wires[w].sentinel /\ x = (wires[w].id + 1) % IdRange
  BY DEF Told
<1>2. /\ x = Len(attempts) % IdRange
      /\ Len(attempts) = Total("warmup") + Total("measured")
  BY <1>1 DEF IInv, SentinelCountsAttempts
<1>3. Total("warmup") + Total("measured") < IdRange
  BY FewMessages DEF Total, IInv, TypeOK
<1>4. Len(attempts) \in 0 .. IdRange - 1
  <2>1. PICK n \in Nat : n = Len(attempts)
    BY TypesOf
  <2>2. n < IdRange
    BY <1>2, <1>3, <2>1
  <2>3. n \in 0 .. IdRange - 1
    BY <2>2, TypesOf
  <2> QED
    BY <2>1, <2>3
<1>5. Len(attempts) % IdRange = Len(attempts)
  <2>1. PICK n \in 0 .. IdRange - 1 : n = Len(attempts)
    BY <1>4
  <2> QED
    BY <2>1, SmallRemainder, TypesOf
<1> QED
  BY <1>2, <1>5, TypesOf

LEMMA LossCounted == IInv /\ NetInv => LossIsWhatIsMissing
<1>0. ASSUME NetInv, halfRead PROVE result.sent = 0
  BY <1>0 DEF NetInv, Reported
<1> SUFFICES ASSUME IInv, NetInv, recv = "done", result.sent # Null, ~halfRead
             PROVE  /\ result.sent - result.received =
                         Cardinality({id \in 0 .. result.sent - 1 : Arrivals(id) = {}})
                           + overflow + result.waiting - Repeats
                    /\ overflow - result.overflow \in {0, 1}
  BY <1>0 DEF LossIsWhatIsMissing
<1> DEFINE n == Len(attempts)
           missing == {id \in 0 .. n - 1 : Arrivals(id) = {}}
<1>1. /\ result.sent = n /\ n \in Nat /\ overflow - result.overflow \in {0, 1}
      /\ result.waiting \in 0 .. accepted /\ result.received = accepted - result.waiting
      /\ accepted \in Nat /\ overflow \in Nat
      /\ accepted + overflow = Cardinality(Got) + Cardinality(Again)
  BY ToldCounts DEF NetInv, Reported, Counted
<1>2. missing = (0 .. n - 1) \ Got
  <2>1. ASSUME NEW id PROVE Arrivals(id) # {} <=> id \in Got
    BY DEF Arrivals, Got, Data
  <2> QED
    BY <2>1
<1>3. /\ IsFiniteSet(0 .. n - 1) /\ Cardinality(0 .. n - 1) = n
  <2>1. n - 1 \in Int /\ 0 \in Int
    BY <1>1
  <2>2. /\ IsFiniteSet(0 .. n - 1)
        /\ Cardinality(0 .. n - 1) = IF 0 > n - 1 THEN 0 ELSE (n - 1) - 0 + 1
    BY <2>1, FS_Interval
  <2> QED
    BY <1>1, <2>2
<1>4. (0 .. n - 1) \cap Got = Got
  <2>1. Got \subseteq 0 .. n - 1
    BY GotFinite
  <2> HIDE DEF n
  <2> QED
    BY <2>1
<1>5. Cardinality(missing) = n - Cardinality(Got)
  <2>1. Cardinality((0 .. n - 1) \ Got) = Cardinality(0 .. n - 1) - Cardinality((0 .. n - 1) \cap Got)
    BY <1>3, FS_Difference
  <2> HIDE DEF missing
  <2> QED
    BY <1>2, <1>3, <1>4, <2>1
<1>6. Repeats = Cardinality(Again)
  BY DEF Repeats, Again
<1> HIDE DEF missing, n
<1>7. n - (accepted - result.waiting) =
        Cardinality(missing) + overflow + result.waiting - Cardinality(Again)
  <2>1. Cardinality(Got) \in Nat /\ Cardinality(Again) \in Nat
    BY GotFinite
  <2>2. result.waiting \in Nat
    BY <1>1
  <2> QED
    BY <1>1, <1>5, <2>1, <2>2
<1> QED
  BY <1>1, <1>6, <1>7 DEF missing

-----------------------------------------------------------------------------
(* The sentinel in time.  A sender whose sends take no longer than the     *)
(* interval is never behind its schedule: it takes message i of a phase no *)
(* later than i intervals after t_start.                                   *)

Limit == connectedAt + Interval * Total("warmup") + Interval * Total("measured")

Timely ==
  /\ phase = "warmup" => tStart = connectedAt
  /\ phase = "measured" => tStart <= connectedAt + Interval * Total("warmup")
  /\ pc \in {"loop", "sending"} => Taken <= tStart + Interval * i
  /\ pc = "pace" => attempts[Len(attempts)].ended <= tStart + Interval * (i + 1)
  /\ pc = "sentinel" => now <= Limit
  /\ pc \in {"disconnect", "exited"} =>
       \A w \in DOMAIN wires : wires[w].sentinel => wires[w].at <= Limit

SentinelTimed ==
  /\ pc = "start" => connectedAt = Null
  /\ pc # "start" => connectedAt \in Nat
  /\ pc \notin {"start", "died"} /\ OnTime => Timely

(* While a receiver waits, what a stream carries is not late.              *)
Punctual ==
  /\ plan.stream /\ connectedAt # Null /\ OnTime /\ WaitFits
  /\ (connectedAt - readyAt) + Latency < Second * plan.extra

NoneCame == pc = "died" \/ (pc \in {"disconnect", "exited"} /\ NoSentinel)

(* The receiver has given up without the sentinel.                         *)
Unseen ==
  \/ recv = "stopping" /\ ~flag
  \/ recv \in {"overflow", "finalize", "done"} /\ result.sent = Null

Waited ==
  /\ recv = "off" /\ plan.stream => pc \in {"start", "died"} /\ wires = <<>>
  /\ recv # "off" => readyAt \in Nat
  /\ recv = "ready" /\ plan.stream =>
       \A w \in DOMAIN wires : copies[w] = 0 => now - wires[w].at <= Latency
  /\ ~flag => \A w \in DOMAIN wires : wires[w].sentinel => copies[w] = 0
  /\ Unseen /\ Punctual => NoneCame

TimeInv == SInv /\ NetInv /\ SentinelTimed /\ Waited

LEMMA Products ==
  ASSUME NEW a \in Nat, NEW b \in Nat
  PROVE  a * b \in Nat /\ a * (b + 1) = a * b + a /\ a * 0 = 0
OBVIOUS

LEMMA Smaller ==
  ASSUME NEW a \in Nat, NEW b \in Nat, NEW c \in Nat, NEW d \in Nat, a * b <= c
  PROVE  a * (d * b) <= c * d
<1>1. PICK x \in Nat : x = a * b
  BY Products
<1>2. x * d <= c * d
  BY <1>1
<1>3. a * (d * b) = x * d
  BY <1>1
<1> QED
  BY <1>2, <1>3

LEMMA Divided ==
  ASSUME NEW s \in Nat, NEW r \in Nat \ {0}
  PROVE  (s \div r) * r <= s
<1>1. /\ s \div r \in Nat /\ s % r \in Nat
      /\ s = r * (s \div r) + (s % r)
  OBVIOUS
<1>2. PICK q \in Nat : q = s \div r
  BY <1>1
<1>3. r * q = q * r /\ r * q \in Nat
  OBVIOUS
<1> QED
  BY <1>1, <1>2, <1>3

(* Both phases fit the seconds they are given.                             *)
LEMMA Span ==
  ASSUME SInv
  PROVE  /\ Interval * Total("warmup") \in Nat /\ Interval * Total("measured") \in Nat
         /\ Interval * Total("warmup") <= Second * plan.warmup
         /\ Interval * Total("measured") <= Second * plan.duration
         /\ Second * plan.warmup \in Nat /\ Second * plan.duration \in Nat
<1>1. /\ Interval \in Nat /\ plan.rate \in Nat /\ plan.warmup \in Nat /\ plan.duration \in Nat
      /\ Total("warmup") \in Nat /\ Total("measured") \in Nat /\ Second \in Nat
  BY SInvTypes, SenderAssumption
<1>2. Interval * plan.rate <= Second
  <2>1. CASE plan.rate = 0
    BY <1>1, <2>1, Products
  <2>2. CASE plan.rate # 0
    <3>1. Interval = Second \div plan.rate
      BY <2>2 DEF Interval, Burst
    <3>2. (Second \div plan.rate) * plan.rate <= Second
      BY <1>1, <2>2, Divided
    <3> QED
      BY <3>1, <3>2
  <2> QED
    BY <2>1, <2>2
<1>3. /\ Total("warmup") = plan.warmup * plan.rate
      /\ Total("measured") = plan.duration * plan.rate
  BY DEF Total
<1> QED
  BY <1>1, <1>2, <1>3, Smaller, Products

(* What was in time before is in time as long as nobody dies.              *)
LEMMA OnTimeBefore ==
  ASSUME SInv, [SenderNext]_senderVars, OnTime', pc' # "died"
  PROVE  OnTime
<1>1. plan' = plan /\ Interval' = Interval
  <2>1. plan' = plan
    BY DEF SenderNext, SenderStep, senderVars, Connect, Die, Take, EncodingFails, SendFails,
           SendSucceeds, Returns, Pace, EndWarmup, EndMeasurement, SendSentinel, Disconnect, Tick
  <2> QED
    BY <2>1 DEF Interval, Burst
<1>2. CASE EncodingFails \/ SendFails \/ SendSucceeds
  <2>1. PICK outcome \in Outcomes : Returns(outcome)
    BY <1>2 DEF EncodingFails, SendFails, SendSucceeds, Outcomes
  <2> DEFINE n == Len(attempts)
             a == [id |-> seqId, record |-> payload, phase |-> phase,
                   began |-> began, ended |-> now, outcome |-> outcome]
  <2>2. attempts' = Append(attempts, a)
    BY <2>1 DEF Returns
  <2>3. a \in Attempt /\ a.began = began /\ a.ended = now
    BY SInvTypes, <2>1 DEF Attempt
  <2> HIDE DEF a
  <2>4. /\ DOMAIN attempts' = 1 .. n + 1 /\ attempts'[n + 1] = a
        /\ \A k \in 1 .. n : attempts'[k] = attempts[k]
        /\ DOMAIN attempts = 1 .. n /\ n \in Nat
    BY <2>2, <2>3, SInvTypes, AppendProperties
  <2>5. \A k \in DOMAIN attempts' : attempts'[k].ended - attempts'[k].began <= Interval
    BY <1>1 DEF OnTime
  <2>6. \A k \in DOMAIN attempts : attempts[k].ended - attempts[k].began <= Interval
    BY <2>4, <2>5
  <2>7. now - began <= Interval
    <3>1. n + 1 \in DOMAIN attempts'
      BY <2>4
    <3> QED
      BY <2>3, <2>4, <2>5, <3>1
  <2> QED
    BY <2>6, <2>7 DEF OnTime
<1>3. CASE Tick
  <2>1. now' = now + 1 /\ UNCHANGED <<pc, attempts, began>>
    BY <1>3 DEF Tick, sendVars
  <2>2. \A k \in DOMAIN attempts : attempts[k].ended - attempts[k].began <= Interval
    BY <1>1, <2>1 DEF OnTime
  <2>3. pc = "sending" => now - began <= Interval
    <3> SUFFICES ASSUME pc = "sending" PROVE now - began <= Interval
      OBVIOUS
    <3>1. now' - began' <= Interval'
      BY <2>1 DEF OnTime
    <3>2. now' = now + 1 /\ began' = began
      BY <2>1
    <3> QED
      BY <1>1, <3>1, <3>2, SInvTypes
  <2> QED
    BY <2>2, <2>3 DEF OnTime
<1>4. CASE UNCHANGED senderVars
  BY <1>1, <1>4 DEF OnTime, senderVars, sendVars
<1>5. CASE Connect \/ Die \/ Take \/ Pace \/ EndWarmup \/ EndMeasurement \/ SendSentinel \/ Disconnect
  <2>1. attempts' = attempts /\ pc # "sending"
    BY <1>5 DEF Connect, Die, Take, Pace, EndWarmup, EndMeasurement, SendSentinel, Disconnect
  <2> QED
    BY <1>1, <2>1 DEF OnTime
<1> QED
  BY <1>2, <1>3, <1>4, <1>5 DEF SenderNext, SenderStep

LEMMA SamePlan ==
  ASSUME [SenderNext]_senderVars
  PROVE  /\ plan' = plan /\ Interval' = Interval
         /\ Total("warmup")' = Total("warmup") /\ Total("measured")' = Total("measured")
<1>1. plan' = plan
  BY DEF SenderNext, SenderStep, senderVars, Connect, Die, Take, EncodingFails, SendFails,
         SendSucceeds, Returns, Pace, EndWarmup, EndMeasurement, SendSentinel, Disconnect, Tick
<1> QED
  BY <1>1 DEF Interval, Burst, Total

(* One step of a sender that is in time keeps it within its schedule.      *)
LEMMA TimelyStep ==
  ASSUME SInv, SentinelTimed, SenderNext, pc \notin {"start", "died"}, pc' # "died",
         OnTime, OnTime', connectedAt' = connectedAt
  PROVE  Timely'
<1> DEFINE n == Len(attempts)
           W == Interval * Total("warmup")
           D == Interval * Total("measured")
           c == Interval * i
<1>1. /\ phase = "warmup" => tStart = connectedAt
      /\ phase = "measured" => tStart <= connectedAt + W
      /\ pc \in {"loop", "sending"} => Taken <= tStart + c
      /\ pc = "pace" => attempts[n].ended <= tStart + Interval * (i + 1)
      /\ pc = "sentinel" => now <= Limit
      /\ pc \in {"disconnect", "exited"} =>
           \A w \in DOMAIN wires : wires[w].sentinel => wires[w].at <= Limit
  BY DEF SentinelTimed, Timely
<1>2. /\ connectedAt \in Nat /\ W \in Nat /\ D \in Nat /\ c \in Nat
      /\ Interval * (i + 1) = c + Interval /\ Interval \in Nat /\ Interval * 0 = 0
      /\ now \in Nat /\ tStart \in Nat /\ began \in Nat /\ i \in Nat /\ n \in Nat
  BY SInvTypes, Span, Products DEF SentinelTimed
<1>3. /\ plan' = plan /\ Interval' = Interval /\ Limit' = Limit
      /\ Total("warmup")' = Total("warmup") /\ Total("measured")' = Total("measured")
  BY SamePlan DEF Limit
<1>4. Limit = connectedAt + W + D
  BY DEF Limit
<1> HIDE DEF W, D, c
<1>5. SUFFICES
        /\ phase' = "warmup" => tStart' = connectedAt
        /\ phase' = "measured" => tStart' <= connectedAt + W
        /\ pc' \in {"loop", "sending"} => Taken' <= tStart' + Interval * i'
        /\ pc' = "pace" => attempts'[Len(attempts')].ended <= tStart' + Interval * (i' + 1)
        /\ pc' = "sentinel" => now' <= Limit
        /\ pc' \in {"disconnect", "exited"} =>
             \A w \in DOMAIN wires' : wires'[w].sentinel => wires'[w].at <= Limit
  BY <1>3 DEF Timely, W
<1>6. CASE Take
  <2>1. /\ pc = "loop" /\ pc' = "sending" /\ began' = now /\ UNCHANGED <<phase, i, tStart>>
    BY <1>6 DEF Take, loopVars
  <2>2. Taken' = Taken
    BY <2>1 DEF Taken
  <2> QED
    BY <1>1, <2>1, <2>2 DEF c
<1>7. CASE EncodingFails \/ SendFails \/ SendSucceeds
  <2>1. PICK outcome \in Outcomes : Returns(outcome)
    BY <1>7 DEF EncodingFails, SendFails, SendSucceeds, Outcomes
  <2> DEFINE a == [id |-> seqId, record |-> payload, phase |-> phase,
                   began |-> began, ended |-> now, outcome |-> outcome]
  <2>2. /\ pc = "sending" /\ pc' = "pace" /\ attempts' = Append(attempts, a)
        /\ UNCHANGED <<phase, i, tStart>>
    BY <2>1 DEF Returns, loopVars
  <2>3. a \in Attempt /\ a.ended = now
    BY SInvTypes, <2>1 DEF Attempt
  <2> HIDE DEF a
  <2>4. attempts'[Len(attempts')].ended = now
    BY <2>2, <2>3, SInvTypes, AppendProperties
  <2>5. now - began <= Interval /\ began <= tStart + c
    BY <1>1, <2>2 DEF OnTime, Taken
  <2>6. now <= tStart + (c + Interval)
    BY <1>2, <2>5
  <2> QED
    BY <1>1, <1>2, <2>2, <2>4, <2>6
<1>8. CASE Pace
  <2>1. /\ pc = "pace" /\ pc' = "loop" /\ i' = i + 1 /\ UNCHANGED <<phase, tStart, now>>
    BY <1>8 DEF Pace
  <2>2. /\ now = attempts[n].ended \/ now <= WakeTime
        /\ attempts[n].ended <= tStart + (c + Interval)
    BY <1>1, <1>2, <2>1 DEF SInv, Clock
  <2>3. WakeTime = tStart + c
    BY DEF WakeTime, c
  <2>4. now <= tStart + (c + Interval)
    BY <1>2, <2>2, <2>3
  <2>5. Taken' <= tStart' + Interval * i'
    BY <1>2, <2>1, <2>4 DEF Taken
  <2> QED
    BY <1>1, <2>1, <2>5
<1>9. CASE EndWarmup
  <2>1. /\ pc = "loop" /\ pc' = "loop" /\ phase = "warmup" /\ phase' = "measured"
        /\ i >= Total("warmup") /\ i' = 0 /\ tStart' = now /\ now' = now
    BY <1>9 DEF EndWarmup
  <2>2. i = Total("warmup")
    BY <2>1, SInvTypes DEF SInv, IInv, Progress
  <2>3. now <= connectedAt + W
    BY <1>1, <2>1, <2>2 DEF Taken, c, W
  <2>4. Taken' <= tStart' + Interval * i'
    BY <1>2, <2>1 DEF Taken
  <2> QED
    BY <2>1, <2>3, <2>4
<1>10. CASE EndMeasurement
  <2>1. /\ pc = "loop" /\ pc' = "sentinel" /\ phase = "measured"
        /\ i >= Total("measured") /\ UNCHANGED <<phase, i, tStart, now>>
    BY <1>10 DEF EndMeasurement, loopVars
  <2>2. i = Total("measured")
    BY <2>1, SInvTypes DEF SInv, IInv, Progress
  <2>3. now <= tStart + D
    BY <1>1, <2>1, <2>2 DEF Taken, c, D
  <2>4. now <= connectedAt + W + D
    BY <1>1, <1>2, <2>1, <2>3
  <2> QED
    BY <1>1, <1>4, <2>1, <2>4
<1>11. CASE SendSentinel
  <2>1. /\ pc = "sentinel" /\ pc' = "disconnect" /\ UNCHANGED <<phase, tStart>>
        /\ wires' = wires \/ wires' = Append(wires, Sentinel)
    BY <1>11 DEF SendSentinel, loopVars
  <2>2. IInv /\ NoSentinel
    BY <2>1 DEF SInv, IInv, Progress
  <2>3. Sentinel \in Wire /\ Sentinel.at = now
    BY <2>2, SentinelType DEF Sentinel
  <2> HIDE DEF Sentinel
  <2>4. ASSUME NEW w \in DOMAIN wires', wires'[w].sentinel PROVE wires'[w].at = now
    <3>1. CASE wires' = wires
      BY <2>2, <2>4, <3>1 DEF NoSentinel
    <3>2. CASE wires' = Append(wires, Sentinel)
      <4>1. /\ wires'[Len(wires) + 1] = Sentinel
            /\ \A v \in DOMAIN wires : wires'[v] = wires[v]
            /\ w \in DOMAIN wires \/ w = Len(wires) + 1
        BY <2>2, <2>3, <3>2, WiresGrow
      <4> QED
        BY <2>2, <2>3, <2>4, <4>1 DEF NoSentinel
    <3> QED
      BY <2>1, <3>1, <3>2
  <2> QED
    BY <1>1, <2>1, <2>4
<1>12. CASE Disconnect
  BY <1>1, <1>12 DEF Disconnect, loopVars
<1>13. CASE Tick
  <2>1. Waiting /\ now' = now + 1 /\ UNCHANGED <<pc, phase, i, tStart, began, attempts, wires>>
    BY <1>13 DEF Tick, loopVars, sendVars
  <2>2. pc \notin {"loop", "sentinel"}
    BY <2>1 DEF Waiting
  <2>3. pc = "sending" => Taken' = Taken
    BY <2>1 DEF Taken
  <2> QED
    BY <1>1, <2>1, <2>2, <2>3 DEF c
<1> QED
  BY <1>6, <1>7, <1>8, <1>9, <1>10, <1>11, <1>12, <1>13 DEF SenderNext, SenderStep, Connect, Die

LEMMA TimedStep == ASSUME SInv, SentinelTimed, [Next]_vars PROVE SentinelTimed'
<1>1. [SenderNext]_senderVars
  BY ReceiverLeavesSender DEF Next, ReceiverStep, Sends, Time, SenderNext
<1>2. CASE Sends
  <2>1. SenderStep /\ connectedAt' = IF pc = "start" THEN now ELSE connectedAt
    BY <1>2 DEF Sends
  <2>2. pc' # "start" /\ pc # "died" /\ (pc = "start" => Connect \/ Die)
    BY <2>1 DEF SenderStep, Connect, Die, Take, EncodingFails, SendFails, SendSucceeds, Returns,
                Pace, EndWarmup, EndMeasurement, SendSentinel, Disconnect
  <2>3. connectedAt' \in Nat
    BY <2>1, SInvTypes DEF SentinelTimed
  <2>4. ASSUME pc' # "died", OnTime' PROVE Timely'
    <3>1. OnTime
      BY <1>1, <2>4, OnTimeBefore
    <3>2. CASE pc = "start"
      <4>1. /\ pc' = "loop" /\ tStart' = now /\ UNCHANGED <<phase, i, now>>
            /\ phase = "warmup" /\ i = 0 /\ connectedAt' = now
        BY <2>1, <2>2, <2>4, <3>2 DEF Connect, Die, SInv, Clock
      <4>2. Interval' \in Nat /\ Interval' * 0 = 0
        BY <1>1, SamePlan, SInvTypes, Products
      <4>3. Taken' <= tStart' + Interval' * i'
        BY <4>1, <4>2, SInvTypes DEF Taken
      <4> QED
        BY <4>1, <4>3 DEF Timely
    <3>3. CASE pc # "start"
      BY <2>1, <2>2, <2>4, <3>1, <3>3, TimelyStep DEF SenderNext
    <3> QED
      BY <3>2, <3>3
  <2> QED
    BY <2>2, <2>3, <2>4 DEF SentinelTimed
<1>3. CASE Time
  <2>1. Tick /\ connectedAt' = connectedAt /\ pc' = pc
    BY <1>3 DEF Time, Tick
  <2>2. ASSUME pc \notin {"start", "died"}, OnTime' PROVE Timely'
    BY <1>1, <2>1, <2>2, OnTimeBefore, TimelyStep DEF SenderNext
  <2> QED
    BY <2>1, <2>2 DEF SentinelTimed
<1>4. CASE ReceiverStep \/ UNCHANGED vars
  <2>1. UNCHANGED <<senderVars, connectedAt>>
    BY <1>4, ReceiverLeavesSender
  <2>2. (OnTime' <=> OnTime) /\ Limit' = Limit /\ Interval' = Interval /\ Taken' = Taken
        /\ Total("warmup")' = Total("warmup")
    BY <2>1 DEF senderVars, loopVars, sendVars, OnTime, Limit, Interval, Burst, Taken, Total
  <2>3. Timely' <=> Timely
    BY <2>1, <2>2 DEF senderVars, loopVars, sendVars, Timely
  <2> QED
    BY <2>1, <2>2, <2>3 DEF SentinelTimed, senderVars
<1> QED
  BY <1>2, <1>3, <1>4 DEF Next, ReceiverStep

(* Until the sentinel is out no more than the schedule of both phases has  *)
(* passed.                                                                 *)
LEMMA InTime ==
  ASSUME SInv, SentinelTimed, OnTime, pc \in {"loop", "sending", "pace", "sentinel"}
  PROVE  now <= Limit
<1> DEFINE n == Len(attempts)
           W == Interval * Total("warmup")
           D == Interval * Total("measured")
           c == Interval * i
           P == Interval * Total(phase)
<1>1. /\ phase = "warmup" => tStart = connectedAt
      /\ phase = "measured" => tStart <= connectedAt + W
      /\ pc \in {"loop", "sending"} => Taken <= tStart + c
      /\ pc = "pace" => attempts[n].ended <= tStart + Interval * (i + 1)
      /\ pc = "sentinel" => now <= Limit
  BY DEF SentinelTimed, Timely
<1>2. /\ connectedAt \in Nat /\ W \in Nat /\ D \in Nat /\ c \in Nat
      /\ Interval * (i + 1) = c + Interval /\ Interval \in Nat
      /\ now \in Nat /\ tStart \in Nat /\ began \in Nat /\ i \in Nat /\ n \in Nat
  BY SInvTypes, Span, Products DEF SentinelTimed
<1>3. Limit = connectedAt + W + D
  BY DEF Limit
<1>4. phase \in Phases /\ (phase = "warmup" => P = W) /\ (phase = "measured" => P = D)
  BY SInvTypes DEF Phases
<1>5. P \in Nat /\ tStart + P <= Limit
  <2> HIDE DEF W, D, P
  <2>1. CASE phase = "warmup"
    BY <1>1, <1>2, <1>3, <1>4, <2>1
  <2>2. CASE phase = "measured"
    BY <1>1, <1>2, <1>3, <1>4, <2>2
  <2> QED
    BY <1>4, <2>1, <2>2 DEF Phases
<1>6. /\ i <= Total(phase) /\ Total(phase) \in Nat
      /\ pc \in {"sending", "pace"} => i + 1 <= Total(phase)
  BY SInvTypes DEF SInv, IInv, Progress, Phases
<1>7. c <= P /\ (pc \in {"sending", "pace"} => c + Interval <= P)
  <2>1. \A x \in Nat : x <= Total(phase) => Interval * x <= P
    <3>1. ASSUME NEW a \in Nat, NEW x \in Nat, NEW y \in Nat, x <= y PROVE a * x <= a * y
      BY <3>1
    <3> QED
      BY <1>2, <1>6, <3>1
  <2>2. i + 1 \in Nat
    BY <1>2
  <2>3. pc \in {"sending", "pace"} => Interval * (i + 1) <= P
    BY <1>6, <2>1, <2>2
  <2> QED
    BY <1>2, <1>6, <2>1, <2>3
<1>8. Limit \in Nat
  BY <1>2, <1>3
<1> HIDE DEF W, D, P, c, n
<1>9. CASE pc = "loop"
  BY <1>1, <1>2, <1>5, <1>7, <1>8, <1>9 DEF Taken
<1>10. CASE pc = "sending"
  <2>1. now - began <= Interval
    BY <1>10 DEF OnTime
  <2>2. began <= tStart + c
    BY <1>1, <1>10 DEF Taken
  <2> QED
    BY <1>2, <1>5, <1>7, <1>8, <1>10, <2>1, <2>2
<1>11. CASE pc = "pace"
  <2>1. now = attempts[n].ended \/ now <= WakeTime
    BY <1>11 DEF SInv, Clock, n
  <2>2. WakeTime = tStart + c
    BY DEF WakeTime, c
  <2>3. now <= tStart + (c + Interval)
    BY <1>1, <1>2, <1>11, <2>1, <2>2
  <2> QED
    BY <1>2, <1>5, <1>7, <1>8, <1>11, <2>3
<1> QED
  BY <1>1, <1>9, <1>10, <1>11

(* Who gives up at the deadline would have had the sentinel by then.       *)
LEMMA GivesUpLate ==
  ASSUME SInv, NetInv, SentinelTimed, Waited, Punctual,
         recv = "ready", ~flag, now >= Deadline
  PROVE  NoneCame
<1> SUFFICES ASSUME pc # "died" PROVE pc \in {"disconnect", "exited"} /\ NoSentinel
  BY DEF NoneCame
<1>1. pc # "start" /\ connectedAt \in Nat /\ readyAt \in Nat /\ OnTime /\ plan.stream
  BY DEF Punctual, SentinelTimed, Waited
<1>2. Limit + Latency < Deadline
  <2> DEFINE W == Interval * Total("warmup")
             D == Interval * Total("measured")
             w == Second * plan.warmup
             d == Second * plan.duration
             e == Second * plan.extra
  <2>1. /\ W \in Nat /\ D \in Nat /\ W <= w /\ D <= d /\ w \in Nat /\ d \in Nat
        /\ plan.warmup \in Nat /\ plan.duration \in Nat
    BY Span, SInvTypes
  <2>2. plan.extra \in Nat /\ Second \in Nat /\ e \in Nat
    BY SenderAssumption, Products DEF SInv, IInv, TypeOK
  <2>3. Patience = plan.duration + plan.warmup + plan.extra
    <3>1. plan.duration + plan.warmup + plan.extra \in 0 .. CountRange - 1
      BY <2>1, <2>2, EndToEndAssumption DEF Punctual, WaitFits
    <3> QED
      BY <3>1, EndToEndAssumption, SmallRemainder DEF Patience
  <2>4. Second * (plan.duration + plan.warmup + plan.extra) = d + w + e
    BY <2>1, <2>2
  <2>5. Deadline = readyAt + (d + w + e)
    BY <2>3, <2>4 DEF Deadline
  <2>6. (connectedAt - readyAt) + Latency < e
    BY DEF Punctual
  <2>7. Limit = connectedAt + W + D
    BY DEF Limit
  <2>8. Latency \in Nat
    BY EndToEndAssumption
  <2> HIDE DEF W, D, w, d, e
  <2> QED
    BY <1>1, <2>1, <2>2, <2>5, <2>6, <2>7, <2>8
<1>3. Limit \in Nat /\ Latency \in Nat /\ now \in Nat /\ Deadline \in Int
  <2>1. Limit \in Nat
    BY <1>1, Span DEF Limit
  <2>2. Deadline \in Int
    <3>1. plan.duration + plan.warmup + plan.extra \in Nat
      BY SInvTypes, SenderAssumption DEF SInv, IInv, TypeOK
    <3>2. Patience \in Nat
      BY <3>1, EndToEndAssumption DEF Patience
    <3>3. Second * Patience \in Nat
      BY <3>2, SenderAssumption, Products
    <3> QED
      BY <1>1, <3>3 DEF Deadline
  <2> QED
    BY <2>1, <2>2, SInvTypes, EndToEndAssumption
<1>4. pc \in {"disconnect", "exited"}
  <2>1. pc \in {"loop", "sending", "pace", "sentinel"} => FALSE
    BY <1>1, <1>2, <1>3, InTime
  <2> QED
    BY <1>1, <2>1 DEF SInv, IInv, TypeOK
<1>5. NoSentinel
  <2> SUFFICES ASSUME NEW w \in DOMAIN wires, wires[w].sentinel PROVE FALSE
    BY DEF NoSentinel
  <2>1. wires[w].at <= Limit
    BY <1>1, <1>4 DEF SentinelTimed, Timely
  <2>2. now - wires[w].at <= Latency
    BY <1>1 DEF Waited
  <2>3. wires[w].at \in Nat
    <3>1. wires[w] \in Wire
      BY TypesOf, ElementOfSeq DEF SInv
    <3> QED
      BY <3>1 DEF Wire
  <2> QED
    BY <1>2, <1>3, <2>1, <2>2, <2>3
<1> QED
  BY <1>4, <1>5

(* Nothing but death ends the lateness of who did not get the sentinel.    *)
LEMMA NoneComes ==
  ASSUME SInv, [SenderNext]_senderVars, NoneCame
  PROVE  NoneCame'
<1>1. CASE pc = "died"
  <2>1. pc' = pc
    BY <1>1 DEF SenderNext, SenderStep, senderVars, Connect, Die, Take, EncodingFails, SendFails,
                SendSucceeds, Returns, Pace, EndWarmup, EndMeasurement, SendSentinel, Disconnect,
                Tick
  <2> QED
    BY <1>1, <2>1 DEF NoneCame
<1>2. CASE pc \in {"disconnect", "exited"} /\ NoSentinel
  <2>1. wires' = wires /\ pc' \in {"disconnect", "exited", "died"}
    BY <1>2 DEF SenderNext, SenderStep, senderVars, Connect, Die, Take, EncodingFails, SendFails,
                SendSucceeds, Returns, Pace, EndWarmup, EndMeasurement, SendSentinel, Disconnect,
                Tick
  <2> QED
    BY <1>2, <2>1 DEF NoneCame, NoSentinel
<1> QED
  BY <1>1, <1>2 DEF NoneCame

(* The promise to who is punctual, kept by steps that leave the receiver   *)
(* where it is.                                                            *)
LEMMA StillNone ==
  ASSUME SInv, SentinelTimed, Waited, [SenderNext]_senderVars,
         UNCHANGED <<recv, readyAt, flag, result>>,
         connectedAt' = connectedAt \/ (pc = "start" /\ (plan.stream => pc' = "died")),
         Unseen, Punctual'
  PROVE  NoneCame'
<1>1. plan' = plan
  BY SamePlan
<1>2. CASE pc' = "died"
  BY <1>2 DEF NoneCame
<1>3. CASE pc' # "died"
  <2>1. OnTime /\ connectedAt' = connectedAt
    BY <1>1, <1>3, OnTimeBefore DEF Punctual
  <2>2. Punctual
    BY <1>1, <2>1 DEF Punctual, WaitFits
  <2>3. NoneCame
    BY <2>2 DEF Waited
  <2> QED
    BY <2>3, NoneComes
<1> QED
  BY <1>2, <1>3

LEMMA WaitedSends == ASSUME SInv, NetInv, SentinelTimed, Waited, Sends PROVE Waited'
<1>1. /\ SenderStep /\ UNCHANGED <<recv, readyAt, flag, result>>
      /\ plan.stream /\ pc = "start" /\ pc' = "loop" => recv = "ready"
      /\ connectedAt' = IF pc = "start" THEN now ELSE connectedAt
      /\ copies' = [w \in DOMAIN wires' |-> IF w \in DOMAIN copies THEN copies[w] ELSE 0]
      /\ [SenderNext]_senderVars
  BY DEF Sends, receiverVars, netVars, mainVars, SenderNext
<1>2. plan' = plan /\ now' = now
  <2>1. now' = now
    BY <1>1 DEF SenderStep, Connect, Die, Take, EncodingFails, SendFails, loopVars, sendVars,
                SendSucceeds, Returns, Pace, EndWarmup, EndMeasurement, SendSentinel, Disconnect
  <2> QED
    BY <1>1, <2>1, SamePlan
<1>3. pc = "start" => (pc' = "died" \/ pc' = "loop") /\ wires' = wires
  BY <1>1 DEF SenderStep, Connect, Die, Take, EncodingFails, SendFails,
              SendSucceeds, Returns, Pace, EndWarmup, EndMeasurement, SendSentinel, Disconnect
<1>4. pc # "died"
  BY <1>1 DEF SenderStep, Connect, Die, Take, EncodingFails, SendFails,
              SendSucceeds, Returns, Pace, EndWarmup, EndMeasurement, SendSentinel, Disconnect
<1>5. recv' = "off" /\ plan'.stream => pc' \in {"start", "died"} /\ wires' = <<>>
  BY <1>1, <1>2, <1>3, <1>4 DEF Waited
<1>6. recv' # "off" => readyAt' \in Nat
  BY <1>1 DEF Waited
<1>7. /\ \A w \in DOMAIN wires : w \in DOMAIN wires' /\ wires'[w] = wires[w] /\ copies'[w] = copies[w]
      /\ \A w \in DOMAIN wires' : w \in DOMAIN wires \/ (copies'[w] = 0 /\ wires'[w].at = now)
  <2>0. DOMAIN copies = DOMAIN wires
    BY DEF NetInv
  <2>1. CASE wires' = wires
    BY <1>1, <2>0, <2>1
  <2>2. ASSUME NEW e \in Wire, wires' = Append(wires, e), e.at = now PROVE <1>7
    <3>1. /\ DOMAIN wires' = 1 .. Len(wires) + 1 /\ wires'[Len(wires) + 1] = e
          /\ \A w \in DOMAIN wires : w \in DOMAIN wires' /\ wires'[w] = wires[w]
          /\ \A w \in DOMAIN wires' : w \in DOMAIN wires \/ w = Len(wires) + 1
      BY <2>2, WiresGrow DEF SInv
    <3> QED
      BY <1>1, <2>0, <2>2, <3>1
  <2>3. wires' = wires \/ wires' = Append(wires, Message(phase)) \/ wires' = Append(wires, Sentinel)
    BY <1>1 DEF SenderStep, Connect, Die, Take, EncodingFails, SendFails,
                SendSucceeds, Pace, EndWarmup, EndMeasurement, SendSentinel, Disconnect
  <2>4. Message(phase) \in Wire /\ Message(phase).at = now
    BY TypesOf DEF Message, Wire, SInv
  <2>5. Sentinel \in Wire /\ Sentinel.at = now
    BY SentinelType DEF SInv, Sentinel
  <2> HIDE DEF Sentinel, Message
  <2> QED
    BY <2>1, <2>2, <2>3, <2>4, <2>5
<1>8. recv' = "ready" /\ plan'.stream =>
        \A w \in DOMAIN wires' : copies'[w] = 0 => now' - wires'[w].at <= Latency
  <2> SUFFICES ASSUME recv = "ready", plan.stream, NEW w \in DOMAIN wires', copies'[w] = 0
               PROVE  now - wires'[w].at <= Latency
    BY <1>1, <1>2
  <2>1. CASE w \in DOMAIN wires
    BY <1>7, <2>1 DEF Waited
  <2>2. CASE wires'[w].at = now
    BY <2>2, SInvTypes, EndToEndAssumption
  <2> QED
    BY <1>7, <2>1, <2>2
<1>9. ~flag' => \A w \in DOMAIN wires' : wires'[w].sentinel => copies'[w] = 0
  BY <1>1, <1>7 DEF Waited
<1>10. Unseen' /\ Punctual' => NoneCame'
  <2> SUFFICES ASSUME Unseen, Punctual' PROVE NoneCame'
    BY <1>1 DEF Unseen
  <2>1. connectedAt' = connectedAt \/ (pc = "start" /\ (plan.stream => pc' = "died"))
    <3>1. CASE pc = "start"
      BY <1>1, <1>3, <3>1 DEF Unseen
    <3>2. CASE pc # "start"
      BY <1>1, <3>2
    <3> QED
      BY <3>1, <3>2
  <2> QED
    BY <1>1, <2>1, StillNone
<1> QED
  BY <1>5, <1>6, <1>8, <1>9, <1>10 DEF Waited

LEMMA WaitedReceiver ==
  ASSUME SInv, NetInv, SentinelTimed, Waited, ReceiverStep \/ UNCHANGED vars
  PROVE  Waited'
<1>1. UNCHANGED <<senderVars, connectedAt>>
  BY ReceiverLeavesSender
<1>2. UNCHANGED <<plan, pc, now, attempts, began, wires>>
  BY <1>1 DEF senderVars, sendVars
<1>3. (NoneCame' <=> NoneCame) /\ (OnTime' <=> OnTime) /\ (WaitFits' <=> WaitFits)
  BY <1>1, <1>2 DEF NoneCame, NoSentinel, OnTime, WaitFits, Interval, Burst
<1>4. readyAt' = readyAt => (Punctual' <=> Punctual)
  BY <1>1, <1>2, <1>3 DEF Punctual
<1> USE DEF RecvGoto
<1>5. CASE GetReady
  BY <1>2, <1>5, SInvTypes DEF GetReady, Waited, Unseen, netVars
<1>6. CASE StopWaiting
  <2>1. /\ recv = "ready" /\ recv' = "stopping" /\ UNCHANGED <<readyAt, flag, copies>>
        /\ flag \/ now >= Deadline
    BY <1>6 DEF StopWaiting, netVars
  <2>2. ~flag /\ Punctual => NoneCame
    BY <2>1, GivesUpLate
  <2> QED
    BY <1>2, <1>3, <1>4, <2>1, <2>2 DEF Waited, Unseen
<1>7. CASE ReadSent
  <2>1. /\ recv = "stopping" /\ recv' = "overflow" /\ UNCHANGED <<readyAt, flag, copies>>
        /\ result' = [result EXCEPT !.sent = IF flag THEN sentCount ELSE Null]
    BY <1>7 DEF ReadSent, netVars
  <2>2. flag => sentCount # Null
    <3>1. ASSUME NEW w \in DOMAIN wires PROVE (wires[w].id + 1) % IdRange # Null
      <4>1. wires[w] \in Wire
        BY TypesOf, ElementOfSeq DEF SInv
      <4>2. PICK x \in Int : x = wires[w].id + 1
        BY <4>1 DEF Wire
      <4>3. x % IdRange \in 0 .. IdRange - 1
        BY Successor, SenderAssumption
      <4> QED
        BY <4>2, <4>3, SenderAssumption, EndToEndAssumption
    <3>2. 0 # Null
      BY EndToEndAssumption
    <3> QED
      BY <3>1, <3>2 DEF NetInv, FlagIsSentinel, Told
  <2>3. result'.sent = IF flag THEN sentCount ELSE Null
    BY <2>1 DEF NetInv
  <2> QED
    BY <1>2, <1>3, <1>4, <2>1, <2>2, <2>3 DEF Waited, Unseen
<1>8. CASE ReadOverflow \/ Finalize
  <2>1. /\ recv \in {"overflow", "finalize"} /\ recv' \in {"finalize", "done"}
        /\ UNCHANGED <<readyAt, flag, copies>> /\ result'.sent = result.sent
    BY <1>8 DEF ReadOverflow, Finalize, netVars, NetInv
  <2> QED
    BY <1>2, <1>3, <1>4, <2>1 DEF Waited, Unseen
<1>9. CASE SetCount \/ UNCHANGED vars
  <2>1. UNCHANGED <<readyAt, flag, copies, recv, result>>
    BY <1>9 DEF SetCount, vars, receiverVars, netVars, mainVars
  <2> QED
    BY <1>2, <1>3, <1>4, <2>1 DEF Waited, Unseen
<1>10. ASSUME NEW w \in DOMAIN wires, ArriveData(w) \/ ArriveSentinel(w) PROVE Waited'
  <2>1. /\ recv \notin {"off", "done"} /\ UNCHANGED <<recv, readyAt, result>>
        /\ copies' = [copies EXCEPT ![w] = @ + 1]
        /\ IF wires[w].sentinel THEN flag' ELSE flag' = flag
    BY <1>10 DEF ArriveData, ArriveSentinel, Receives, mainVars
  <2>2. /\ DOMAIN copies = DOMAIN wires /\ copies[w] \in Nat
        /\ copies'[w] = copies[w] + 1
        /\ \A v \in DOMAIN wires : v # w => copies'[v] = copies[v]
    BY <2>1 DEF NetInv
  <2>3. copies'[w] # 0
    BY <2>2
  <2>4. Unseen' => Unseen
    BY <2>1 DEF Unseen, NetInv, FlagIsSentinel
  <2> QED
    BY <1>2, <1>3, <1>4, <2>1, <2>2, <2>3, <2>4 DEF Waited
<1> QED
  BY <1>5, <1>6, <1>7, <1>8, <1>9, <1>10 DEF ReceiverStep

LEMMA WaitedTime == ASSUME SInv, NetInv, SentinelTimed, Waited, Time PROVE Waited'
<1>1. /\ Tick /\ UNCHANGED <<copies, connectedAt, recv, readyAt, flag, result>>
      /\ recv = "ready" => \A w \in DOMAIN wires : ~Due(w)
      /\ [SenderNext]_senderVars
  BY DEF Time, receiverVars, netVars, mainVars, SenderNext
<1>2. now' = now + 1 /\ UNCHANGED <<plan, pc, wires>>
  BY <1>1 DEF Tick
<1>3. recv = "ready" /\ plan.stream =>
        \A w \in DOMAIN wires : copies[w] = 0 => now' - wires[w].at <= Latency
  <2> SUFFICES ASSUME recv = "ready", plan.stream, NEW w \in DOMAIN wires, copies[w] = 0
               PROVE  now' - wires[w].at <= Latency
    OBVIOUS
  <2>1. ~(now - wires[w].at >= Latency)
    BY <1>1 DEF Due
  <2>2. wires[w].at \in Nat
    <3>1. wires[w] \in Wire
      BY TypesOf, ElementOfSeq DEF SInv
    <3> QED
      BY <3>1 DEF Wire
  <2> QED
    BY SMTT(30), <1>2, <2>1, <2>2, SInvTypes, EndToEndAssumption
<1>4. Unseen' /\ Punctual' => NoneCame'
  BY <1>1, StillNone DEF Unseen
<1> QED
  BY <1>1, <1>2, <1>3, <1>4 DEF Waited

LEMMA TimedInv == EndToEndSpec => []TimeInv
<1>1. EndToEndInit => SentinelTimed /\ Waited
  BY DEF EndToEndInit, Init, SentinelTimed, Waited, Unseen
<1>2. SInv /\ NetInv /\ SentinelTimed /\ Waited /\ [Next]_vars => (SentinelTimed /\ Waited)'
  BY TimedStep, WaitedSends, WaitedReceiver, WaitedTime DEF Next, ReceiverStep
<1>3. SInv /\ NetInv /\ SentinelTimed /\ Waited <=> TimeInv
  BY DEF TimeInv
<1> QED
  BY <1>1, <1>2, <1>3, NetworkInv, RunHasASender, PacedInv, PTL DEF EndToEndSpec

LEMMA TimeInvInTime == TimeInv => SentinelInTime
<1> SUFFICES ASSUME TimeInv, recv = "done", Punctual
             PROVE  \/ result.sent = Total("warmup") + Total("measured")
                    \/ halfRead /\ result.sent = 0
                    \/ NoneCame
  BY DEF SentinelInTime, Punctual, NoneCame, NoSentinel
<1>1. CASE result.sent = Null
  BY <1>1 DEF TimeInv, Waited, Unseen
<1>2. CASE result.sent # Null /\ ~halfRead
  <2>1. Told(result.sent)
    BY <1>2 DEF TimeInv, NetInv, Reported
  <2> QED
    BY <2>1, ToldCounts DEF TimeInv, SInv
<1>3. CASE halfRead
  BY <1>3 DEF TimeInv, NetInv, Reported
<1> QED
  BY <1>1, <1>2, <1>3

-----------------------------------------------------------------------------
(* The state of the sender process is well typed.                          *)
THEOREM SenderTypeCorrect == Spec => []TypeOK
<1>1. IInv => TypeOK
  BY DEF IInv
<1> QED
  BY <1>1, SenderInv, PTL

(* Whatever fails, the ids number the calls of send through both phases,   *)
(* and say which record a message carries and whether it is warmup.        *)
THEOREM RecordsFollowIdsAlways == EndToEndSpec => []RecordsFollowIds
<1>1. IInv => RecordsFollowIds
  BY DEF IInv
<1> QED
  BY <1>1, RunHasASender, SenderInv, PTL

(* A sentinel that leaves leaves last and tells the number of calls of     *)
(* send, all of both phases, to a receiver that adds one in 64 bits.       *)
THEOREM SentinelCountsAttemptsAlways == EndToEndSpec => []SentinelCountsAttempts
<1>1. IInv => SentinelCountsAttempts
  BY DEF IInv
<1> QED
  BY <1>1, RunHasASender, SenderInv, PTL

(* Whatever the sends take and whichever fail, a message leaves when the   *)
(* one before it is done and it is due, an interval after the one before   *)
(* by a schedule that never shifts.                                        *)
THEOREM KeepsScheduleAlways == EndToEndSpec => []KeepsSchedule
BY RunHasASender, PacedInv, ScheduleKept, PTL

(* Whatever fails, sender_log.csv is the list of the sends that succeeded, *)
(* in order, and each of its messages is on the network.                   *)
THEOREM LogIsWhatLeftAlways == EndToEndSpec => []LogIsWhatLeft
<1>1. LInv => LogIsWhatLeft
  BY DEF LInv
<1> QED
  BY <1>1, RunHasASender, LogInv, PTL

(* Whatever is lost, repeated, overtaken or refused, and however the two   *)
(* threads of the receiver take turns, the loss in summary.json is the     *)
(* messages of which nothing arrived, those refused and those not yet      *)
(* processed, less every arrival after a first; its overflow misses one    *)
(* refusal at most; and a count read before it was stored is 0.            *)
THEOREM LossIsWhatIsMissingAlways == EndToEndSpec => []LossIsWhatIsMissing
BY NetworkInv, LossCounted, PTL

(* A receiver that is ready early enough for its extra time never gives up *)
(* before the sentinel of a sender in time, if the wait fits 32 bits, and  *)
(* reports its count unless it reads it between the two stores.            *)
THEOREM SentinelInTimeAlways == EndToEndSpec => []SentinelInTime
BY TimedInv, TimeInvInTime, PTL
===============================================================================
