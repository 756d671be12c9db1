--------------------------- MODULE TransportsProofs ---------------------------
(***************************************************************************)
(* TCP, ZeroMQ and MQTT for any number of senders, messages of any size,   *)
(* queues of any length and any number of failures.  One invariant each:   *)
(* they share what the interface of Sender and Receiver shows, and leave   *)
(* each other's variables alone.                                           *)
(***************************************************************************)
EXTENDS Transports, SequenceTheorems, FiniteSetTheorems, TLAPS

(* A thread that has handed a message up since stop() returned finds the   *)
(* request to stop before it could take another.                           *)
TcpLate ==
  protocol = "tcp" =>
    \A s \in Senders :
      late[s] # 0 => stopped /\ late[s] = 1 /\ thread[s] \in {"test", "exited"}

ZmqLate ==
  protocol = "zmq_tcp" =>
    /\ stopped => asked
    /\ \A s \in Senders :
         late[s] # 0 => stopped /\ late[s] = 1 /\ loop \in {"test", "exited"}

MqttLate ==
  protocol = "mqtt_tcp" =>
    /\ stopped <=> session = "closed"
    /\ \A s \in Senders : late[s] # 0 => stopped /\ late[s] = 1 /\ callback = Nothing

(* A message a sender waits for has been published.                        *)
MqttPublished ==
  protocol = "mqtt_tcp" => \A s \in Senders : publish[s] # "idle" => <<s, at[s]>> \in out

(* What can be in a queue of ZeroMQ: single frames, or, from a publisher   *)
(* with a topic, pairs, and these only if the receiver wants the topic.    *)
Wanted == topic.sender # <<>> /\ ZMQ!StartsWith(topic.sender, topic.receiver)

Carried ==
  IF pattern = "pub_sub" /\ topic.sender # <<>>
  THEN {m \in {<<Topic, w>> : w \in Wires} : Wanted}
  ELSE {<<w>> : w \in Wires}

ZmqFramed ==
  /\ queue \in [Senders -> Seq(Carried)]
  /\ loop = "more" => pattern = "pub_sub" /\ frames \in Carried
  /\ loop = "hand" => (\E w \in Wires : frames = <<w>>) /\ (pattern = "pub_sub" => Wanted)
  /\ protocol = "zmq_tcp" /\ pattern = "pub_sub" /\ handed # <<>> => Wanted

TransportsInv ==
  TypeOK /\ TcpLate /\ ZmqLate /\ MqttLate /\ MqttPublished /\ ZmqFramed

-----------------------------------------------------------------------------
LEMMA CountIsNat == Count \in Nat \ {0} /\ TCP!Numbers = 1 .. Count /\ ZMQ!Numbers = 1 .. Count
                    /\ MQTT!Numbers = 1 .. Count
BY TransportsAssumption DEF Count, TCP!Numbers, ZMQ!Numbers, MQTT!Numbers

LEMMA SizeOfMessage == ASSUME NEW n \in TCP!Numbers PROVE Sizes[n] \in Nat
BY TransportsAssumption DEF TCP!Numbers

LEMMA UnitsAreUnits ==
  ASSUME NEW n \in TCP!Numbers
  PROVE  TCP!Units(n) \in Seq(Unit) /\ Len(TCP!Units(n)) = Sizes[n] + 2
<1>1. Sizes[n] + 2 \in Nat
  BY SizeOfMessage
<1>2. TCP!Units(n) \in [1 .. Sizes[n] + 2 -> Unit]
  BY <1>1 DEF TCP!Units, Unit
<1> QED
  BY <1>1, <1>2, SeqDef

LEMMA PartOfUnits ==
  ASSUME NEW n \in TCP!Numbers, NEW k \in 0 .. Sizes[n] + 2
  PROVE  SubSeq(TCP!Units(n), 1, k) \in Seq(Unit)
BY UnitsAreUnits, SizeOfMessage, SubSeqProperties

LEMMA Prefix ==
  ASSUME NEW S, NEW q \in Seq(S), NEW k \in 0 .. Len(q)
  PROVE  SubSeq(q, 1, k) \in Seq(S) /\ SubSeq(q, k + 1, Len(q)) \in Seq(S)
BY SubSeqProperties

LEMMA InitInv == Init => TransportsInv
<1> SUFFICES ASSUME Init PROVE TransportsInv
  OBVIOUS
<1> USE CountIsNat DEF Init
<1>1. TCP!Init /\ ZMQ!Init /\ MQTT!Init
  OBVIOUS
<1>2. TcpTyped
  BY <1>1 DEF TCP!Init, TcpTyped
<1>3. ZmqTyped /\ queue \in [Senders -> Seq(Carried)] /\ loop = "test"
  <2>1. /\ <<>> \in Seq(Seq(Frame)) /\ <<>> \in Seq(Carried) /\ <<>> \in Seq(Frame)
    BY EmptySeq
  <2> HIDE DEF Init
  <2> QED
    BY <1>1, <2>1 DEF ZMQ!Init, ZmqTyped
<1>4. MqttTyped
  BY <1>1 DEF MQTT!Init, MqttTyped
<1>5. TypeOK
  <2>1. handed \in Seq([wire : Wires, intact : BOOLEAN]) /\ at \in [Senders -> 1 .. Count + 1]
    OBVIOUS
  <2> QED
    BY <1>2, <1>3, <1>4, <2>1 DEF TypeOK
<1>6. TcpLate /\ ZmqLate /\ MqttLate /\ MqttPublished
  <2>1. \A s \in Senders : late[s] = 0
    OBVIOUS
  <2> QED
    BY <1>1, <2>1 DEF TcpLate, ZmqLate, MqttLate, MqttPublished, MQTT!Init
<1>7. ZmqFramed
  BY <1>3 DEF ZmqFramed
<1> QED
  BY <1>5, <1>6, <1>7 DEF TransportsInv

-----------------------------------------------------------------------------
(* TCP                                                                     *)

LEMMA TcpTypes ==
  ASSUME TypeOK, TCP!Next
  PROVE  /\ TcpTyped'
         /\ at' \in [Senders -> 1 .. Count + 1]
         /\ done' \subseteq out' /\ out' \subseteq Wires
         /\ handed' \in Seq([wire : Wires, intact : BOOLEAN])
         /\ stopped' \in BOOLEAN /\ late' \in [Senders -> Nat] /\ faults' \in Nat
<1> DEFINE Goal == /\ TcpTyped'
                   /\ at' \in [Senders -> 1 .. Count + 1]
                   /\ done' \subseteq out' /\ out' \subseteq Wires
                   /\ handed' \in Seq([wire : Wires, intact : BOOLEAN])
                   /\ stopped' \in BOOLEAN /\ late' \in [Senders -> Nat] /\ faults' \in Nat
<1> USE CountIsNat DEF TypeOK, TcpTyped, TCP!sharedVars, TCP!Goto, Wires
<1>1. ASSUME NEW s \in Senders, TCP!Connect(s) PROVE Goal
  BY <1>1 DEF TCP!Connect
<1>2. ASSUME NEW s \in Senders, NEW units \in Seq(Unit), TCP!Sent(s, units)
      PROVE  /\ TcpTyped' /\ at' \in [Senders -> 1 .. Count + 1]
             /\ out' = out \cup {<<s, at[s]>>} /\ out' \subseteq Wires
             /\ UNCHANGED <<handed, stopped, late>>
  BY SMTT(30), <1>2 DEF TCP!Sent
<1>3. ASSUME NEW s \in Senders, TCP!Send(s) PROVE Goal
  <2>1. at[s] \in TCP!Numbers
    BY <1>3 DEF TCP!Send, TCP!Sent
  <2>2. TCP!Units(at[s]) \in Seq(Unit)
    BY <2>1, UnitsAreUnits
  <2>3. TCP!Sent(s, TCP!Units(at[s])) /\ done' = done \cup {<<s, at[s]>>} /\ faults' = faults
    BY <1>3 DEF TCP!Send
  <2> QED
    BY <1>2, <2>2, <2>3
<1>4. ASSUME NEW s \in Senders, TCP!SendFails(s) PROVE Goal
  <2>1. at[s] \in TCP!Numbers /\ Sizes[at[s]] \in Nat
    BY <1>4, SizeOfMessage DEF TCP!SendFails
  <2>2. PICK k \in 0 .. Sizes[at[s]] + 1 : TCP!Sent(s, SubSeq(TCP!Units(at[s]), 1, k))
    BY <1>4 DEF TCP!SendFails
  <2>3. k \in 0 .. Sizes[at[s]] + 2
    BY <2>1
  <2>4. SubSeq(TCP!Units(at[s]), 1, k) \in Seq(Unit)
    BY <2>1, <2>3, PartOfUnits
  <2>5. faults' = faults + 1 /\ done' = done
    BY <1>4 DEF TCP!SendFails
  <2>6. /\ TcpTyped' /\ at' \in [Senders -> 1 .. Count + 1]
        /\ out' = out \cup {<<s, at[s]>>} /\ out' \subseteq Wires
        /\ UNCHANGED <<handed, stopped, late>>
    BY <1>2, <2>2, <2>4
  <2> QED
    BY SMTT(30), <2>5, <2>6
<1>5. ASSUME NEW s \in Senders, TCP!Reset(s) PROVE Goal
  <2>1. PICK k \in 0 .. Len(stream[s]) : stream' = [stream EXCEPT ![s] = SubSeq(@, 1, k)]
    BY <1>5 DEF TCP!Reset
  <2>2. SubSeq(stream[s], 1, k) \in Seq(Unit)
    BY Prefix
  <2>3. stream' \in [Senders -> Seq(Unit)]
    BY <2>1, <2>2
  <2>4. /\ link' = [link EXCEPT ![s] = "closed"] /\ faults' = faults + 1
        /\ UNCHANGED <<at, out, done, handed, stopped, late, thread, want, buf>>
    BY <1>5 DEF TCP!Reset
  <2> QED
    BY <2>3, <2>4
<1>6. ASSUME NEW s \in Senders, TCP!Disconnect(s) PROVE Goal
  BY <1>6 DEF TCP!Disconnect
<1>7. ASSUME NEW s \in Senders, TCP!Accept(s) PROVE Goal
  BY <1>7 DEF TCP!Accept
<1>8. ASSUME NEW s \in Senders, TCP!Test(s) PROVE Goal
  BY <1>8 DEF TCP!Test
<1>9. ASSUME NEW s \in Senders, TCP!RecvLength(s) PROVE Goal
  <2>1. stream[s] \in Seq(Unit) /\ Len(stream[s]) >= 2
    BY <1>9 DEF TCP!RecvLength
  <2>2. stream[s][1][1] \in TCP!Numbers
    BY SMTT(30), <2>1 DEF Unit
  <2>3. Sizes[stream[s][1][1]] \in Nat /\ MaxLength \in Nat
    BY <2>2, SizeOfMessage, TransportsAssumption
  <2>4. SubSeq(stream[s], 3, Len(stream[s])) \in Seq(Unit)
    BY <2>1, SubSeqProperties
  <2> DEFINE n == stream[s][1][1]
             framed == SubSeq(stream[s], 1, 2) = SubSeq(TCP!Units(n), 1, 2)
  <2>5. PICK len \in IF framed THEN {Sizes[n]} ELSE 0 .. MaxLength :
          want' = [want EXCEPT ![s] = len]
    BY <1>9 DEF TCP!RecvLength
  <2>6. want' \in [Senders -> Nat]
    <3> HIDE DEF framed
    <3>1. len \in Nat
      BY <2>3
    <3> QED
      BY <2>5, <3>1
  <2>7. stream' \in [Senders -> Seq(Unit)] /\ buf' \in [Senders -> Seq(Unit)]
    BY SMTT(30), <1>9, <2>4 DEF TCP!RecvLength
  <2>8. /\ thread' = [thread EXCEPT ![s] = "body"]
        /\ UNCHANGED <<at, out, done, handed, stopped, late, faults, link>>
    BY <1>9 DEF TCP!RecvLength
  <2>9. TcpTyped'
    BY <2>6, <2>7, <2>8
  <2> QED
    BY <2>8, <2>9
<1>10. ASSUME NEW s \in Senders, TCP!RecvBody(s) PROVE Goal
  <2>1. stream[s] \in Seq(Unit) /\ stream[s] # <<>> /\ buf[s] \in Seq(Unit)
    BY <1>10 DEF TCP!RecvBody
  <2>2. Tail(stream[s]) \in Seq(Unit) /\ Append(buf[s], Head(stream[s])) \in Seq(Unit)
    BY <2>1
  <2> QED
    BY <1>10, <2>2 DEF TCP!RecvBody
<1>11. ASSUME NEW s \in Senders, TCP!GotBody(s) PROVE Goal
  BY <1>11 DEF TCP!GotBody
<1>12. ASSUME NEW s \in Senders, TCP!RecvEnd(s) PROVE Goal
  BY <1>12 DEF TCP!RecvEnd
<1>13. ASSUME NEW s \in Senders, TCP!Hand(s) PROVE Goal
  <2>1. handed' \in Seq([wire : Wires, intact : BOOLEAN])
    <3>1. CASE ~TCP!IsWire(buf[s])
      BY <1>13, <3>1 DEF TCP!Hand
    <3>2. CASE TCP!IsWire(buf[s])
      <4>1. buf[s] \in Seq(Unit) /\ buf[s] # <<>>
        BY <3>2 DEF TCP!IsWire
      <4>2. buf[s][1][1] \in TCP!Numbers
        BY <4>1 DEF Unit
      <4>3. \E h \in [wire : Wires, intact : BOOLEAN] : handed' = Append(handed, h)
        <5> DEFINE n == buf[s][1][1]
                   h == [wire |-> <<s, n>>,
                         intact |-> SubSeq(buf[s], 1, Sizes[n]) = TCP!Body(n)]
        <5>1. h \in [wire : Wires, intact : BOOLEAN]
          BY <4>2
        <5>2. handed' = Append(handed, h)
          BY <1>13, <3>2 DEF TCP!Hand
        <5> QED
          BY <5>1, <5>2
      <4> QED
        BY <4>3
    <3> QED
      BY <3>1, <3>2
  <2>2. TcpTyped'
    BY <1>13 DEF TCP!Hand
  <2>3. late' \in [Senders -> Nat]
    BY SMTT(30), <1>13 DEF TCP!Hand
  <2> QED
    BY <1>13, <2>1, <2>2, <2>3 DEF TCP!Hand
<1>14. CASE TCP!Stop
  BY <1>14 DEF TCP!Stop, TCP!tcpVars
<1> QED
  <2> HIDE DEF Goal
  <2> QED
    BY <1>1, <1>3, <1>4, <1>5, <1>6, <1>7, <1>8, <1>9, <1>10, <1>11, <1>12, <1>13, <1>14
    DEF TCP!Next, TCP!SenderStep, TCP!ClientStep, Goal

LEMMA TcpKeepsLate ==
  ASSUME TypeOK, TcpLate, protocol = "tcp", TCP!Next, UNCHANGED protocol
  PROVE  TcpLate'
<1> USE DEF TypeOK, TcpTyped, TcpLate, TCP!sharedVars, TCP!Goto
<1>1. ASSUME NEW s \in Senders, TCP!Connect(s) PROVE TcpLate'
  BY <1>1 DEF TCP!Connect
<1>2. ASSUME NEW s \in Senders, TCP!Send(s) \/ TCP!SendFails(s) PROVE TcpLate'
  BY <1>2 DEF TCP!Send, TCP!SendFails, TCP!Sent
<1>3. ASSUME NEW s \in Senders, TCP!Reset(s) \/ TCP!Disconnect(s) PROVE TcpLate'
  BY <1>3 DEF TCP!Reset, TCP!Disconnect
<1>4. ASSUME NEW s \in Senders, TCP!Accept(s) PROVE TcpLate'
  BY <1>4 DEF TCP!Accept
<1>5. ASSUME NEW s \in Senders, TCP!Test(s) PROVE TcpLate'
  BY <1>5 DEF TCP!Test
<1>6. ASSUME NEW s \in Senders, TCP!RecvLength(s) PROVE TcpLate'
  BY <1>6 DEF TCP!RecvLength
<1>7. ASSUME NEW s \in Senders, TCP!RecvBody(s) PROVE TcpLate'
  BY <1>7 DEF TCP!RecvBody
<1>8. ASSUME NEW s \in Senders, TCP!GotBody(s) \/ TCP!RecvEnd(s) PROVE TcpLate'
  BY <1>8 DEF TCP!GotBody, TCP!RecvEnd
<1>9. ASSUME NEW s \in Senders, TCP!Hand(s) PROVE TcpLate'
  <2>1. thread[s] = "hand" /\ late[s] = 0
    BY <1>9 DEF TCP!Hand
  <2> QED
    BY <1>9, <2>1 DEF TCP!Hand
<1>10. CASE TCP!Stop
  BY <1>10 DEF TCP!Stop, TCP!tcpVars
<1> QED
  BY <1>1, <1>2, <1>3, <1>4, <1>5, <1>6, <1>7, <1>8, <1>9, <1>10
  DEF TCP!Next, TCP!SenderStep, TCP!ClientStep

LEMMA TcpStep == TransportsInv /\ TcpNext => TransportsInv'
<1> SUFFICES ASSUME TransportsInv, TcpNext PROVE TransportsInv'
  OBVIOUS
<1>1. /\ protocol = "tcp" /\ protocol' = "tcp" /\ TCP!Next
      /\ UNCHANGED zmqVars /\ UNCHANGED mqttVars /\ TypeOK
  BY DEF TcpNext, TransportsInv
<1>2. TypeOK'
  <2>1. ZmqTyped'
    BY <1>1 DEF zmqVars, ZmqTyped, TypeOK
  <2>2. MqttTyped'
    BY <1>1 DEF mqttVars, MqttTyped, TypeOK
  <2> QED
    BY <1>1, <2>1, <2>2, TcpTypes DEF TypeOK
<1>3. TcpLate'
  BY <1>1, TcpKeepsLate DEF TransportsInv
<1>4. ZmqLate' /\ MqttLate' /\ MqttPublished'
  BY <1>1 DEF ZmqLate, MqttLate, MqttPublished
<1>5. ZmqFramed'
  BY <1>1 DEF TransportsInv, ZmqFramed, Carried, Wanted, zmqVars
<1> QED
  BY <1>2, <1>3, <1>4, <1>5 DEF TransportsInv

-----------------------------------------------------------------------------
(* ZeroMQ                                                                  *)

LEMMA CarriedIsFrames ==
  ASSUME NEW m \in Carried
  PROVE  /\ m \in Seq(Frame) /\ m # <<>>
         /\ pattern = "push_pull" => \E w \in Wires : m = <<w>>
         /\ pattern = "pub_sub" /\ Len(m) > 1 => Wanted /\ \E w \in Wires : Tail(m) = <<w>>
<1>1. ASSUME NEW w \in Wires, m = <<w>>
      PROVE  m \in Seq(Frame) /\ m # <<>> /\ Len(m) = 1
  BY <1>1 DEF Frame
<1>2. ASSUME NEW w \in Wires, m = <<Topic, w>>
      PROVE  m \in Seq(Frame) /\ m # <<>> /\ Tail(m) = <<w>>
  BY <1>2 DEF Frame
<1>3. CASE pattern = "pub_sub" /\ topic.sender # <<>>
  <2>1. Wanted /\ \E w \in Wires : m = <<Topic, w>>
    BY <1>3 DEF Carried
  <2> QED
    BY <1>2, <1>3, <2>1
<1>4. CASE ~(pattern = "pub_sub" /\ topic.sender # <<>>)
  <2>1. \E w \in Wires : m = <<w>>
    BY <1>4 DEF Carried
  <2> QED
    BY <1>1, <1>4, <2>1
<1> QED
  BY <1>3, <1>4

LEMMA CutOut ==
  ASSUME NEW S, NEW q \in Seq(S), NEW k \in 0 .. Len(q), NEW j \in k .. Len(q)
  PROVE  SubSeq(q, 1, k) \o SubSeq(q, j + 1, Len(q)) \in Seq(S)
<1>1. SubSeq(q, 1, k) \in Seq(S)
  BY SubSeqProperties
<1>2. SubSeq(q, j + 1, Len(q)) \in Seq(S)
  BY SubSeqProperties
<1> QED
  BY <1>1, <1>2, ConcatProperties

ZmqTypes ==
  /\ ZmqTyped
  /\ at \in [Senders -> 1 .. Count + 1]
  /\ done \subseteq out /\ out \subseteq Wires
  /\ handed \in Seq([wire : Wires, intact : BOOLEAN])
  /\ stopped \in BOOLEAN /\ late \in [Senders -> Nat] /\ faults \in Nat

LEMMA ZmqStepTypes ==
  ASSUME TypeOK, ZmqFramed, ZMQ!Next, protocol = "zmq_tcp", UNCHANGED protocol
  PROVE  ZmqTypes' /\ ZmqFramed'
<1> DEFINE Goal == ZmqTypes' /\ ZmqFramed'
<1>0. ZmqTypes
  BY DEF TypeOK, ZmqTypes
<1> USE <1>0, CountIsNat
    DEF ZmqTypes, ZmqTyped, ZmqFramed, ZMQ!sharedVars, ZMQ!recvVars, ZMQ!Goto
<1>1. ASSUME UNCHANGED <<pattern, topic>>, queue' \in [Senders -> Seq(Carried)]
      PROVE  /\ Carried' = Carried /\ (Wanted <=> Wanted')
             /\ queue' \in [Senders -> Seq(Seq(Frame))]
             /\ queue' \in [Senders -> Seq(Carried')]
  <2>1. Carried' = Carried /\ (Wanted <=> Wanted')
    BY <1>1 DEF Carried, Wanted, Wires, TCP!Numbers
  <2>2. Carried \subseteq Seq(Frame)
    BY CarriedIsFrames
  <2>3. Seq(Carried) \subseteq Seq(Seq(Frame))
    BY <2>2, SeqMonotonic
  <2>4. queue' \in [Senders -> Seq(Seq(Frame))]
    BY <1>1, <2>3
  <2> QED
    BY <1>1, <2>1, <2>4
<1>2. ASSUME NEW s \in Senders, ZMQ!Connect(s) \/ ZMQ!Disconnect(s) \/ ZMQ!Join(s) PROVE Goal
  <2>1. /\ UNCHANGED <<at, out, done, handed, stopped, late, faults, pattern, topic, queue,
                       missed, asked, loop, frames>>
        /\ socket' \in [Senders -> {"none", "open", "closed"}]
        /\ joined' \in [Senders -> BOOLEAN]
    BY <1>2 DEF ZMQ!Connect, ZMQ!Disconnect, ZMQ!Join
  <2>2. Carried' = Carried /\ (Wanted <=> Wanted')
    BY <1>1, <2>1
  <2> QED
    BY <2>1, <2>2
<1>3. ASSUME NEW s \in Senders, ZMQ!Send(s) PROVE Goal
  <2> DEFINE w == <<s, at[s]>>
             taken == Len(queue[s]) < Hwm /\ (pattern = "pub_sub" => ZMQ!Subscribed(s))
  <2>1. w \in Wires
    BY <1>3 DEF ZMQ!Send, Wires
  <2>2. taken => ZMQ!Frames(w) \in Carried
    BY <2>1 DEF ZMQ!Frames, Carried, Wanted, ZMQ!Subscribed
  <2>3. /\ queue' = IF taken THEN [queue EXCEPT ![s] = Append(@, ZMQ!Frames(w))] ELSE queue
        /\ missed' = IF taken THEN missed ELSE missed \cup {w}
        /\ out' = out \cup {w} /\ done' = done \cup {w}
        /\ at' = [at EXCEPT ![s] = @ + 1] /\ at[s] \in ZMQ!Numbers
        /\ UNCHANGED <<handed, stopped, late, faults, pattern, topic, socket, joined, asked, loop, frames>>
    BY <1>3 DEF ZMQ!Send
  <2> HIDE DEF taken
  <2>4. queue' \in [Senders -> Seq(Carried)]
    <3>1. taken => Append(queue[s], ZMQ!Frames(w)) \in Seq(Carried)
      BY <2>2
    <3> QED
      BY <2>3, <3>1
  <2>5. /\ Carried' = Carried /\ (Wanted <=> Wanted')
        /\ queue' \in [Senders -> Seq(Seq(Frame))]
        /\ queue' \in [Senders -> Seq(Carried')]
    BY <1>1, <2>3, <2>4
  <2>6. ZmqTypes'
    <3>1. at' \in [Senders -> 1 .. Count + 1]
      BY <2>3
    <3>2. done' \subseteq out' /\ out' \subseteq Wires /\ missed' \subseteq Wires
      BY <2>1, <2>3
    <3> HIDE DEF w
    <3> QED
      BY <2>3, <2>5, <3>1, <3>2
  <2>7. ZmqFramed'
    BY <2>3, <2>4, <2>5
  <2> QED
    BY <2>6, <2>7
<1>4. ASSUME NEW s \in Senders, ZMQ!Break(s) PROVE Goal
  <2>1. PICK k \in 0 .. Len(queue[s]) : \E j \in k .. Len(queue[s]) :
          queue' = [queue EXCEPT ![s] = SubSeq(@, 1, k) \o SubSeq(@, j + 1, Len(@))]
    BY <1>4 DEF ZMQ!Break
  <2>2. PICK j \in k .. Len(queue[s]) :
          queue' = [queue EXCEPT ![s] = SubSeq(@, 1, k) \o SubSeq(@, j + 1, Len(@))]
    BY <2>1
  <2>3. SubSeq(queue[s], 1, k) \o SubSeq(queue[s], j + 1, Len(queue[s])) \in Seq(Carried)
    BY CutOut
  <2>4. queue' \in [Senders -> Seq(Carried)]
    BY <2>2, <2>3
  <2>5. /\ joined' = [joined EXCEPT ![s] = FALSE] /\ faults' = faults + 1
        /\ UNCHANGED <<at, out, done, handed, stopped, late, pattern, topic, socket, missed,
                       asked, loop, frames>>
    BY <1>4 DEF ZMQ!Break
  <2>6. /\ Carried' = Carried /\ (Wanted <=> Wanted')
        /\ queue' \in [Senders -> Seq(Seq(Frame))]
        /\ queue' \in [Senders -> Seq(Carried')]
    BY <1>1, <2>4, <2>5
  <2>7. ZmqTypes'
    BY <2>6, <2>4, <2>5
  <2>8. ZmqFramed'
    BY <2>6, <2>4, <2>5
  <2> QED
    BY <2>7, <2>8
<1>5. ASSUME NEW s \in Senders, ZMQ!Die(s) PROVE Goal
  <2>1. PICK k \in 0 .. Len(queue[s]) : queue' = [queue EXCEPT ![s] = SubSeq(@, 1, k)]
    BY <1>5 DEF ZMQ!Die
  <2>2. SubSeq(queue[s], 1, k) \in Seq(Carried)
    BY Prefix
  <2>3. queue' \in [Senders -> Seq(Carried)]
    BY <2>1, <2>2
  <2>4. /\ socket' = [socket EXCEPT ![s] = "closed"] /\ faults' = faults + 1
        /\ UNCHANGED <<at, out, done, handed, stopped, late, pattern, topic, joined, missed,
                       asked, loop, frames>>
    BY <1>5 DEF ZMQ!Die
  <2>5. /\ Carried' = Carried /\ (Wanted <=> Wanted')
        /\ queue' \in [Senders -> Seq(Seq(Frame))]
        /\ queue' \in [Senders -> Seq(Carried')]
    BY <1>1, <2>3, <2>4
  <2>6. ZmqTypes'
    BY <2>5, <2>3, <2>4
  <2>7. ZmqFramed'
    BY <2>5, <2>3, <2>4
  <2> QED
    BY <2>6, <2>7
<1>6. ASSUME NEW s \in Senders, ZMQ!RecvFrom(s) PROVE Goal
  <2>1. queue[s] \in Seq(Carried) /\ queue[s] # <<>>
    BY <1>6 DEF ZMQ!RecvFrom
  <2>2. Head(queue[s]) \in Carried /\ Tail(queue[s]) \in Seq(Carried)
    BY <2>1
  <2>3. queue' \in [Senders -> Seq(Carried)]
    BY <1>6, <2>2 DEF ZMQ!RecvFrom
  <2>4. frames' \in Carried /\ frames' \in Seq(Frame)
    BY <1>6, <2>2, CarriedIsFrames DEF ZMQ!RecvFrom
  <2>5. pattern # "pub_sub" => \E w \in Wires : frames' = <<w>>
    BY <1>6, <2>2, CarriedIsFrames DEF ZMQ!RecvFrom
  <2>6. /\ loop' = (IF pattern = "pub_sub" THEN "more" ELSE "hand")
        /\ UNCHANGED <<at, out, done, handed, stopped, late, faults, pattern, topic, socket,
                       joined, missed, asked>>
    BY <1>6 DEF ZMQ!RecvFrom
  <2>7. /\ Carried' = Carried /\ (Wanted <=> Wanted')
        /\ queue' \in [Senders -> Seq(Seq(Frame))]
        /\ queue' \in [Senders -> Seq(Carried')]
    BY <1>1, <2>3, <2>4, <2>5, <2>6
  <2>8. ZmqTypes'
    BY <2>7, <2>3, <2>4, <2>5, <2>6
  <2>9. ZmqFramed'
    BY <2>7, <2>3, <2>4, <2>5, <2>6
  <2> QED
    BY <2>8, <2>9
<1>7. CASE ZMQ!Test \/ ZMQ!RecvNothing \/ ZMQ!UseClosed
  <2>1. /\ UNCHANGED <<at, out, done, handed, stopped, late, faults, pattern, topic, socket,
                       joined, queue, missed, asked, frames>>
        /\ loop' \in {"exited", "recv", "test", "crashed"}
    BY <1>7 DEF ZMQ!Test, ZMQ!RecvNothing, ZMQ!UseClosed
  <2>2. Carried' = Carried /\ (Wanted <=> Wanted')
    BY <1>1, <2>1
  <2> QED
    BY <2>1, <2>2
<1>8. CASE ZMQ!More
  <2>1. pattern = "pub_sub" /\ frames \in Carried
    BY <1>8 DEF ZMQ!More
  <2>2. frames' \in Seq(Frame)
    BY <1>8, <2>1, CarriedIsFrames DEF ZMQ!More
  <2>3. loop' = "hand" => Wanted /\ \E w \in Wires : frames' = <<w>>
    BY <1>8, <2>1, CarriedIsFrames DEF ZMQ!More
  <2>4. loop' \in {"hand", "test"}
    BY <1>8 DEF ZMQ!More
  <2>5. UNCHANGED <<at, out, done, handed, stopped, late, faults, pattern, topic, socket,
                   joined, missed, asked, queue>>
    BY <1>8 DEF ZMQ!More
  <2>6. /\ Carried' = Carried /\ (Wanted <=> Wanted')
        /\ queue' \in [Senders -> Seq(Seq(Frame))]
        /\ queue' \in [Senders -> Seq(Carried')]
    BY <1>1, <2>2, <2>3, <2>4, <2>5
  <2>7. ZmqTypes'
    BY <2>6, <2>2, <2>3, <2>4, <2>5
  <2>8. ZmqFramed'
    BY <2>6, <2>2, <2>3, <2>4, <2>5
  <2> QED
    BY <2>7, <2>8
<1>9. CASE ZMQ!Hand
  <2>1. PICK w \in Wires : frames = <<w>>
    BY <1>9 DEF ZMQ!Hand
  <2>2. handed' = Append(handed, [wire |-> w, intact |-> TRUE])
    BY <1>9, <2>1 DEF ZMQ!Hand
  <2>3. handed' \in Seq([wire : Wires, intact : BOOLEAN])
    BY <2>2
  <2>4. late' \in [Senders -> Nat]
    <3> DEFINE t == Head(frames)[1]
    <3>1. late' = [late EXCEPT ![t] = IF stopped THEN @ + 1 ELSE @]
      BY <1>9 DEF ZMQ!Hand
    <3>2. late \in [Senders -> Nat]
      OBVIOUS
    <3> HIDE DEF t
    <3>3. \A x \in Senders : late'[x] \in Nat
      BY ONLY <3>1, <3>2
    <3> QED
      BY ONLY <3>1, <3>2, <3>3
  <2>5. pattern = "pub_sub" => Wanted
    BY <1>9 DEF ZMQ!Hand
  <2>6. /\ loop' = "test" /\ frames' = <<>>
        /\ UNCHANGED <<at, out, done, stopped, faults, pattern, topic, socket, joined, missed,
                       asked, queue>>
    BY <1>9 DEF ZMQ!Hand
  <2>7. /\ Carried' = Carried /\ (Wanted <=> Wanted')
        /\ queue' \in [Senders -> Seq(Seq(Frame))]
        /\ queue' \in [Senders -> Seq(Carried')]
    BY <1>1, <2>3, <2>4, <2>5, <2>6
  <2>8. ZmqTypes'
    BY <2>7, <2>3, <2>4, <2>5, <2>6
  <2>9. ZmqFramed'
    BY <2>7, <2>3, <2>4, <2>5, <2>6
  <2> QED
    BY <2>8, <2>9
<1>10. CASE ZMQ!AskToStop \/ ZMQ!Close
  <2>1. /\ UNCHANGED <<at, out, done, handed, late, faults, pattern, topic, socket,
                       joined, queue, missed, loop, frames>>
        /\ asked' \in BOOLEAN /\ stopped' \in BOOLEAN
    BY <1>10 DEF ZMQ!AskToStop, ZMQ!Close, ZMQ!zmqVars
  <2>2. Carried' = Carried /\ (Wanted <=> Wanted')
    BY <1>1, <2>1
  <2> QED
    BY <2>1, <2>2
<1> QED
  BY <1>2, <1>3, <1>4, <1>5, <1>6, <1>7, <1>8, <1>9, <1>10 DEF ZMQ!Next, ZMQ!LoopStep

LEMMA ZmqKeepsLate ==
  ASSUME TypeOK, ZmqFramed, ZmqLate, protocol = "zmq_tcp", ZMQ!Next, UNCHANGED protocol
  PROVE  ZmqLate'
<1> USE DEF TypeOK, ZmqTyped, ZmqLate, ZMQ!sharedVars, ZMQ!recvVars, ZMQ!Goto
<1>1. ASSUME NEW s \in Senders, ZMQ!Connect(s) \/ ZMQ!Join(s) \/ ZMQ!Disconnect(s) PROVE ZmqLate'
  BY <1>1 DEF ZMQ!Connect, ZMQ!Join, ZMQ!Disconnect
<1>2. ASSUME NEW s \in Senders, ZMQ!Send(s) \/ ZMQ!Break(s) \/ ZMQ!Die(s) PROVE ZmqLate'
  BY <1>2 DEF ZMQ!Send, ZMQ!Break, ZMQ!Die
<1>3. ASSUME NEW s \in Senders, ZMQ!RecvFrom(s) PROVE ZmqLate'
  BY <1>3 DEF ZMQ!RecvFrom
<1>4. CASE ZMQ!Test
  BY <1>4 DEF ZMQ!Test
<1>5. CASE ZMQ!RecvNothing \/ ZMQ!More \/ ZMQ!UseClosed
  BY <1>5 DEF ZMQ!RecvNothing, ZMQ!More, ZMQ!UseClosed
<1>6. CASE ZMQ!Hand
  <2>1. loop = "hand" /\ loop' = "test" /\ UNCHANGED <<stopped, asked>>
        /\ late' = [late EXCEPT ![Head(frames)[1]] = IF stopped THEN @ + 1 ELSE @]
    BY <1>6 DEF ZMQ!Hand
  <2>2. \A s \in Senders : late[s] = 0
    BY <2>1
  <2>3. \A s \in Senders : late'[s] # 0 => stopped /\ late'[s] = 1
    BY <2>1, <2>2
  <2> QED
    BY <2>1, <2>3
<1>7. CASE ZMQ!AskToStop \/ ZMQ!Close
  BY <1>7 DEF ZMQ!AskToStop, ZMQ!Close, ZMQ!zmqVars
<1> QED
  BY <1>1, <1>2, <1>3, <1>4, <1>5, <1>6, <1>7 DEF ZMQ!Next, ZMQ!LoopStep

LEMMA ZmqStep == TransportsInv /\ ZmqNext => TransportsInv'
<1> SUFFICES ASSUME TransportsInv, ZmqNext PROVE TransportsInv'
  OBVIOUS
<1>1. /\ protocol = "zmq_tcp" /\ protocol' = protocol /\ ZMQ!Next
      /\ UNCHANGED tcpVars /\ UNCHANGED mqttVars /\ TypeOK /\ ZmqFramed
  BY DEF ZmqNext, TransportsInv
<1>2. TypeOK' /\ ZmqFramed'
  <2>1. TcpTyped'
    BY <1>1 DEF tcpVars, TcpTyped, TypeOK
  <2>2. MqttTyped'
    BY <1>1 DEF mqttVars, MqttTyped, TypeOK
  <2>3. ZmqTypes' /\ ZmqFramed'
    BY <1>1, ZmqStepTypes
  <2> QED
    BY <1>1, <2>1, <2>2, <2>3 DEF TypeOK, ZmqTypes
<1>3. ZmqLate'
  BY <1>1, ZmqKeepsLate DEF TransportsInv
<1>4. TcpLate' /\ MqttLate' /\ MqttPublished'
  BY <1>1 DEF TcpLate, MqttLate, MqttPublished
<1> QED
  BY <1>2, <1>3, <1>4 DEF TransportsInv

-----------------------------------------------------------------------------
(* MQTT                                                                    *)

LEMMA MqttTypes ==
  ASSUME TypeOK, MqttPublished, MQTT!Next, protocol = "mqtt_tcp", UNCHANGED protocol
  PROVE  /\ MqttPublished'
         /\ MqttTyped'
         /\ at' \in [Senders -> 1 .. Count + 1]
         /\ done' \subseteq out' /\ out' \subseteq Wires
         /\ handed' \in Seq([wire : Wires, intact : BOOLEAN])
         /\ stopped' \in BOOLEAN /\ late' \in [Senders -> Nat] /\ faults' \in Nat
<1> DEFINE Goal == /\ MqttPublished'
                   /\ MqttTyped'
                   /\ at' \in [Senders -> 1 .. Count + 1]
                   /\ done' \subseteq out' /\ out' \subseteq Wires
                   /\ handed' \in Seq([wire : Wires, intact : BOOLEAN])
                   /\ stopped' \in BOOLEAN /\ late' \in [Senders -> Nat] /\ faults' \in Nat
<1> USE CountIsNat DEF TypeOK, MqttTyped, MqttPublished, MQTT!sharedVars
<1>1. ASSUME NEW s \in Senders, MQTT!Connect(s) PROVE Goal
  BY <1>1 DEF MQTT!Connect
<1>2. ASSUME NEW s \in Senders, MQTT!Publish(s) PROVE Goal
  <2> DEFINE w == <<s, at[s]>>
  <2>1. at[s] \in 1 .. Count /\ publish[s] = "idle"
    BY <1>2 DEF MQTT!Publish
  <2>2. /\ w \in Wires /\ at[s] + 1 \in 1 .. Count + 1
    BY <2>1 DEF Wires
  <2>3. /\ out' = out \cup {w}
        /\ up' = [up EXCEPT ![s] = Append(@, w)]
        /\ UNCHANGED <<handed, stopped, late, faults, qos, client, down, unrouted, session, callback>>
    BY <1>2 DEF MQTT!Publish
  <2>4. \/ /\ done' = done \cup {w} /\ at' = [at EXCEPT ![s] = @ + 1]
           /\ publish' = publish
        \/ done' = done /\ at' = at /\ publish' = [publish EXCEPT ![s] = "sent"]
    BY <1>2 DEF MQTT!Publish, MQTT!Completed
  <2>5. Append(up[s], w) \in Seq(Wires)
    BY <2>2
  <2>6. up' \in [Senders -> Seq(Wires)]
    BY <2>3, <2>5
  <2>7. MqttPublished'
    BY <2>1, <2>3, <2>4
  <2>8. at' \in [Senders -> 1 .. Count + 1]
    BY <2>2, <2>4
  <2>9. out' \subseteq Wires /\ done' \subseteq out'
    BY <2>2, <2>3, <2>4
  <2>10. publish' \in [Senders -> {"idle", "sent", "acknowledged"}]
    BY <2>4
  <2> HIDE DEF w
  <2> QED
    BY <2>3, <2>6, <2>7, <2>8, <2>9, <2>10
<1>3. ASSUME NEW s \in Senders, MQTT!Route(s) PROVE Goal
  <2>1. up[s] \in Seq(Wires) /\ up[s] # <<>>
    BY <1>3 DEF MQTT!Route
  <2>2. /\ Head(up[s]) \in Wires /\ Tail(up[s]) \in Seq(Wires)
        /\ Append(down, Head(up[s])) \in Seq(Wires)
    BY <2>1
  <2> QED
    BY <1>3, <2>2 DEF MQTT!Route
<1>4. ASSUME NEW s \in Senders, MQTT!Acknowledged(s) PROVE Goal
  <2>1. /\ done' = done \cup {<<s, at[s]>>} /\ at' = [at EXCEPT ![s] = @ + 1]
        /\ publish[s] = "acknowledged" /\ publish' = [publish EXCEPT ![s] = "idle"]
        /\ UNCHANGED <<out, handed, stopped, late, faults, qos, client, up, down, unrouted,
                       session, callback>>
    BY <1>4 DEF MQTT!Acknowledged, MQTT!Completed
  <2>2. <<s, at[s]>> \in out /\ at[s] \in 1 .. Count
    BY <2>1 DEF Wires
  <2> QED
    BY <2>1, <2>2
<1>5. ASSUME NEW s \in Senders, MQTT!PublishFails(s) \/ MQTT!Disconnect(s) PROVE Goal
  BY <1>5 DEF MQTT!PublishFails, MQTT!Disconnect
<1>6. ASSUME NEW s \in Senders, MQTT!LoseSender(s) PROVE Goal
  <2>1. PICK k \in 0 .. Len(up[s]) : up' = [up EXCEPT ![s] = SubSeq(@, 1, k)]
    BY <1>6 DEF MQTT!LoseSender
  <2>2. SubSeq(up[s], 1, k) \in Seq(Wires)
    BY Prefix
  <2>3. up' \in [Senders -> Seq(Wires)]
    BY <2>1, <2>2
  <2>4. /\ client' = [client EXCEPT ![s] = "lost"] /\ faults' = faults + 1
        /\ UNCHANGED <<at, out, done, handed, stopped, late, qos, publish, down, unrouted,
                       session, callback>>
    BY <1>6 DEF MQTT!LoseSender
  <2> QED
    BY <2>3, <2>4
<1>7. CASE MQTT!Start \/ MQTT!Stop \/ MQTT!Stopped
  BY <1>7 DEF MQTT!Start, MQTT!Stop, MQTT!Stopped
<1>8. CASE MQTT!LoseReceiver
  <2>1. PICK k \in 0 .. Len(down) : down' = SubSeq(down, 1, k)
    BY <1>8 DEF MQTT!LoseReceiver
  <2>2. down' \in Seq(Wires)
    BY <2>1, Prefix
  <2>3. /\ session' = "lost" /\ faults' = faults + 1
        /\ UNCHANGED <<at, out, done, handed, stopped, late, qos, client, publish, up,
                       unrouted, callback>>
    BY <1>8 DEF MQTT!LoseReceiver
  <2> QED
    BY <2>2, <2>3
<1>9. CASE MQTT!Arrive
  <2>1. down # <<>> /\ callback' = Head(down) /\ down' = Tail(down)
    BY <1>9 DEF MQTT!Arrive
  <2>2. callback' \in Wires /\ down' \in Seq(Wires)
    BY <2>1
  <2> QED
    BY <1>9, <2>2 DEF MQTT!Arrive
<1>10. CASE MQTT!Hand
  <2>1. callback \in Wires
    BY <1>10 DEF MQTT!Hand
  <2>2. handed' = Append(handed, [wire |-> callback, intact |-> TRUE])
    BY <1>10 DEF MQTT!Hand
  <2>3. handed' \in Seq([wire : Wires, intact : BOOLEAN])
    BY <2>1, <2>2
  <2>4. late' \in [Senders -> Nat]
    <3> DEFINE t == callback[1]
    <3>1. late' = [late EXCEPT ![t] = IF stopped THEN @ + 1 ELSE @]
      BY <1>10 DEF MQTT!Hand
    <3>2. late \in [Senders -> Nat]
      OBVIOUS
    <3> HIDE DEF t
    <3>3. \A x \in Senders : late'[x] \in Nat
      BY ONLY <3>1, <3>2
    <3> QED
      BY ONLY <3>1, <3>2, <3>3
  <2>5. /\ callback' = Nothing
        /\ UNCHANGED <<at, out, done, stopped, faults, qos, client, publish, up, down, unrouted,
                       session>>
    BY <1>10 DEF MQTT!Hand
  <2> QED
    BY <2>3, <2>4, <2>5
<1> QED
  <2> HIDE DEF Goal
  <2> QED
    BY <1>1, <1>2, <1>3, <1>4, <1>5, <1>6, <1>7, <1>8, <1>9, <1>10
    DEF MQTT!Next, MQTT!ReceiverStep, Goal

LEMMA MqttKeepsLate ==
  ASSUME TypeOK, MqttLate, protocol = "mqtt_tcp", MQTT!Next, UNCHANGED protocol
  PROVE  MqttLate'
<1> USE DEF TypeOK, MqttTyped, MqttLate, MQTT!sharedVars
<1>1. ASSUME NEW s \in Senders,
             \/ MQTT!Connect(s) \/ MQTT!Publish(s) \/ MQTT!Route(s) \/ MQTT!Acknowledged(s)
             \/ MQTT!PublishFails(s) \/ MQTT!Disconnect(s) \/ MQTT!LoseSender(s)
      PROVE  MqttLate'
  <2>1. UNCHANGED <<stopped, late, session, callback>>
    BY <1>1 DEF MQTT!Connect, MQTT!Publish, MQTT!Route, MQTT!Acknowledged, MQTT!Completed,
                MQTT!PublishFails, MQTT!Disconnect, MQTT!LoseSender
  <2> QED
    BY <2>1
<1>2. CASE MQTT!Start \/ MQTT!LoseReceiver \/ MQTT!Stop \/ MQTT!Stopped
  BY <1>2 DEF MQTT!Start, MQTT!LoseReceiver, MQTT!Stop, MQTT!Stopped
<1>3. CASE MQTT!Arrive
  <2>1. \A s \in Senders : late[s] = 0
    BY <1>3 DEF MQTT!Arrive
  <2> QED
    BY <1>3, <2>1 DEF MQTT!Arrive
<1>4. CASE MQTT!Hand
  <2>1. \A s \in Senders : late[s] = 0
    BY <1>4 DEF MQTT!Hand
  <2>2. /\ callback' = Nothing /\ UNCHANGED <<stopped, session>>
        /\ late' = [late EXCEPT ![callback[1]] = IF stopped THEN @ + 1 ELSE @]
    BY <1>4 DEF MQTT!Hand
  <2>3. \A s \in Senders : late'[s] # 0 => stopped /\ late'[s] = 1
    BY <2>1, <2>2
  <2> QED
    BY <2>2, <2>3
<1> QED
  BY <1>1, <1>2, <1>3, <1>4 DEF MQTT!Next, MQTT!ReceiverStep

LEMMA MqttStep == TransportsInv /\ MqttNext => TransportsInv'
<1> SUFFICES ASSUME TransportsInv, MqttNext PROVE TransportsInv'
  OBVIOUS
<1>1. /\ protocol = "mqtt_tcp" /\ protocol' = protocol /\ MQTT!Next
      /\ UNCHANGED tcpVars /\ UNCHANGED zmqVars /\ TypeOK /\ MqttPublished
  BY DEF MqttNext, TransportsInv
<1>2. TypeOK' /\ MqttPublished'
  <2>1. TcpTyped'
    BY <1>1 DEF tcpVars, TcpTyped, TypeOK
  <2>2. ZmqTyped'
    BY <1>1 DEF zmqVars, ZmqTyped, TypeOK
  <2> QED
    BY <1>1, <2>1, <2>2, MqttTypes DEF TypeOK
<1>3. MqttLate'
  BY <1>1, MqttKeepsLate DEF TransportsInv
<1>4. TcpLate' /\ ZmqLate'
  BY <1>1 DEF TcpLate, ZmqLate
<1>5. ZmqFramed'
  BY <1>1 DEF TransportsInv, ZmqFramed, Carried, Wanted, zmqVars
<1> QED
  BY <1>2, <1>3, <1>4, <1>5 DEF TransportsInv

-----------------------------------------------------------------------------
LEMMA TransportsInvAlways == Spec => []TransportsInv
<1>1. TransportsInv /\ UNCHANGED vars => TransportsInv'
  <2> SUFFICES ASSUME TransportsInv, UNCHANGED vars PROVE TransportsInv'
    OBVIOUS
  <2> USE DEF vars, sharedVars
  <2>1. TcpTyped' /\ TcpLate'
    BY DEF TransportsInv, TypeOK, TcpTyped, TcpLate, tcpVars
  <2>2. ZmqTyped' /\ ZmqLate'
    BY DEF TransportsInv, TypeOK, ZmqTyped, ZmqLate, zmqVars
  <2>3. MqttTyped' /\ MqttLate' /\ MqttPublished'
    BY DEF TransportsInv, TypeOK, MqttTyped, MqttLate, MqttPublished, mqttVars
  <2>4. ZmqFramed'
    BY DEF TransportsInv, ZmqFramed, Carried, Wanted, zmqVars
  <2> QED
    BY <2>1, <2>2, <2>3, <2>4 DEF TransportsInv, TypeOK
<1>2. TransportsInv /\ [Next]_vars => TransportsInv'
  BY <1>1, TcpStep, ZmqStep, MqttStep DEF Next
<1> QED
  BY <1>2, InitInv, PTL DEF Spec

(* The state of the three transports is well typed.                        *)
THEOREM TransportsTypeCorrect == Spec => []TypeOK
<1>1. TransportsInv => TypeOK
  BY DEF TransportsInv
<1> QED
  BY <1>1, TransportsInvAlways, PTL

(* Of any number of senders, none has two messages handed up after stop(). *)
THEOREM AtMostOneAfterStopAlways == Spec => []AtMostOneAfterStop
<1>1. TransportsInv => AtMostOneAfterStop
  BY SMTT(30) DEF TransportsInv, TypeOK, TcpLate, ZmqLate, MqttLate, AtMostOneAfterStop
<1> QED
  BY <1>1, TransportsInvAlways, PTL

-----------------------------------------------------------------------------
(* Order, and from it the promise of WireChannel: what has been handed up, *)
(* what is on its way up and what is still to be sent rise in that order,  *)
(* for each sender.                                                        *)

Before(v, w) == v[1] = w[1] => v[2] < w[2]
HandedBefore(w) == \A i \in DOMAIN handed : Before(handed[i].wire, w)

Elements(q) == {q[k] : k \in DOMAIN q}
Rising(q, R) == \A k, l \in DOMAIN q : k < l => <<q[k], q[l]>> \in R

SharedOrder ==
  /\ \A i \in DOMAIN handed : handed[i].wire \in out
  /\ ArrivesInOrder

(* TCP: units are in the order of their message and, within it, of their   *)
(* place.  A message is known by its first byte.                           *)
UnitOrder ==
  {p \in Unit \X Unit : p[1][1] < p[2][1] \/ (p[1][1] = p[2][1] /\ p[1][2] < p[2][2])}

UnitHandedBefore(s, u) ==
  \A i \in DOMAIN handed : handed[i].wire[1] = s => <<<<handed[i].wire[2], 1>>, u>> \in UnitOrder

TcpOrder ==
  protocol = "tcp" =>
    /\ \A w \in out : w[2] < at[w[1]]
    /\ \A s \in Senders :
         /\ Rising(stream[s], UnitOrder)
         /\ \A u \in Elements(stream[s]) : <<s, u[1]>> \in out /\ UnitHandedBefore(s, u)
         /\ thread[s] \in {"body", "hand"} =>
              \A u \in Elements(buf[s]) :
                /\ <<s, u[1]>> \in out /\ UnitHandedBefore(s, u)
                /\ \A v \in Elements(stream[s]) : <<u, v>> \in UnitOrder

(* ZeroMQ: the wire of a message is its last frame.                        *)
WireOf(m) == m[Len(m)]
FrameOrder == {p \in Seq(Frame) \X Seq(Frame) : WireOf(p[1])[2] < WireOf(p[2])[2]}

LeadsQueue(w) ==
  /\ w \in out /\ HandedBefore(w)
  /\ \A m \in Elements(queue[w[1]]) : w[2] < WireOf(m)[2]

ZmqOrder ==
  protocol = "zmq_tcp" =>
    /\ \A w \in out : w[2] < at[w[1]]
    /\ \A s \in Senders :
         /\ Rising(queue[s], FrameOrder)
         /\ \A m \in Elements(queue[s]) :
              WireOf(m) \in out /\ WireOf(m)[1] = s /\ HandedBefore(WireOf(m))
    /\ loop \in {"more", "hand"} => LeadsQueue(WireOf(frames))

(* MQTT: a message a sender waits for has gone already, so that only an    *)
(* idle sender that is connected sends one that has not.                   *)
WireOrder == {p \in Wires \X Wires : Before(p[1], p[2])}

(* callback is a message or there is none.                                 *)
CalledBefore(w) == callback # Nothing => Before(callback, w)

NextIsNew ==
  /\ \A w \in out : w[2] <= at[w[1]]
  /\ \A s \in Senders :
       client[s] \in {"none", "open"} /\ publish[s] = "idle" => <<s, at[s]>> \notin out

Following(w) == w \in out /\ HandedBefore(w) /\ CalledBefore(w)

MqttOrder ==
  protocol = "mqtt_tcp" =>
    /\ NextIsNew
    /\ \A s \in Senders :
         /\ Rising(up[s], WireOrder)
         /\ \A w \in Elements(up[s]) :
              Following(w) /\ w[1] = s /\ \A v \in Elements(down) : Before(v, w)
    /\ Rising(down, WireOrder)
    /\ \A w \in Elements(down) : Following(w)
    /\ callback # Nothing => callback \in out /\ HandedBefore(callback)

OrderInv == SharedOrder /\ TcpOrder /\ ZmqOrder /\ MqttOrder

LEMMA PartOfRising ==
  ASSUME NEW S, NEW R, NEW q \in Seq(S), NEW k \in 1 .. Len(q) + 1, NEW l \in 0 .. Len(q)
  PROVE  /\ Elements(SubSeq(q, k, l)) \subseteq Elements(q)
         /\ Rising(q, R) => Rising(SubSeq(q, k, l), R)
<1> DEFINE r == SubSeq(q, k, l)
<1>1. /\ DOMAIN r = 1 .. IF k <= l THEN l - k + 1 ELSE 0
      /\ \A j \in DOMAIN r : k + j - 1 \in DOMAIN q /\ r[j] = q[k + j - 1]
  <2>1. /\ r \in Seq(S) /\ Len(r) = IF k <= l THEN l - k + 1 ELSE 0
        /\ \A j \in 1 .. Len(r) : r[j] = q[k + j - 1]
    BY SubSeqProperties
  <2>2. DOMAIN r = 1 .. Len(r) /\ DOMAIN q = 1 .. Len(q)
    BY <2>1
  <2> QED
    BY <2>1, <2>2
<1> HIDE DEF r
<1>2. Elements(r) \subseteq Elements(q)
  BY <1>1 DEF Elements
<1>3. ASSUME Rising(q, R), NEW i \in DOMAIN r, NEW j \in DOMAIN r, i < j
      PROVE  <<r[i], r[j]>> \in R
  <2>1. k + i - 1 < k + j - 1
    BY <1>1, <1>3
  <2> QED
    BY <1>1, <1>3, <2>1 DEF Rising
<1> QED
  BY <1>2, <1>3 DEF Rising, r

LEMMA HeadOfRising ==
  ASSUME NEW S, NEW R, NEW q \in Seq(S), q # <<>>
  PROVE  /\ Head(q) \in Elements(q) /\ Elements(Tail(q)) \subseteq Elements(q)
         /\ Rising(q, R) => Rising(Tail(q), R)
         /\ Rising(q, R) => \A e \in Elements(Tail(q)) : <<Head(q), e>> \in R
<1>1. /\ Tail(q) \in Seq(S) /\ Len(Tail(q)) = Len(q) - 1 /\ Head(q) = q[1] /\ Len(q) \in Nat \ {0}
      /\ \A k \in 1 .. Len(Tail(q)) : Tail(q)[k] = q[k + 1]
  BY HeadTailProperties
<1>2. DOMAIN q = 1 .. Len(q) /\ DOMAIN Tail(q) = 1 .. Len(q) - 1
  BY <1>1
<1>3. Head(q) \in Elements(q) /\ Elements(Tail(q)) \subseteq Elements(q)
  BY <1>1, <1>2 DEF Elements
<1>4. ASSUME Rising(q, R) PROVE Rising(Tail(q), R)
  <2> SUFFICES ASSUME NEW k \in 1 .. Len(q) - 1, NEW l \in 1 .. Len(q) - 1, k < l
               PROVE  <<Tail(q)[k], Tail(q)[l]>> \in R
    BY <1>2 DEF Rising
  <2>1. Tail(q)[k] = q[k + 1] /\ Tail(q)[l] = q[l + 1]
    BY <1>1
  <2>2. k + 1 \in DOMAIN q /\ l + 1 \in DOMAIN q /\ k + 1 < l + 1
    BY <1>1, <1>2
  <2> QED
    BY <1>4, <2>1, <2>2 DEF Rising
<1>5. ASSUME Rising(q, R), NEW e \in Elements(Tail(q)) PROVE <<Head(q), e>> \in R
  <2>1. PICK k \in 1 .. Len(q) - 1 : e = Tail(q)[k]
    BY <1>2 DEF Elements
  <2>2. e = q[k + 1] /\ k + 1 \in DOMAIN q /\ 1 \in DOMAIN q /\ 1 < k + 1
    BY <1>1, <1>2, <2>1
  <2> QED
    BY <1>1, <1>5, <2>2 DEF Rising
<1> QED
  BY <1>3, <1>4, <1>5

LEMMA ElementsOfAppend ==
  ASSUME NEW S, NEW q \in Seq(S), NEW e \in S
  PROVE  Elements(Append(q, e)) = Elements(q) \cup {e}
<1>1. /\ DOMAIN Append(q, e) = 1 .. Len(q) + 1 /\ DOMAIN q = 1 .. Len(q) /\ Len(q) \in Nat
      /\ Append(q, e)[Len(q) + 1] = e
      /\ \A k \in 1 .. Len(q) : Append(q, e)[k] = q[k]
  BY AppendProperties
<1>2. 1 .. Len(q) + 1 = (1 .. Len(q)) \cup {Len(q) + 1}
  BY <1>1
<1> QED
  BY <1>1, <1>2 DEF Elements

LEMMA AppendToRising ==
  ASSUME NEW S, NEW R, NEW q \in Seq(S), NEW e \in S
  PROVE  Rising(q, R) /\ (\A d \in Elements(q) : <<d, e>> \in R) => Rising(Append(q, e), R)
<1>1. /\ DOMAIN Append(q, e) = 1 .. Len(q) + 1 /\ DOMAIN q = 1 .. Len(q) /\ Len(q) \in Nat
      /\ Append(q, e)[Len(q) + 1] = e
      /\ \A k \in 1 .. Len(q) : Append(q, e)[k] = q[k]
  BY AppendProperties
<1>2. ASSUME Rising(q, R), \A d \in Elements(q) : <<d, e>> \in R,
             NEW k \in 1 .. Len(q) + 1, NEW l \in 1 .. Len(q) + 1, k < l
      PROVE  <<Append(q, e)[k], Append(q, e)[l]>> \in R
  <2>1. k \in DOMAIN q /\ Append(q, e)[k] = q[k] /\ q[k] \in Elements(q)
    BY <1>1, <1>2 DEF Elements
  <2>2. CASE l = Len(q) + 1
    BY <1>1, <1>2, <2>1, <2>2
  <2>3. CASE l # Len(q) + 1
    <3>1. l \in DOMAIN q /\ Append(q, e)[l] = q[l]
      BY <1>1, <2>3
    <3> QED
      BY <1>2, <2>1, <3>1 DEF Rising
  <2> QED
    BY <2>2, <2>3
<1> QED
  BY <1>1, <1>2 DEF Rising

LEMMA ConcatOfRising ==
  ASSUME NEW S, NEW R, NEW q \in Seq(S), NEW r \in Seq(S)
  PROVE  /\ Elements(q \o r) = Elements(q) \cup Elements(r)
         /\ Rising(q, R) /\ Rising(r, R) /\ (\A d \in Elements(q), e \in Elements(r) : <<d, e>> \in R)
              => Rising(q \o r, R)
<1>1. /\ q \o r \in Seq(S) /\ Len(q \o r) = Len(q) + Len(r) /\ Len(q) \in Nat /\ Len(r) \in Nat
      /\ \A k \in 1 .. Len(q) + Len(r) :
           (q \o r)[k] = IF k <= Len(q) THEN q[k] ELSE r[k - Len(q)]
  BY ConcatProperties, LenProperties
<1> DEFINE t == q \o r
<1>2. DOMAIN t = 1 .. Len(q) + Len(r) /\ DOMAIN q = 1 .. Len(q) /\ DOMAIN r = 1 .. Len(r)
  BY <1>1
<1>3. \A k \in DOMAIN t :
        \/ k \in DOMAIN q /\ t[k] = q[k]
        \/ k > Len(q) /\ k - Len(q) \in DOMAIN r /\ t[k] = r[k - Len(q)]
  BY <1>1, <1>2
<1>4. \A k \in DOMAIN r : k + Len(q) \in DOMAIN t /\ t[k + Len(q)] = r[k]
  BY <1>1, <1>2
<1>5. \A k \in DOMAIN q : k \in DOMAIN t /\ t[k] = q[k]
  BY <1>1, <1>2
<1> HIDE DEF t
<1>6. Elements(t) = Elements(q) \cup Elements(r)
  <2>1. Elements(t) \subseteq Elements(q) \cup Elements(r)
    BY <1>3 DEF Elements
  <2>2. Elements(q) \subseteq Elements(t)
    BY <1>5 DEF Elements
  <2>3. Elements(r) \subseteq Elements(t)
    BY <1>4 DEF Elements
  <2> QED
    BY <2>1, <2>2, <2>3
<1>7. ASSUME Rising(q, R), Rising(r, R), \A d \in Elements(q), e \in Elements(r) : <<d, e>> \in R,
             NEW k \in DOMAIN t, NEW l \in DOMAIN t, k < l
      PROVE  <<t[k], t[l]>> \in R
  <2>1. CASE k \in DOMAIN q /\ l \in DOMAIN q
    BY <1>5, <1>7, <2>1 DEF Rising
  <2>2. CASE k \in DOMAIN q /\ l \notin DOMAIN q
    <3>1. t[l] \in Elements(r) /\ t[k] \in Elements(q)
      BY <1>3, <1>5, <2>2 DEF Elements
    <3> QED
      BY <1>7, <3>1
  <2>3. CASE k \notin DOMAIN q
    <3>1. /\ k - Len(q) \in DOMAIN r /\ t[k] = r[k - Len(q)] /\ k > Len(q)
      BY <1>3, <2>3
    <3>2. l \notin DOMAIN q
      BY <1>1, <1>2, <1>7, <3>1
    <3>3. l - Len(q) \in DOMAIN r /\ t[l] = r[l - Len(q)] /\ k - Len(q) < l - Len(q)
      BY <1>1, <1>2, <1>3, <1>7, <3>2
    <3> QED
      BY <1>7, <3>1, <3>3 DEF Rising
  <2> QED
    BY <2>1, <2>2, <2>3
<1> QED
  BY <1>6, <1>7 DEF Rising, t

LEMMA CutOfRising ==
  ASSUME NEW S, NEW R, NEW q \in Seq(S), Rising(q, R),
         NEW k \in 0 .. Len(q), NEW j \in k .. Len(q)
  PROVE  /\ Elements(SubSeq(q, 1, k) \o SubSeq(q, j + 1, Len(q))) \subseteq Elements(q)
         /\ Rising(SubSeq(q, 1, k) \o SubSeq(q, j + 1, Len(q)), R)
<1> DEFINE a == SubSeq(q, 1, k)
           b == SubSeq(q, j + 1, Len(q))
<1>1. /\ Len(q) \in Nat /\ 1 \in 1 .. Len(q) + 1 /\ k \in Nat /\ j \in Nat
      /\ j + 1 \in 1 .. Len(q) + 1 /\ Len(q) \in 0 .. Len(q) /\ DOMAIN q = 1 .. Len(q)
  OBVIOUS
<1>2. /\ Elements(a) \subseteq Elements(q) /\ Rising(a, R)
      /\ Elements(b) \subseteq Elements(q) /\ Rising(b, R)
  BY <1>1, PartOfRising
<1>3. /\ a \in Seq(S) /\ Len(a) = k /\ \A i \in 1 .. k : a[i] = q[i]
      /\ DOMAIN a = 1 .. k
  BY <1>1, SubSeqProperties
<1>4. /\ b \in Seq(S) /\ Len(b) = Len(q) - j /\ \A i \in 1 .. Len(b) : b[i] = q[j + i]
      /\ DOMAIN b = 1 .. Len(b)
  <2> DEFINE i1 == j + 1
             n == Len(q)
  <2>1. /\ i1 \in Int /\ n \in Int /\ \A i \in i1 .. n : q[i] \in S
        /\ i1 = j + 1 /\ j <= n /\ j \in Int
    BY <1>1
  <2> HIDE DEF i1, n
  <2>2. /\ SubSeq(q, i1, n) \in Seq(S) /\ Len(SubSeq(q, i1, n)) = IF i1 <= n THEN n - i1 + 1 ELSE 0
        /\ \A i \in 1 .. n - i1 + 1 : SubSeq(q, i1, n)[i] = q[i1 + i - 1]
    BY <2>1, SubSeqProperties
  <2>3. Len(SubSeq(q, i1, n)) = n - i1 + 1 /\ n - i1 + 1 = n - j
    BY <2>1, <2>2
  <2>4. \A i \in 1 .. n - j : i1 + i - 1 = j + i
    BY <2>1
  <2>5. b = SubSeq(q, i1, n)
    BY DEF i1, n
  <2>6. b \in Seq(S) /\ Len(b) = n - j /\ \A i \in 1 .. n - j : b[i] = q[j + i]
    BY <2>2, <2>3, <2>4, <2>5
  <2> QED
    BY <2>6 DEF n
<1> HIDE DEF a, b
<1>5. ASSUME NEW d \in Elements(a), NEW e \in Elements(b) PROVE <<d, e>> \in R
  <2>1. PICK i \in 1 .. k : d = q[i]
    BY <1>3 DEF Elements
  <2>2. PICK l \in 1 .. Len(b) : e = q[j + l]
    BY <1>4 DEF Elements
  <2>3. i \in DOMAIN q /\ j + l \in DOMAIN q /\ i < j + l
    BY <1>1, <1>4
  <2> QED
    BY <2>1, <2>2, <2>3 DEF Rising
<1>6. Elements(a \o b) = Elements(a) \cup Elements(b) /\ Rising(a \o b, R)
  BY <1>2, <1>3, <1>4, <1>5, ConcatOfRising
<1> QED
  BY <1>2, <1>6 DEF a, b

LEMMA ElementsInside ==
  ASSUME NEW S, NEW q \in Seq(S)
  PROVE  Elements(q) \subseteq S
BY DEF Elements

-----------------------------------------------------------------------------
(* What a step of any transport shows to the outside: do_send is called    *)
(* for a message, or a message that follows all its sender's others is     *)
(* handed up.                                                              *)

Took(w) == handed' = handed /\ out' = out \cup {w}

Gave(w, intact) ==
  /\ w \in out /\ HandedBefore(w)
  /\ handed' = Append(handed, [wire |-> w, intact |-> intact])
  /\ out' = out

Observed ==
  \/ handed' = handed /\ out' = out
  \/ \E w \in Wires : Took(w)
  \/ \E w \in Wires, intact \in BOOLEAN : Gave(w, intact)

LEMMA GivenWires ==
  ASSUME TypeOK, NEW w \in Wires, NEW intact \in BOOLEAN, Gave(w, intact)
  PROVE  /\ DOMAIN handed' = (DOMAIN handed) \cup {Len(handed) + 1}
         /\ Len(handed) \in Nat /\ DOMAIN handed = 1 .. Len(handed)
         /\ handed'[Len(handed) + 1] = [wire |-> w, intact |-> intact]
         /\ handed'[Len(handed) + 1].wire = w
         /\ \A i \in DOMAIN handed : handed'[i] = handed[i]
<1>1. handed \in Seq([wire : Wires, intact : BOOLEAN])
  BY DEF TypeOK
<1>2. [wire |-> w, intact |-> intact] \in [wire : Wires, intact : BOOLEAN]
  OBVIOUS
<1>3. /\ Len(handed') = Len(handed) + 1 /\ handed' \in Seq([wire : Wires, intact : BOOLEAN])
      /\ \A i \in 1 .. Len(handed) : handed'[i] = handed[i]
      /\ handed'[Len(handed) + 1] = [wire |-> w, intact |-> intact]
  BY <1>1, <1>2, AppendProperties DEF Gave
<1>4. Len(handed) \in Nat /\ DOMAIN handed = 1 .. Len(handed) /\ DOMAIN handed' = 1 .. Len(handed) + 1
  BY <1>1, <1>3
<1>5. [wire |-> w, intact |-> intact].wire = w
  OBVIOUS
<1> QED
  BY <1>3, <1>4, <1>5

LEMMA ObservedKeepsOrder ==
  ASSUME TypeOK, SharedOrder, Observed
  PROVE  SharedOrder'
<1>1. CASE handed' = handed /\ out \subseteq out'
  BY <1>1 DEF SharedOrder, ArrivesInOrder
<1>2. ASSUME NEW w \in Wires, NEW intact \in BOOLEAN, Gave(w, intact) PROVE SharedOrder'
  <2> DEFINE n == Len(handed) + 1
  <2>1. /\ DOMAIN handed' = (DOMAIN handed) \cup {n}
        /\ \A i \in DOMAIN handed : i < n /\ handed'[i] = handed[i]
        /\ handed'[n].wire = w /\ out' = out /\ w \in out /\ HandedBefore(w) /\ n \in Nat
    BY <1>2, GivenWires DEF Gave
  <2>2. \A i \in DOMAIN handed' : handed'[i].wire \in out'
    BY <2>1 DEF SharedOrder
  <2> HIDE DEF n
  <2>3. ASSUME NEW i \in DOMAIN handed', NEW j \in DOMAIN handed', i < j,
               handed'[i].wire[1] = handed'[j].wire[1]
        PROVE  handed'[i].wire[2] < handed'[j].wire[2]
    <3>1. i \in DOMAIN handed
      <4>1. CASE i = n /\ j = n
        BY <2>1, <2>3, <4>1
      <4>2. CASE i = n /\ j \in DOMAIN handed
        <5>1. j < n /\ j \in Nat
          BY <2>1, <4>2, GivenWires, <1>2
        <5> QED
          BY <2>1, <2>3, <4>2, <5>1
      <4> QED
        BY <2>1, <2>3, <4>1, <4>2
    <3>2. CASE j \in DOMAIN handed
      BY <2>1, <2>3, <3>1, <3>2 DEF SharedOrder, ArrivesInOrder
    <3>3. CASE j = n
      BY <2>1, <2>3, <3>1, <3>3 DEF HandedBefore, Before
    <3> QED
      BY <2>1, <3>2, <3>3
  <2> QED
    BY <2>2, <2>3 DEF SharedOrder, ArrivesInOrder
<1> QED
  BY <1>1, <1>2 DEF Observed, Took

(* HandedBefore of what is still on its way.                               *)
LEMMA StillBefore ==
  ASSUME TypeOK, NEW v \in Wires, HandedBefore(v),
         \/ handed' = handed
         \/ \E w \in Wires, intact \in BOOLEAN : Gave(w, intact) /\ Before(w, v)
  PROVE  HandedBefore(v)'
<1>1. CASE handed' = handed
  BY <1>1 DEF HandedBefore
<1>2. ASSUME NEW w \in Wires, NEW intact \in BOOLEAN, Gave(w, intact), Before(w, v)
      PROVE  HandedBefore(v)'
  <2>1. /\ DOMAIN handed' = (DOMAIN handed) \cup {Len(handed) + 1}
        /\ \A i \in DOMAIN handed : handed'[i] = handed[i]
        /\ handed'[Len(handed) + 1].wire = w
    BY <1>2, GivenWires
  <2>2. \A i \in DOMAIN handed' : Before(handed'[i].wire, v)
    BY <1>2, <2>1 DEF HandedBefore
  <2> QED
    BY <2>2 DEF HandedBefore
<1> QED
  BY <1>1, <1>2

(* A message that follows all of its sender's has not been handed up.      *)
Hits(h, w) == {i \in DOMAIN h : h[i] = [wire |-> w, intact |-> TRUE]}

LEMMA GaveIsChannelStep ==
  ASSUME TypeOK, NEW w \in Wires, NEW intact \in BOOLEAN, Gave(w, intact)
  PROVE  [Channel!Next]_<<out, Delivered>>
<1> DEFINE n == Len(handed) + 1
<1>1. /\ DOMAIN handed' = (DOMAIN handed) \cup {n} /\ n \notin DOMAIN handed
      /\ handed'[n] = [wire |-> w, intact |-> intact]
      /\ \A i \in DOMAIN handed : handed'[i] = handed[i]
  <2>1. n \notin 1 .. Len(handed)
    BY GivenWires
  <2> QED
    BY <2>1, GivenWires
<1> HIDE DEF n
<1>2. ASSUME NEW v \in Wires
      PROVE  Hits(handed', v) = Hits(handed, v) \cup
               IF handed'[n] = [wire |-> v, intact |-> TRUE] THEN {n} ELSE {}
  BY <1>1 DEF Hits
<1>3. Delivered = [v \in Wires |-> Cardinality(Hits(handed, v))]
  BY DEF Delivered, Hits
<1>4. Delivered' = [v \in Wires |-> Cardinality(Hits(handed', v))]
  BY DEF Delivered, Hits
<1>5. CASE intact = FALSE
  <2>1. \A v \in Wires : handed'[n] # [wire |-> v, intact |-> TRUE]
    BY <1>1, <1>5
  <2>2. \A v \in Wires : Hits(handed', v) = Hits(handed, v)
    BY <1>2, <2>1
  <2>3. Delivered' = Delivered
    BY <1>3, <1>4, <2>2
  <2> QED
    BY <2>3 DEF Gave
<1>6. CASE intact = TRUE
  <2>1. Hits(handed, w) = {}
    <3> SUFFICES ASSUME NEW i \in DOMAIN handed, handed[i] = [wire |-> w, intact |-> TRUE]
                 PROVE  FALSE
      BY DEF Hits
    <3>1. handed[i].wire = w
      OBVIOUS
    <3>2. Before(w, w)
      BY <3>1 DEF Gave, HandedBefore
    <3>3. w[2] \in Int
      BY CountIsNat DEF Wires
    <3> QED
      BY <3>2, <3>3 DEF Before
  <2>2. handed'[n] = [wire |-> w, intact |-> TRUE]
    BY <1>1, <1>6
  <2>3. \A v \in Wires : v # w => handed'[n] # [wire |-> v, intact |-> TRUE]
    <3> SUFFICES ASSUME NEW v \in Wires, [wire |-> w, intact |-> TRUE] = [wire |-> v, intact |-> TRUE]
                 PROVE  v = w
      BY <2>2
    <3>1. [wire |-> w, intact |-> TRUE].wire = w /\ [wire |-> v, intact |-> TRUE].wire = v
      OBVIOUS
    <3> QED
      BY <3>1
  <2>4. Hits(handed', w) = {n} /\ \A v \in Wires : v # w => Hits(handed', v) = Hits(handed, v)
    BY <1>2, <2>1, <2>2, <2>3
  <2>5. Cardinality(Hits(handed, w)) = 0 /\ Cardinality(Hits(handed', w)) = 1
    BY <2>1, <2>4, FS_EmptySet, FS_Singleton
  <2>6. Delivered[w] = 0 /\ Delivered'[w] = 1
    BY <1>3, <1>4, <2>5
  <2>7. \A v \in Wires : v # w => Delivered'[v] = Delivered[v]
    BY <1>3, <1>4, <2>4
  <2>8. Delivered' = [Delivered EXCEPT ![w] = @ + 1]
    BY <1>3, <1>4, <2>6, <2>7
  <2>9. Channel!Deliver(w)
    BY <2>6, <2>8 DEF Channel!Deliver, Gave
  <2> QED
    BY <2>9 DEF Channel!Next
<1> QED
  BY <1>5, <1>6

LEMMA ObservedIsChannelStep ==
  ASSUME TypeOK, Observed
  PROVE  [Channel!Next]_<<out, Delivered>>
<1>1. handed' = handed => Delivered' = Delivered
  BY DEF Delivered
<1>2. ASSUME NEW w \in Wires, Took(w) PROVE Channel!Send(w)
  BY <1>1, <1>2 DEF Channel!Send, Took
<1>3. CASE handed' = handed /\ out' = out
  BY <1>1, <1>3
<1> QED
  BY <1>2, <1>3, GaveIsChannelStep DEF Observed, Channel!Next

-----------------------------------------------------------------------------
(* TCP                                                                     *)

Reading(s) == thread[s] \in {"body", "hand"}

(* Less on the stream, less in the buffers.                                *)
LEMMA TcpOrderOfLess ==
  ASSUME TcpOrder, protocol = "tcp", UNCHANGED <<protocol, at, out, handed>>,
         \A s \in Senders :
           /\ Rising(stream'[s], UnitOrder)
           /\ Elements(stream'[s]) \subseteq Elements(stream[s])
           /\ Reading(s)' => \A u \in Elements(buf'[s]) : Reading(s) /\ u \in Elements(buf[s])
  PROVE  TcpOrder'
<1>1. \A s \in Senders : \A u : UnitHandedBefore(s, u)' <=> UnitHandedBefore(s, u)
  BY DEF UnitHandedBefore
<1>2. \A w \in out' : w[2] < at'[w[1]]
  BY DEF TcpOrder
<1>3. \A s \in Senders : \A u \in Elements(stream'[s]) : <<s, u[1]>> \in out' /\ UnitHandedBefore(s, u)'
  BY <1>1 DEF TcpOrder
<1>4. \A s \in Senders :
        Reading(s)' =>
          \A u \in Elements(buf'[s]) :
             /\ <<s, u[1]>> \in out' /\ UnitHandedBefore(s, u)'
             /\ \A v \in Elements(stream'[s]) : <<u, v>> \in UnitOrder
  BY <1>1 DEF TcpOrder, Reading
<1> QED
  BY <1>2, <1>3, <1>4 DEF TcpOrder, Reading

LEMMA UnitsRise ==
  ASSUME NEW n \in TCP!Numbers, NEW k \in 0 .. Sizes[n] + 2
  PROVE  /\ Rising(SubSeq(TCP!Units(n), 1, k), UnitOrder)
         /\ \A u \in Elements(SubSeq(TCP!Units(n), 1, k)) : u \in Unit /\ u[1] = n
<1>1. Sizes[n] + 2 \in Nat
  BY SizeOfMessage
<1>2. TCP!Units(n) \in Seq(Unit) /\ Len(TCP!Units(n)) = Sizes[n] + 2
  BY UnitsAreUnits
<1>3. DOMAIN TCP!Units(n) = 1 .. Sizes[n] + 2 /\ \A j \in 1 .. Sizes[n] + 2 : TCP!Units(n)[j] = <<n, j - 2>>
  BY <1>1 DEF TCP!Units
<1>4. Rising(TCP!Units(n), UnitOrder)
  <2> SUFFICES ASSUME NEW i \in 1 .. Sizes[n] + 2, NEW j \in 1 .. Sizes[n] + 2, i < j
               PROVE  <<<<n, i - 2>>, <<n, j - 2>>>> \in UnitOrder
    BY <1>3 DEF Rising
  <2>1. i - 2 \in Int /\ j - 2 \in Int /\ i - 2 < j - 2
    BY <1>1
  <2> QED
    BY <2>1 DEF UnitOrder, Unit
<1>5. \A u \in Elements(TCP!Units(n)) : u \in Unit /\ u[1] = n
  <2> SUFFICES ASSUME NEW u \in Elements(TCP!Units(n)) PROVE u \in Unit /\ u[1] = n
    OBVIOUS
  <2>1. PICK j \in 1 .. Sizes[n] + 2 : u = <<n, j - 2>>
    BY <1>3 DEF Elements
  <2> QED
    BY <1>1, <2>1 DEF Unit
<1> QED
  BY <1>1, <1>2, <1>4, <1>5, PartOfRising

LEMMA TcpOrderOfMore ==
  ASSUME TypeOK, SharedOrder, TcpOrder, protocol = "tcp", UNCHANGED protocol,
         NEW s \in Senders, NEW units \in Seq(Unit), TCP!Sent(s, units),
         Rising(units, UnitOrder), \A u \in Elements(units) : u[1] = at[s]
  PROVE  Observed /\ TcpOrder'
<1> DEFINE w == <<s, at[s]>>
<1>1. /\ at[s] \in 1 .. Count /\ out' = out \cup {w}
      /\ at' = [at EXCEPT ![s] = @ + 1]
      /\ stream' = [stream EXCEPT ![s] = @ \o units]
      /\ UNCHANGED <<handed, thread, buf>>
  BY CountIsNat DEF TCP!Sent
<1>2. w \in Wires /\ s \in Senders /\ at[s] \in Nat /\ at \in [Senders -> 1 .. Count + 1]
  BY <1>1, CountIsNat DEF Wires, TypeOK
<1>3. Observed
  BY <1>1, <1>2 DEF Observed, Took
<1>4. \A t \in Senders : \A u : UnitHandedBefore(t, u)' <=> UnitHandedBefore(t, u)
  BY <1>1 DEF UnitHandedBefore
<1>5. stream[s] \in Seq(Unit) /\ stream \in [Senders -> Seq(Unit)]
  BY DEF TypeOK, TcpTyped
<1>6. \A v \in out' : v[2] < at'[v[1]]
  <2>1. \A v \in out : v[1] \in Senders /\ v[2] \in Nat /\ v[2] < at[v[1]]
    <3>1. out \subseteq Senders \X (1 .. Count) /\ Count \in Nat
      BY CountIsNat DEF TypeOK, Wires
    <3>2. \A v \in out : v[1] \in Senders /\ v[2] \in Nat
      BY <3>1
    <3> QED
      BY <3>2 DEF TcpOrder
  <2>2. \A v \in out : v[2] < at'[v[1]]
    <3>1. \A t \in Senders : at'[t] \in Nat /\ at[t] \in Nat /\ at[t] <= at'[t]
      BY <1>1, <1>2, CountIsNat
    <3> QED
      BY <2>1, <3>1
  <2>3. w[2] < at'[w[1]]
    BY <1>1, <1>2
  <2> QED
    BY <1>1, <2>2, <2>3
<1>7. ASSUME NEW u \in Elements(units)
      PROVE  /\ u \in Unit /\ <<s, u[1]>> \in out' /\ UnitHandedBefore(s, u)
             /\ \A v \in Unit : <<s, v[1]>> \in out => <<v, u>> \in UnitOrder
  <2>1. u \in Unit /\ u[1] = at[s]
    BY <1>7, ElementsInside
  <2>2. ASSUME NEW v \in Unit, <<s, v[1]>> \in out PROVE <<v, u>> \in UnitOrder
    <3>1. v[1] < at[s]
      BY <2>2 DEF TcpOrder
    <3> QED
      BY <2>1, <3>1 DEF UnitOrder
  <2>3. ASSUME NEW i \in DOMAIN handed, handed[i].wire[1] = s
        PROVE  <<<<handed[i].wire[2], 1>>, u>> \in UnitOrder
    <3>1. handed[i].wire \in out /\ handed[i].wire \in Wires
      BY DEF SharedOrder, TypeOK
    <3>2. handed[i].wire = <<s, handed[i].wire[2]>> /\ handed[i].wire[2] \in TCP!Numbers
      BY <2>3, <3>1 DEF Wires
    <3>3. <<handed[i].wire[2], 1>> \in Unit
      BY <3>2 DEF Unit
    <3> QED
      BY <2>2, <3>1, <3>2, <3>3
  <2> QED
    BY <1>1, <2>1, <2>2, <2>3 DEF UnitHandedBefore
<1>8. \A v \in Elements(stream[s]) : v \in Unit /\ <<s, v[1]>> \in out
  BY <1>5, ElementsInside DEF TcpOrder
<1>9. Elements(stream'[s]) = Elements(stream[s]) \cup Elements(units) /\ Rising(stream'[s], UnitOrder)
  <2>1. stream'[s] = stream[s] \o units
    BY <1>1, <1>5
  <2>2. \A d \in Elements(stream[s]), e \in Elements(units) : <<d, e>> \in UnitOrder
    BY <1>7, <1>8
  <2>3. Rising(stream[s], UnitOrder)
    BY DEF TcpOrder
  <2> QED
    BY <1>5, <2>1, <2>2, <2>3, ConcatOfRising
<1>10. \A u \in Elements(stream'[s]) : <<s, u[1]>> \in out' /\ UnitHandedBefore(s, u)'
  BY <1>1, <1>4, <1>7, <1>9 DEF TcpOrder
<1>11. ASSUME Reading(s)', NEW u \in Elements(buf'[s])
       PROVE  /\ <<s, u[1]>> \in out' /\ UnitHandedBefore(s, u)'
              /\ \A v \in Elements(stream'[s]) : <<u, v>> \in UnitOrder
  <2>1. /\ <<s, u[1]>> \in out /\ UnitHandedBefore(s, u)
        /\ \A v \in Elements(stream[s]) : <<u, v>> \in UnitOrder
    BY <1>1, <1>11 DEF TcpOrder, Reading
  <2>2. u \in Unit
    BY <1>1, <1>11, ElementsInside DEF TypeOK, TcpTyped
  <2> QED
    BY <1>1, <1>4, <1>7, <1>9, <2>1, <2>2
<1>12. ASSUME NEW t \in Senders, t # s
       PROVE  /\ stream'[t] = stream[t]
              /\ \A u \in Elements(stream[t]) : <<t, u[1]>> \in out' /\ UnitHandedBefore(t, u)'
              /\ Reading(t)' =>
                   \A u \in Elements(buf'[t]) :
                     /\ <<t, u[1]>> \in out' /\ UnitHandedBefore(t, u)'
                     /\ \A v \in Elements(stream[t]) : <<u, v>> \in UnitOrder
  <2>1. stream'[t] = stream[t]
    BY <1>1, <1>5, <1>12
  <2> QED
    BY <1>1, <1>4, <2>1 DEF TcpOrder, Reading
<1>13. \A t \in Senders : Rising(stream'[t], UnitOrder)
  BY <1>9, <1>12 DEF TcpOrder
<1> QED
  BY <1>3, <1>6, <1>10, <1>11, <1>12, <1>13 DEF TcpOrder, Reading

LEMMA TcpOrderOfRecvBody ==
  ASSUME TypeOK, TcpOrder, protocol = "tcp", UNCHANGED protocol,
         NEW s \in Senders, TCP!RecvBody(s)
  PROVE  TcpOrder'
<1> DEFINE e == Head(stream[s])
<1>1. /\ thread[s] = "body" /\ stream[s] # <<>>
      /\ buf' = [buf EXCEPT ![s] = Append(@, e)]
      /\ stream' = [stream EXCEPT ![s] = Tail(@)]
      /\ UNCHANGED <<at, out, handed, thread>>
  BY DEF TCP!RecvBody, TCP!sharedVars
<1>2. /\ stream[s] \in Seq(Unit) /\ buf[s] \in Seq(Unit) /\ e \in Unit
      /\ stream'[s] = Tail(stream[s]) /\ buf'[s] = Append(buf[s], e)
      /\ \A t \in Senders : t # s => stream'[t] = stream[t] /\ buf'[t] = buf[t]
  BY <1>1 DEF TypeOK, TcpTyped
<1>3. \A t \in Senders : \A u : UnitHandedBefore(t, u)' <=> UnitHandedBefore(t, u)
  BY <1>1 DEF UnitHandedBefore
<1>4. /\ Elements(stream'[s]) \subseteq Elements(stream[s]) /\ e \in Elements(stream[s])
      /\ Rising(stream'[s], UnitOrder)
      /\ \A v \in Elements(stream'[s]) : <<e, v>> \in UnitOrder
  <2>1. Rising(stream[s], UnitOrder)
    BY DEF TcpOrder
  <2> QED
    BY <1>1, <1>2, <2>1, HeadOfRising
<1>5. Elements(buf'[s]) = Elements(buf[s]) \cup {e}
  BY <1>2, ElementsOfAppend
<1> HIDE DEF e
<1>6. \A t \in Senders :
        /\ Rising(stream'[t], UnitOrder)
        /\ \A u \in Elements(stream'[t]) : <<t, u[1]>> \in out' /\ UnitHandedBefore(t, u)'
  BY <1>1, <1>2, <1>3, <1>4 DEF TcpOrder
<1>7. ASSUME NEW u \in Elements(buf'[s])
      PROVE  /\ <<s, u[1]>> \in out' /\ UnitHandedBefore(s, u)'
             /\ \A v \in Elements(stream'[s]) : <<u, v>> \in UnitOrder
  <2>1. CASE u = e
    BY <1>1, <1>3, <1>4, <2>1 DEF TcpOrder
  <2>2. CASE u \in Elements(buf[s])
    BY <1>1, <1>3, <1>4, <2>2 DEF TcpOrder
  <2> QED
    BY <1>5, <1>7, <2>1, <2>2
<1>8. ASSUME NEW t \in Senders, t # s, Reading(t)', NEW u \in Elements(buf'[t])
      PROVE  /\ <<t, u[1]>> \in out' /\ UnitHandedBefore(t, u)'
             /\ \A v \in Elements(stream'[t]) : <<u, v>> \in UnitOrder
  BY <1>1, <1>2, <1>3, <1>8 DEF TcpOrder, Reading
<1>9. \A w \in out' : w[2] < at'[w[1]]
  BY <1>1 DEF TcpOrder
<1> QED
  BY <1>6, <1>7, <1>8, <1>9 DEF TcpOrder, Reading

LEMMA TcpHandGives ==
  ASSUME TypeOK, SharedOrder, TcpOrder, protocol = "tcp",
         NEW s \in Senders, TCP!Hand(s), TCP!IsWire(buf[s])
  PROVE  /\ buf[s] # <<>> /\ buf[s][1] \in Elements(buf[s]) /\ buf[s][1] = <<buf[s][1][1], 1>>
         /\ <<s, buf[s][1][1]>> \in Wires
         /\ \E intact \in BOOLEAN : Gave(<<s, buf[s][1][1]>>, intact)
<1> DEFINE u == buf[s][1]
           n == u[1]
           w == <<s, n>>
           intact == SubSeq(buf[s], 1, Sizes[n]) = TCP!Body(n)
<1>1. buf[s] \in Seq(Unit) /\ buf[s] # <<>> /\ u[2] = 1
  BY DEF TypeOK, TcpTyped, TCP!IsWire
<1>2. u \in Elements(buf[s]) /\ u \in Unit
  <2>1. 1 \in DOMAIN buf[s]
    BY <1>1
  <2> QED
    BY <1>1, <2>1, ElementsInside DEF Elements
<1>3. u = <<n, 1>> /\ n \in TCP!Numbers
  BY <1>1, <1>2 DEF Unit
<1>4. w \in Wires
  BY <1>3 DEF Wires
<1>5. handed' = Append(handed, [wire |-> w, intact |-> intact]) /\ out' = out /\ thread[s] = "hand"
  BY DEF TCP!Hand, TCP!Goto
<1>6. w \in out /\ UnitHandedBefore(s, u)
  BY <1>2, <1>5 DEF TcpOrder
<1>7. intact \in BOOLEAN
  OBVIOUS
<1> HIDE DEF intact, u
<1>8. HandedBefore(w)
  <2> SUFFICES ASSUME NEW i \in DOMAIN handed, handed[i].wire[1] = s
               PROVE  handed[i].wire[2] < n
    BY DEF HandedBefore, Before
  <2>1. <<<<handed[i].wire[2], 1>>, <<n, 1>>>> \in UnitOrder
    BY <1>3, <1>6 DEF UnitHandedBefore
  <2> QED
    BY <2>1 DEF UnitOrder
<1>9. Gave(w, intact)
  BY <1>5, <1>6, <1>8 DEF Gave
<1> QED
  BY <1>1, <1>2, <1>3, <1>4, <1>7, <1>9 DEF u

LEMMA TcpOrderOfHand ==
  ASSUME TypeOK, SharedOrder, TcpOrder, protocol = "tcp", UNCHANGED protocol,
         NEW s \in Senders, TCP!Hand(s)
  PROVE  Observed /\ TcpOrder'
<1>1. /\ thread[s] = "hand" /\ thread' = [thread EXCEPT ![s] = "test"]
      /\ UNCHANGED <<at, out, stream, buf>>
  BY DEF TCP!Hand, TCP!Goto
<1>2. /\ ~Reading(s)' /\ \A t \in Senders : t # s => (Reading(t)' <=> Reading(t))
  BY <1>1 DEF Reading, TypeOK, TcpTyped
<1>3. CASE ~TCP!IsWire(buf[s])
  <2>1. handed' = handed
    BY <1>3 DEF TCP!Hand
  <2>2. TcpOrder'
    <3>1. \A t \in Senders :
            /\ Rising(stream'[t], UnitOrder)
            /\ Elements(stream'[t]) \subseteq Elements(stream[t])
            /\ Reading(t)' => \A u \in Elements(buf'[t]) : Reading(t) /\ u \in Elements(buf[t])
      BY <1>1, <1>2 DEF TcpOrder
    <3> QED
      BY <1>1, <2>1, <3>1, TcpOrderOfLess
  <2> QED
    BY <1>1, <2>1, <2>2 DEF Observed
<1>4. CASE TCP!IsWire(buf[s])
  <2> DEFINE u == buf[s][1]
             w == <<s, u[1]>>
  <2>1. u \in Elements(buf[s]) /\ u = <<u[1], 1>> /\ w \in Wires
    BY <1>4, TcpHandGives
  <2>2. PICK intact \in BOOLEAN : Gave(w, intact)
    BY <1>4, TcpHandGives
  <2> HIDE DEF u
  <2>3. Observed
    BY <2>1, <2>2 DEF Observed
  <2>4. /\ DOMAIN handed' = (DOMAIN handed) \cup {Len(handed) + 1}
        /\ handed'[Len(handed) + 1].wire = w
        /\ \A i \in DOMAIN handed : handed'[i] = handed[i]
    BY <2>1, <2>2, GivenWires
  <2>5. ASSUME NEW t \in Senders, NEW v, UnitHandedBefore(t, v), t = s => <<u, v>> \in UnitOrder
        PROVE  UnitHandedBefore(t, v)'
    <3> SUFFICES ASSUME NEW i \in DOMAIN handed', handed'[i].wire[1] = t
                 PROVE  <<<<handed'[i].wire[2], 1>>, v>> \in UnitOrder
      BY DEF UnitHandedBefore
    <3>1. CASE i \in DOMAIN handed
      BY <2>4, <2>5, <3>1 DEF UnitHandedBefore
    <3>2. CASE i = Len(handed) + 1
      <4>1. w[1] = s /\ w[2] = u[1]
        OBVIOUS
      <4>2. t = s /\ <<handed'[i].wire[2], 1>> = u
        BY <2>1, <2>4, <3>2, <4>1
      <4> QED
        BY <2>5, <4>2
    <3> QED
      BY <2>4, <3>1, <3>2
  <2>6. ASSUME NEW t \in Senders, NEW v \in Elements(stream[t])
        PROVE  <<t, v[1]>> \in out' /\ UnitHandedBefore(t, v)'
    <3>1. <<t, v[1]>> \in out /\ UnitHandedBefore(t, v)
      BY DEF TcpOrder
    <3>2. t = s => <<u, v>> \in UnitOrder
      BY <1>1, <2>1 DEF TcpOrder
    <3> QED
      BY <1>1, <2>5, <3>1, <3>2
  <2>7. ASSUME NEW t \in Senders, Reading(t)', NEW v \in Elements(buf[t])
        PROVE  /\ <<t, v[1]>> \in out' /\ UnitHandedBefore(t, v)'
               /\ \A x \in Elements(stream[t]) : <<v, x>> \in UnitOrder
    <3>1. t # s /\ Reading(t)
      BY <1>2, <2>7
    <3>2. /\ <<t, v[1]>> \in out /\ UnitHandedBefore(t, v)
          /\ \A x \in Elements(stream[t]) : <<v, x>> \in UnitOrder
      BY <3>1 DEF TcpOrder, Reading
    <3> QED
      BY <1>1, <2>5, <3>1, <3>2
  <2>8. /\ \A v \in out' : v[2] < at'[v[1]]
        /\ \A t \in Senders : Rising(stream'[t], UnitOrder)
    BY <1>1 DEF TcpOrder
  <2>9. TcpOrder'
    BY <1>1, <2>6, <2>7, <2>8 DEF TcpOrder, Reading
  <2> QED
    BY <2>3, <2>9
<1> QED
  BY <1>3, <1>4

LEMMA TcpOrderStep ==
  ASSUME TypeOK, SharedOrder, TcpOrder, protocol = "tcp", UNCHANGED protocol, TCP!Next
  PROVE  Observed /\ TcpOrder'
<1> DEFINE Goal == Observed /\ TcpOrder'
<1>1. ASSUME UNCHANGED <<at, out, handed>>,
             \A s \in Senders :
               /\ \/ stream'[s] = stream[s]
                  \/ \E k \in 1 .. Len(stream[s]) + 1, l \in 0 .. Len(stream[s]) :
                       stream'[s] = SubSeq(stream[s], k, l)
               /\ \/ Reading(s)' => Reading(s)
                  \/ buf'[s] = <<>>
               /\ buf'[s] = buf[s] \/ buf'[s] = <<>>
      PROVE  Goal
  <2>1. ASSUME NEW s \in Senders
        PROVE  Rising(stream'[s], UnitOrder) /\ Elements(stream'[s]) \subseteq Elements(stream[s])
    <3>1. stream[s] \in Seq(Unit) /\ Rising(stream[s], UnitOrder)
      BY DEF TypeOK, TcpTyped, TcpOrder
    <3> QED
      BY <1>1, <3>1, PartOfRising
  <2>2. Elements(<<>>) = {}
    BY DEF Elements
  <2>3. \A s \in Senders :
          Reading(s)' => \A u \in Elements(buf'[s]) : Reading(s) /\ u \in Elements(buf[s])
    BY <1>1, <2>2
  <2> QED
    BY <1>1, <2>1, <2>3, TcpOrderOfLess DEF Observed
<1> USE DEF TCP!sharedVars, TCP!Goto, TypeOK, TcpTyped
<1>2. ASSUME NEW s \in Senders, TCP!Connect(s) \/ TCP!Disconnect(s) PROVE Goal
  <2>1. UNCHANGED <<at, out, handed, stream, thread, buf>>
    BY <1>2 DEF TCP!Connect, TCP!Disconnect
  <2> QED
    BY <1>1, <2>1 DEF Reading
<1>3. ASSUME NEW s \in Senders, TCP!Send(s) PROVE Goal
  <2>1. at[s] \in TCP!Numbers /\ TCP!Sent(s, TCP!Units(at[s]))
    BY <1>3 DEF TCP!Send, TCP!Sent
  <2> DEFINE k == Sizes[at[s]] + 2
  <2>2. /\ TCP!Units(at[s]) \in Seq(Unit) /\ Len(TCP!Units(at[s])) = k
        /\ k \in Nat /\ k \in 0 .. Sizes[at[s]] + 2
    BY <2>1, UnitsAreUnits, SizeOfMessage
  <2>3. SubSeq(TCP!Units(at[s]), 1, k) = TCP!Units(at[s])
    BY <2>2, SubSeqFull
  <2>4. /\ Rising(TCP!Units(at[s]), UnitOrder)
        /\ \A u \in Elements(TCP!Units(at[s])) : u[1] = at[s]
    <3>1. /\ Rising(SubSeq(TCP!Units(at[s]), 1, k), UnitOrder)
          /\ \A u \in Elements(SubSeq(TCP!Units(at[s]), 1, k)) : u[1] = at[s]
      <4> HIDE DEF k
      <4> QED
        BY Zenon, <2>1, <2>2, UnitsRise
    <3> HIDE DEF k
    <3> QED
      BY Zenon, <2>3, <3>1
  <2> QED
    BY <2>1, <2>2, <2>4, TcpOrderOfMore
<1>4. ASSUME NEW s \in Senders, TCP!SendFails(s) PROVE Goal
  <2>1. PICK k \in 0 .. Sizes[at[s]] + 1 : TCP!Sent(s, SubSeq(TCP!Units(at[s]), 1, k))
    BY <1>4 DEF TCP!SendFails
  <2>2. at[s] \in TCP!Numbers /\ Sizes[at[s]] \in Nat
    BY <1>4, SizeOfMessage DEF TCP!SendFails
  <2>3. k \in 0 .. Sizes[at[s]] + 2
    BY <2>2
  <2>4. /\ SubSeq(TCP!Units(at[s]), 1, k) \in Seq(Unit)
        /\ Rising(SubSeq(TCP!Units(at[s]), 1, k), UnitOrder)
        /\ \A u \in Elements(SubSeq(TCP!Units(at[s]), 1, k)) : u[1] = at[s]
    BY <2>2, <2>3, PartOfUnits, UnitsRise
  <2> QED
    BY <2>1, <2>4, TcpOrderOfMore
<1>5. ASSUME NEW s \in Senders, TCP!Reset(s) PROVE Goal
  <2>1. PICK k \in 0 .. Len(stream[s]) : stream' = [stream EXCEPT ![s] = SubSeq(@, 1, k)]
    BY <1>5 DEF TCP!Reset
  <2>2. UNCHANGED <<at, out, handed, thread, buf>>
    BY <1>5 DEF TCP!Reset
  <2>3. stream[s] \in Seq(Unit) /\ 1 \in 1 .. Len(stream[s]) + 1
    OBVIOUS
  <2>4. \A t \in Senders :
          \/ stream'[t] = stream[t]
          \/ \E i \in 1 .. Len(stream[t]) + 1, l \in 0 .. Len(stream[t]) :
               stream'[t] = SubSeq(stream[t], i, l)
    BY <2>1, <2>3
  <2> QED
    BY <1>1, <2>2, <2>4 DEF Reading
<1>6. ASSUME NEW s \in Senders, TCP!Accept(s) \/ TCP!Test(s) \/ TCP!GotBody(s) \/ TCP!RecvEnd(s)
      PROVE  Goal
  <2>1. UNCHANGED <<at, out, handed, stream, buf>> /\ \A t \in Senders : Reading(t)' => Reading(t)
    BY <1>6 DEF TCP!Accept, TCP!Test, TCP!GotBody, TCP!RecvEnd, Reading
  <2> QED
    BY <1>1, <2>1
<1>7. ASSUME NEW s \in Senders, TCP!RecvLength(s) PROVE Goal
  <2>1. /\ stream' = [stream EXCEPT ![s] = SubSeq(@, 3, Len(@))] /\ Len(stream[s]) >= 2
        /\ buf' = [buf EXCEPT ![s] = <<>>] /\ thread' = [thread EXCEPT ![s] = "body"]
        /\ UNCHANGED <<at, out, handed>>
    BY <1>7 DEF TCP!RecvLength
  <2>2. stream[s] \in Seq(Unit)
    OBVIOUS
  <2>3. 3 \in 1 .. Len(stream[s]) + 1 /\ Len(stream[s]) \in 0 .. Len(stream[s])
    BY <2>1, <2>2
  <2>4. stream'[s] = SubSeq(stream[s], 3, Len(stream[s])) /\ buf'[s] = <<>>
    BY <2>1
  <2>5. \A t \in Senders : t # s => stream'[t] = stream[t] /\ buf'[t] = buf[t] /\ (Reading(t)' => Reading(t))
    BY <2>1 DEF Reading
  <2> QED
    BY <1>1, <2>1, <2>3, <2>4, <2>5
<1>8. ASSUME NEW s \in Senders, TCP!RecvBody(s) PROVE Goal
  <2>1. UNCHANGED <<out, handed>>
    BY <1>8 DEF TCP!RecvBody
  <2> QED
    BY <1>8, <2>1, TcpOrderOfRecvBody DEF Observed
<1>9. ASSUME NEW s \in Senders, TCP!Hand(s) PROVE Goal
  BY <1>9, TcpOrderOfHand
<1>10. CASE TCP!Stop
  <2>1. UNCHANGED <<at, out, handed, stream, thread, buf>>
    BY <1>10 DEF TCP!Stop, TCP!tcpVars
  <2> QED
    BY <1>1, <2>1 DEF Reading
<1> QED
  <2> HIDE DEF TypeOK, TcpTyped
  <2> QED
    BY <1>2, <1>3, <1>4, <1>5, <1>6, <1>7, <1>8, <1>9, <1>10
    DEF TCP!Next, TCP!SenderStep, TCP!ClientStep

-----------------------------------------------------------------------------
(* ZeroMQ                                                                  *)

LEMMA CarriedWire ==
  ASSUME NEW m \in Carried
  PROVE  WireOf(m) \in Wires /\ m \in Seq(Frame)
<1>1. \A w \in Wires : WireOf(<<w>>) = w /\ WireOf(<<Topic, w>>) = w
  BY DEF WireOf
<1>2. (\E w \in Wires : m = <<w>>) \/ (\E w \in Wires : m = <<Topic, w>>)
  BY DEF Carried
<1> QED
  BY <1>1, <1>2, CarriedIsFrames

(* The sender's queue holds messages of its own that do_send was called    *)
(* for; the next message follows them, and whatever has been handed up.    *)
LEMMA NextFollows ==
  ASSUME TypeOK, SharedOrder, \A w \in out : w[2] < at[w[1]], NEW s \in Senders
  PROVE  /\ HandedBefore(<<s, at[s]>>)
         /\ \A w \in out : Before(w, <<s, at[s]>>)
<1>1. \A w \in out : Before(w, <<s, at[s]>>)
  BY DEF Before
<1> QED
  BY <1>1 DEF HandedBefore, SharedOrder

LEMMA NextIsLast ==
  ASSUME TypeOK, \A w \in out : w[2] < at[w[1]], NEW s \in Senders,
         out' = out \cup {<<s, at[s]>>}, at' = [at EXCEPT ![s] = @ + 1]
  PROVE  \A w \in out' : w[2] < at'[w[1]]
<1>1. at \in [Senders -> 1 .. Count + 1] /\ Count \in Nat
  BY CountIsNat DEF TypeOK
<1>2. \A t \in Senders : at[t] \in Nat /\ at'[t] \in Nat /\ at[t] <= at'[t]
  BY <1>1
<1>3. out \subseteq Senders \X (1 .. Count)
  BY CountIsNat DEF TypeOK, Wires
<1>4. ASSUME NEW w \in out PROVE w[2] < at'[w[1]]
  <2>1. w[1] \in Senders /\ w[2] \in Nat /\ w[2] < at[w[1]]
    BY <1>1, <1>3
  <2> QED
    BY <1>2, <2>1
<1>5. at'[s] = at[s] + 1 /\ at[s] \in Nat
  BY <1>1
<1> QED
  BY <1>4, <1>5

LEMMA ZmqOrderOfLess ==
  ASSUME ZmqOrder, protocol = "zmq_tcp", UNCHANGED <<protocol, at, out, handed, frames>>,
         loop' \in {"more", "hand"} => loop \in {"more", "hand"},
         \A s \in Senders :
           Rising(queue'[s], FrameOrder) /\ Elements(queue'[s]) \subseteq Elements(queue[s]),
         TypeOK
  PROVE  ZmqOrder'
<1>1. \A w : HandedBefore(w)' <=> HandedBefore(w)
  BY DEF HandedBefore
<1>2. \A w \in out' : w[2] < at'[w[1]]
  BY DEF ZmqOrder
<1>3. \A s \in Senders : \A m \in Elements(queue'[s]) :
        WireOf(m) \in out' /\ WireOf(m)[1] = s /\ HandedBefore(WireOf(m))'
  BY <1>1 DEF ZmqOrder
<1>4. ASSUME NEW w, LeadsQueue(w) PROVE LeadsQueue(w)'
  <2>1. w[1] \in Senders
    BY <1>4 DEF LeadsQueue, TypeOK, Wires
  <2>2. \A m \in Elements(queue'[w[1]]) : w[2] < WireOf(m)[2]
    BY <1>4, <2>1 DEF LeadsQueue
  <2> QED
    BY <1>1, <1>4, <2>2 DEF LeadsQueue
<1>5. loop' \in {"more", "hand"} => LeadsQueue(WireOf(frames))'
  <2>1. loop' \in {"more", "hand"} => LeadsQueue(WireOf(frames))
    BY DEF ZmqOrder
  <2> DEFINE w == WireOf(frames)
  <2>2. w' = w
    BY DEF WireOf
  <2>3. LeadsQueue(w) => LeadsQueue(w)'
    BY <2>2, <1>4 DEF LeadsQueue, HandedBefore
  <2> QED
    BY <2>1, <2>3
<1> QED
  BY <1>2, <1>3, <1>5 DEF ZmqOrder

LEMMA ZmqOrderOfSend ==
  ASSUME TypeOK, SharedOrder, ZmqFramed, ZmqOrder, protocol = "zmq_tcp", UNCHANGED protocol,
         NEW s \in Senders, ZMQ!Send(s)
  PROVE  Observed /\ ZmqOrder'
<1> DEFINE w == <<s, at[s]>>
           m == ZMQ!Frames(w)
<1>1. /\ queue' = [queue EXCEPT ![s] = Append(@, m)] \/ queue' = queue
      /\ queue' # queue /\ pattern = "pub_sub" => ZMQ!Subscribed(s)
      /\ out' = out \cup {w} /\ at' = [at EXCEPT ![s] = @ + 1] /\ at[s] \in 1 .. Count
      /\ UNCHANGED <<handed, loop, frames>>
  <2> DEFINE taken == Len(queue[s]) < Hwm /\ (pattern = "pub_sub" => ZMQ!Subscribed(s))
  <2>1. /\ queue' = IF taken THEN [queue EXCEPT ![s] = Append(@, m)] ELSE queue
        /\ out' = out \cup {w} /\ at' = [at EXCEPT ![s] = @ + 1] /\ at[s] \in 1 .. Count
        /\ UNCHANGED <<handed, loop, frames>>
    BY CountIsNat DEF ZMQ!Send
  <2> QED
    BY <2>1
<1>2. w \in Wires /\ w[1] = s /\ w[2] = at[s] /\ at[s] \in Nat
  BY <1>1, CountIsNat DEF Wires
<1>3. Observed
  BY <1>1, <1>2 DEF Observed, Took
<1>4. \A v \in out : v[2] < at[v[1]]
  BY DEF ZmqOrder
<1>5. \A v \in out' : v[2] < at'[v[1]]
  BY <1>1, <1>4, NextIsLast
<1>6. HandedBefore(w) /\ (\A v \in out : Before(v, w)) /\ w \in out'
  BY <1>1, <1>4, NextFollows
<1>7. WireOf(m) = w
  BY DEF WireOf, ZMQ!Frames
<1>8. queue' # queue => m \in Carried
  BY <1>1, <1>2 DEF ZMQ!Frames, Carried, Wanted, ZMQ!Subscribed
<1>9. queue[s] \in Seq(Carried) /\ queue \in [Senders -> Seq(Carried)]
  BY DEF ZmqFramed
<1>10. ASSUME NEW d \in Elements(queue[s]), m \in Carried
       PROVE  <<d, m>> \in FrameOrder
  <2>1. d \in Seq(Frame) /\ m \in Seq(Frame)
    BY <1>9, <1>10, ElementsInside, CarriedWire
  <2>2. WireOf(d) \in out /\ WireOf(d)[1] = s
    BY DEF ZmqOrder
  <2>3. WireOf(d)[2] < at[s]
    BY <1>4, <2>2
  <2> QED
    BY <1>2, <1>7, <2>1, <2>3 DEF FrameOrder
<1> HIDE DEF w, m
<1>11. \A t \in Senders : t # s => queue'[t] = queue[t]
  BY <1>1, <1>9
<1>12. /\ Rising(queue'[s], FrameOrder)
       /\ \A d \in Elements(queue'[s]) : d \in Elements(queue[s]) \/ d = m
  <2>1. Rising(queue[s], FrameOrder)
    BY DEF ZmqOrder
  <2>2. CASE queue' = queue
    BY <2>1, <2>2
  <2>3. CASE queue' # queue
    <3>1. queue'[s] = Append(queue[s], m) /\ m \in Carried
      BY <1>1, <1>8, <1>9, <2>3
    <3>2. Elements(queue'[s]) = Elements(queue[s]) \cup {m}
      BY <1>9, <3>1, ElementsOfAppend
    <3>3. Rising(queue'[s], FrameOrder)
      BY <1>9, <1>10, <2>1, <3>1, AppendToRising
    <3> QED
      BY <3>2, <3>3
  <2> QED
    BY <2>2, <2>3
<1>13. \A v : HandedBefore(v)' <=> HandedBefore(v)
  BY <1>1 DEF HandedBefore
<1>14. ASSUME NEW t \in Senders
       PROVE  /\ Rising(queue'[t], FrameOrder)
              /\ \A d \in Elements(queue'[t]) :
                   WireOf(d) \in out' /\ WireOf(d)[1] = t /\ HandedBefore(WireOf(d))'
  <2>1. /\ Rising(queue[t], FrameOrder)
        /\ \A d \in Elements(queue[t]) :
             WireOf(d) \in out' /\ WireOf(d)[1] = t /\ HandedBefore(WireOf(d))'
    BY <1>1, <1>13 DEF ZmqOrder
  <2> QED
    BY <1>2, <1>6, <1>7, <1>11, <1>12, <1>13, <2>1
<1>15. ASSUME NEW v, LeadsQueue(v) PROVE LeadsQueue(v)'
  <2>1. v \in out /\ v[1] \in Senders /\ HandedBefore(v)'
    BY <1>13, <1>15 DEF LeadsQueue, TypeOK, Wires
  <2>2. ASSUME NEW d \in Elements(queue'[v[1]]) PROVE v[2] < WireOf(d)[2]
    <3>1. CASE d \in Elements(queue[v[1]])
      BY <1>15, <3>1 DEF LeadsQueue
    <3>2. CASE v[1] = s /\ d = m
      BY <1>2, <1>4, <1>7, <2>1, <3>2
    <3> QED
      BY <1>11, <1>12, <2>1, <2>2, <3>1, <3>2
  <2> QED
    BY <1>1, <2>1, <2>2 DEF LeadsQueue
<1>16. loop' \in {"more", "hand"} => LeadsQueue(WireOf(frames))'
  <2>1. loop' \in {"more", "hand"} => LeadsQueue(WireOf(frames))
    BY <1>1 DEF ZmqOrder
  <2>2. WireOf(frames)' = WireOf(frames)
    BY <1>1 DEF WireOf
  <2>3. LeadsQueue(WireOf(frames)) => LeadsQueue(WireOf(frames))'
    BY <1>15, <2>2 DEF LeadsQueue, HandedBefore
  <2> QED
    BY <2>1, <2>3
<1>17. ZmqOrder'
  BY <1>5, <1>14, <1>16 DEF ZmqOrder
<1> QED
  BY <1>3, <1>17

LEMMA ZmqOrderOfRecv ==
  ASSUME TypeOK, ZmqFramed, ZmqOrder, protocol = "zmq_tcp", UNCHANGED protocol,
         NEW s \in Senders, ZMQ!RecvFrom(s)
  PROVE  ZmqOrder'
<1> DEFINE m == Head(queue[s])
<1>1. /\ queue[s] # <<>> /\ frames' = m
      /\ queue' = [queue EXCEPT ![s] = Tail(@)]
      /\ UNCHANGED <<at, out, handed>>
  BY DEF ZMQ!RecvFrom, ZMQ!sharedVars
<1>2. queue[s] \in Seq(Carried) /\ queue \in [Senders -> Seq(Carried)] /\ m \in Carried
  BY <1>1 DEF ZmqFramed
<1>3. queue'[s] = Tail(queue[s]) /\ \A t \in Senders : t # s => queue'[t] = queue[t]
  BY <1>1, <1>2
<1>4. /\ m \in Elements(queue[s]) /\ Elements(queue'[s]) \subseteq Elements(queue[s])
      /\ Rising(queue'[s], FrameOrder)
      /\ \A d \in Elements(queue'[s]) : <<m, d>> \in FrameOrder
  <2>1. Rising(queue[s], FrameOrder)
    BY DEF ZmqOrder
  <2> QED
    BY <1>1, <1>2, <1>3, <2>1, HeadOfRising
<1> HIDE DEF m
<1>5. \A v : HandedBefore(v)' <=> HandedBefore(v)
  BY <1>1 DEF HandedBefore
<1>6. \A t \in Senders :
        /\ Rising(queue'[t], FrameOrder)
        /\ \A d \in Elements(queue'[t]) :
             WireOf(d) \in out' /\ WireOf(d)[1] = t /\ HandedBefore(WireOf(d))'
  BY <1>1, <1>3, <1>4, <1>5 DEF ZmqOrder
<1>7. LeadsQueue(WireOf(frames))'
  <2>1. WireOf(m) \in out /\ WireOf(m)[1] = s /\ HandedBefore(WireOf(m))
    BY <1>4 DEF ZmqOrder
  <2>2. WireOf(frames)' = WireOf(m)
    BY <1>1 DEF WireOf
  <2>3. \A d \in Elements(queue'[s]) : WireOf(m)[2] < WireOf(d)[2]
    BY <1>4 DEF FrameOrder
  <2>4. HandedBefore(WireOf(frames))'
    BY <1>1, <2>1, <2>2 DEF HandedBefore
  <2> QED
    BY <1>1, <2>1, <2>2, <2>3, <2>4 DEF LeadsQueue
<1> QED
  BY <1>1, <1>6, <1>7 DEF ZmqOrder

LEMMA ZmqOrderOfHand ==
  ASSUME TypeOK, SharedOrder, ZmqFramed, ZmqOrder, protocol = "zmq_tcp", UNCHANGED protocol,
         ZMQ!Hand
  PROVE  Observed /\ ZmqOrder'
<1>1. PICK w \in Wires : frames = <<w>>
  BY DEF ZMQ!Hand, ZMQ!Goto, ZmqFramed
<1>2. /\ loop = "hand" /\ loop' = "test"
      /\ handed' = Append(handed, [wire |-> w, intact |-> TRUE])
      /\ UNCHANGED <<at, out, queue>>
  BY <1>1 DEF ZMQ!Hand, ZMQ!Goto, ZMQ!recvVars
<1>3. LeadsQueue(w)
  <2>1. WireOf(frames) = w
    BY <1>1 DEF WireOf
  <2> QED
    BY <1>2, <2>1 DEF ZmqOrder
<1>4. Gave(w, TRUE)
  BY <1>2, <1>3 DEF Gave, LeadsQueue
<1>5. Observed
  BY <1>4 DEF Observed
<1>6. ASSUME NEW t \in Senders, NEW m \in Elements(queue[t])
      PROVE  WireOf(m) \in out' /\ WireOf(m)[1] = t /\ HandedBefore(WireOf(m))'
  <2>1. WireOf(m) \in out /\ WireOf(m)[1] = t /\ HandedBefore(WireOf(m)) /\ WireOf(m) \in Wires
    BY DEF ZmqOrder, TypeOK
  <2>2. Before(w, WireOf(m))
    BY <1>3, <2>1 DEF Before, LeadsQueue
  <2> DEFINE v == WireOf(m)
  <2>3. HandedBefore(v)'
    <3> HIDE DEF v
    <3>1. v \in Wires /\ HandedBefore(v) /\ Before(w, v)
      BY <2>1, <2>2 DEF v
    <3>2. \E x \in Wires, b \in BOOLEAN : Gave(x, b) /\ Before(x, v)
      BY <1>4, <3>1
    <3> QED
      BY <3>1, <3>2, <1>4, GivenWires DEF HandedBefore
  <2> QED
    BY <1>2, <2>1, <2>3 DEF HandedBefore
<1>7. ZmqOrder'
  BY <1>2, <1>6 DEF ZmqOrder
<1> QED
  BY <1>5, <1>7

LEMMA ZmqOrderStep ==
  ASSUME TypeOK, SharedOrder, ZmqFramed, ZmqOrder, protocol = "zmq_tcp", UNCHANGED protocol,
         ZMQ!Next
  PROVE  Observed /\ ZmqOrder'
<1> DEFINE Goal == Observed /\ ZmqOrder'
<1>1. ASSUME UNCHANGED <<at, out, handed, frames>>,
             loop' \in {"more", "hand"} => loop \in {"more", "hand"},
             \A s \in Senders :
               Rising(queue'[s], FrameOrder) /\ Elements(queue'[s]) \subseteq Elements(queue[s])
      PROVE  Goal
  BY <1>1, ZmqOrderOfLess DEF Observed
<1>2. ASSUME UNCHANGED <<at, out, handed, frames, queue>>,
             loop' \in {"more", "hand"} => loop \in {"more", "hand"}
      PROVE  Goal
  <2>1. \A s \in Senders :
          Rising(queue'[s], FrameOrder) /\ Elements(queue'[s]) \subseteq Elements(queue[s])
    BY <1>2 DEF ZmqOrder
  <2> QED
    BY <1>1, <1>2, <2>1
<1> USE DEF ZMQ!sharedVars, ZMQ!recvVars, ZMQ!Goto
<1>3. ASSUME NEW s \in Senders, ZMQ!Connect(s) \/ ZMQ!Disconnect(s) \/ ZMQ!Join(s) PROVE Goal
  <2>1. UNCHANGED <<at, out, handed, frames, queue, loop>>
    BY <1>3 DEF ZMQ!Connect, ZMQ!Disconnect, ZMQ!Join
  <2> QED
    BY <1>2, <2>1
<1>4. ASSUME NEW s \in Senders, ZMQ!Send(s) PROVE Goal
  BY <1>4, ZmqOrderOfSend
<1>5. ASSUME NEW s \in Senders, NEW q \in Seq(Carried), queue' = [queue EXCEPT ![s] = q],
             Rising(q, FrameOrder), Elements(q) \subseteq Elements(queue[s]),
             UNCHANGED <<at, out, handed, frames, loop>>
      PROVE  Goal
  <2>1. queue'[s] = q /\ \A t \in Senders : t # s => queue'[t] = queue[t]
    BY <1>5 DEF ZmqFramed
  <2>2. \A t \in Senders : Rising(queue[t], FrameOrder)
    BY DEF ZmqOrder
  <2> QED
    BY <1>1, <1>5, <2>1, <2>2
<1>6. ASSUME NEW s \in Senders, ZMQ!Break(s) PROVE Goal
  <2>1. PICK k \in 0 .. Len(queue[s]) : \E j \in k .. Len(queue[s]) :
          queue' = [queue EXCEPT ![s] = SubSeq(@, 1, k) \o SubSeq(@, j + 1, Len(@))]
    BY <1>6 DEF ZMQ!Break
  <2>2. PICK j \in k .. Len(queue[s]) :
          queue' = [queue EXCEPT ![s] = SubSeq(@, 1, k) \o SubSeq(@, j + 1, Len(@))]
    BY <2>1
  <2> DEFINE q == SubSeq(queue[s], 1, k) \o SubSeq(queue[s], j + 1, Len(queue[s]))
  <2>3. queue[s] \in Seq(Carried) /\ Rising(queue[s], FrameOrder)
    BY DEF ZmqFramed, ZmqOrder
  <2>4. q \in Seq(Carried) /\ Rising(q, FrameOrder) /\ Elements(q) \subseteq Elements(queue[s])
    BY <2>3, CutOut, CutOfRising
  <2>5. UNCHANGED <<at, out, handed, frames, loop>>
    BY <1>6 DEF ZMQ!Break
  <2>6. queue' = [queue EXCEPT ![s] = q]
    BY <2>2
  <2> HIDE DEF q
  <2> QED
    BY <1>5, <2>4, <2>5, <2>6
<1>7. ASSUME NEW s \in Senders, ZMQ!Die(s) PROVE Goal
  <2>1. PICK k \in 0 .. Len(queue[s]) : queue' = [queue EXCEPT ![s] = SubSeq(@, 1, k)]
    BY <1>7 DEF ZMQ!Die
  <2> DEFINE q == SubSeq(queue[s], 1, k)
  <2>2. queue[s] \in Seq(Carried) /\ Rising(queue[s], FrameOrder)
    BY DEF ZmqFramed, ZmqOrder
  <2>3. q \in Seq(Carried)
    BY <2>2, Prefix
  <2>4. 1 \in 1 .. Len(queue[s]) + 1
    BY <2>2
  <2>5. Rising(q, FrameOrder) /\ Elements(q) \subseteq Elements(queue[s])
    BY <2>2, <2>4, PartOfRising
  <2>6. UNCHANGED <<at, out, handed, frames, loop>> /\ queue' = [queue EXCEPT ![s] = q]
    BY <1>7, <2>1 DEF ZMQ!Die
  <2> HIDE DEF q
  <2> QED
    BY <1>5, <2>3, <2>5, <2>6
<1>8. ASSUME NEW s \in Senders, ZMQ!RecvFrom(s) PROVE Goal
  <2>1. UNCHANGED <<out, handed>>
    BY <1>8 DEF ZMQ!RecvFrom
  <2> QED
    BY <1>8, <2>1, ZmqOrderOfRecv DEF Observed
<1>9. CASE ZMQ!Test \/ ZMQ!RecvNothing \/ ZMQ!UseClosed
  <2>1. UNCHANGED <<at, out, handed, frames, queue>> /\ loop' \in {"exited", "recv", "test", "crashed"}
    BY <1>9 DEF ZMQ!Test, ZMQ!RecvNothing, ZMQ!UseClosed
  <2> QED
    BY <1>2, <2>1
<1>10. CASE ZMQ!More
  <2>1. /\ loop = "more" /\ frames' = Tail(frames) /\ loop' = (IF Len(frames) > 1 THEN "hand" ELSE "test")
        /\ UNCHANGED <<at, out, handed, queue>>
    BY <1>10 DEF ZMQ!More
  <2>2. frames \in Carried /\ pattern = "pub_sub"
    BY <2>1 DEF ZmqFramed
  <2>3. loop' = "hand" => WireOf(frames') = WireOf(frames)
    <3>1. ASSUME NEW w \in Wires, frames = <<Topic, w>> PROVE WireOf(Tail(frames)) = WireOf(frames)
      BY <3>1 DEF WireOf
    <3>2. ASSUME NEW w \in Wires, frames = <<w>> PROVE ~(Len(frames) > 1)
      BY <3>2
    <3>3. (\E w \in Wires : frames = <<w>>) \/ (\E w \in Wires : frames = <<Topic, w>>)
      BY <2>2 DEF Carried
    <3> QED
      BY <2>1, <3>1, <3>2, <3>3
  <2>4. loop' \in {"more", "hand"} => LeadsQueue(WireOf(frames))'
    <3>1. LeadsQueue(WireOf(frames))
      BY <2>1 DEF ZmqOrder
    <3>2. loop' = "hand" => WireOf(frames)' = WireOf(frames)
      BY <2>3 DEF WireOf
    <3>3. loop' = "hand" => LeadsQueue(WireOf(frames))'
      BY <2>1, <3>1, <3>2 DEF LeadsQueue, HandedBefore
    <3> QED
      BY <2>1, <3>3
  <2>5. \A v : HandedBefore(v)' <=> HandedBefore(v)
    BY <2>1 DEF HandedBefore
  <2>6. ZmqOrder'
    BY <2>1, <2>4, <2>5 DEF ZmqOrder
  <2> QED
    BY <2>1, <2>6 DEF Observed
<1>11. CASE ZMQ!Hand
  BY <1>11, ZmqOrderOfHand
<1>12. CASE ZMQ!AskToStop \/ ZMQ!Close
  <2>1. UNCHANGED <<at, out, handed, frames, queue, loop>>
    BY <1>12 DEF ZMQ!AskToStop, ZMQ!Close, ZMQ!zmqVars
  <2> QED
    BY <1>2, <2>1
<1> QED
  BY <1>3, <1>4, <1>6, <1>7, <1>8, <1>9, <1>10, <1>11, <1>12 DEF ZMQ!Next, ZMQ!LoopStep

-----------------------------------------------------------------------------
(* MQTT                                                                    *)

LEMMA MqttOrderOfLess ==
  ASSUME MqttOrder, protocol = "mqtt_tcp", UNCHANGED <<protocol, out, handed, callback>>,
         NextIsNew',
         \A s \in Senders :
           Rising(up'[s], WireOrder) /\ Elements(up'[s]) \subseteq Elements(up[s]),
         Rising(down', WireOrder), Elements(down') \subseteq Elements(down)
  PROVE  MqttOrder'
<1>1. \A w : (HandedBefore(w)' <=> HandedBefore(w)) /\ (Following(w)' <=> Following(w))
  BY DEF HandedBefore, Following, CalledBefore
<1>2. ASSUME NEW s \in Senders, NEW w \in Elements(up'[s])
      PROVE  Following(w)' /\ w[1] = s /\ \A v \in Elements(down') : Before(v, w)
  BY <1>1, <1>2 DEF MqttOrder
<1>3. \A w \in Elements(down') : Following(w)'
  BY <1>1 DEF MqttOrder
<1>4. callback' # Nothing => callback' \in out' /\ HandedBefore(callback)'
  BY DEF MqttOrder, HandedBefore
<1> QED
  BY <1>2, <1>3, <1>4 DEF MqttOrder

LEMMA MqttTyping ==
  ASSUME TypeOK
  PROVE  /\ at \in [Senders -> 1 .. Count + 1] /\ Count \in Nat /\ out \subseteq Wires
         /\ Wires = Senders \X (1 .. Count)
         /\ up \in [Senders -> Seq(Wires)] /\ down \in Seq(Wires)
         /\ publish \in [Senders -> {"idle", "sent", "acknowledged"}]
         /\ client \in [Senders -> {"none", "open", "closed", "lost"}]
         /\ callback \in Wires \cup {Nothing}
BY CountIsNat DEF TypeOK, MqttTyped, Wires

LEMMA MqttOrderOfPublish ==
  ASSUME TypeOK, SharedOrder, MqttOrder, protocol = "mqtt_tcp", UNCHANGED protocol,
         NEW s \in Senders, MQTT!Publish(s)
  PROVE  Observed /\ MqttOrder'
<1>0. PICK w : w = <<s, at[s]>>
  OBVIOUS
<1>1. /\ client[s] = "open" /\ publish[s] = "idle" /\ at[s] \in 1 .. Count
      /\ out' = out \cup {w} /\ up' = [up EXCEPT ![s] = Append(@, w)]
      /\ UNCHANGED <<handed, client, down, callback>>
      /\ \/ at' = [at EXCEPT ![s] = @ + 1] /\ publish' = publish
         \/ at' = at /\ publish' = [publish EXCEPT ![s] = "sent"]
  BY <1>0, CountIsNat DEF MQTT!Publish, MQTT!Completed
<1>2. w \in Wires /\ w[1] = s /\ w[2] = at[s] /\ at[s] \in Nat
  BY <1>0, <1>1, MqttTyping
<1>3. Observed
  BY <1>1, <1>2 DEF Observed, Took
<1>4. w \notin out /\ NextIsNew
  BY <1>0, <1>1 DEF MqttOrder, NextIsNew
<1>5. \A v \in out : Before(v, w)
  <2> SUFFICES ASSUME NEW v \in out, v[1] = s PROVE v[2] < at[s]
    BY <1>2 DEF Before
  <2>1. v[2] <= at[s] /\ v = <<s, v[2]>> /\ v[2] \in Nat
    BY <1>4, MqttTyping DEF NextIsNew
  <2>2. v[2] # at[s]
    BY <1>0, <1>4, <2>1
  <2> QED
    BY <1>2, <2>1, <2>2
<1>6. NextIsNew'
  <2>1. ASSUME NEW t \in Senders PROVE at[t] \in Nat /\ at'[t] \in Nat /\ at[t] <= at'[t]
    <3>1. at[t] \in Nat
      BY MqttTyping
    <3>2. at'[t] = at[t] \/ at'[t] = at[t] + 1
      BY <1>1, MqttTyping
    <3> QED
      BY <3>1, <3>2
  <2>2. ASSUME NEW v \in out' PROVE v[2] <= at'[v[1]]
    <3>1. CASE v \in out
      BY <1>4, <2>1, <3>1, MqttTyping DEF NextIsNew
    <3>2. CASE v = w
      BY <1>2, <2>1, <3>2
    <3> QED
      BY <1>1, <2>2, <3>1, <3>2
  <2>3. <<s, at[s] + 1>> \notin out
    BY <1>2, <1>4 DEF NextIsNew
  <2>4. ASSUME NEW t \in Senders, client'[t] \in {"none", "open"}, publish'[t] = "idle"
        PROVE  <<t, at'[t]>> \notin out'
    <3>1. CASE t = s
      <4>1. at'[s] = at[s] + 1
        BY <1>1, <2>4, <3>1, MqttTyping
      <4>2. <<s, at'[s]>> # w /\ <<s, at'[s]>> \notin out
        BY <1>0, <1>2, <2>3, <4>1
      <4> QED
        BY <1>1, <3>1, <4>2
    <3>2. CASE t # s
      <4>1. at'[t] = at[t] /\ publish[t] = "idle" /\ client[t] \in {"none", "open"}
        BY <1>1, <2>4, <3>2, MqttTyping
      <4>2. <<t, at[t]>> \notin out /\ <<t, at[t]>> # w
        BY <1>0, <1>4, <3>2, <4>1 DEF NextIsNew
      <4> QED
        BY <1>1, <4>1, <4>2
    <3> QED
      BY <3>1, <3>2
  <2> QED
    BY <2>2, <2>4 DEF NextIsNew
<1>7. /\ up'[s] = Append(up[s], w) /\ up[s] \in Seq(Wires)
      /\ \A t \in Senders : t # s => up'[t] = up[t]
  BY <1>1, MqttTyping
<1>8. \A x : (HandedBefore(x)' <=> HandedBefore(x)) /\ (Following(x) => Following(x)')
  BY <1>1 DEF HandedBefore, Following, CalledBefore
<1>9. Following(w)'
  <2>1. HandedBefore(w)
    BY <1>5 DEF HandedBefore, SharedOrder
  <2>2. CalledBefore(w)
    BY <1>5 DEF CalledBefore, MqttOrder
  <2>3. CalledBefore(w)'
    BY <1>1, <2>2 DEF CalledBefore
  <2>4. HandedBefore(w)'
    BY <1>8, <2>1
  <2> QED
    BY <1>1, <2>3, <2>4 DEF Following
<1>10. \A v \in Elements(down) : Before(v, w)
  BY <1>5 DEF MqttOrder, Following
<1>11. Elements(up'[s]) = Elements(up[s]) \cup {w} /\ Rising(up'[s], WireOrder)
  <2>1. Elements(up'[s]) = Elements(up[s]) \cup {w}
    BY <1>2, <1>7, ElementsOfAppend
  <2>2. \A d \in Elements(up[s]) : <<d, w>> \in WireOrder
    BY <1>2, <1>5, MqttTyping DEF MqttOrder, Following, WireOrder
  <2>3. Rising(up[s], WireOrder)
    BY DEF MqttOrder
  <2>4. Rising(up'[s], WireOrder)
    BY <1>2, <1>7, <2>2, <2>3, AppendToRising
  <2> QED
    BY <2>1, <2>4
<1>12. ASSUME NEW t \in Senders
       PROVE  /\ Rising(up'[t], WireOrder)
              /\ \A x \in Elements(up'[t]) :
                   Following(x)' /\ x[1] = t /\ \A v \in Elements(down') : Before(v, x)
  <2>1. /\ Rising(up[t], WireOrder)
        /\ \A x \in Elements(up[t]) :
             Following(x)' /\ x[1] = t /\ \A v \in Elements(down') : Before(v, x)
    BY <1>1, <1>8 DEF MqttOrder
  <2>2. CASE t = s
    <3>1. ASSUME NEW x \in Elements(up'[s])
          PROVE  Following(x)' /\ x[1] = s /\ \A v \in Elements(down') : Before(v, x)
      <4>1. CASE x = w
        BY <1>1, <1>2, <1>9, <1>10, <4>1
      <4>2. CASE x \in Elements(up[s])
        BY <2>1, <2>2, <4>2
      <4> QED
        BY <1>11, <4>1, <4>2
    <3> QED
      BY <1>11, <2>2, <3>1
  <2>3. CASE t # s
    BY <1>7, <2>1, <2>3
  <2> QED
    BY <2>2, <2>3
<1>13. /\ Rising(down', WireOrder)
       /\ \A x \in Elements(down') : Following(x)'
       /\ callback' # Nothing => callback' \in out' /\ HandedBefore(callback)'
  BY <1>1, <1>8 DEF MqttOrder, HandedBefore
<1>14. MqttOrder'
  BY <1>6, <1>12, <1>13 DEF MqttOrder
<1> QED
  BY <1>3, <1>14

LEMMA MqttOrderOfRoute ==
  ASSUME TypeOK, MqttOrder, protocol = "mqtt_tcp", UNCHANGED protocol,
         NEW s \in Senders, MQTT!Route(s)
  PROVE  MqttOrder'
<1> DEFINE w == Head(up[s])
<1>1. /\ up[s] # <<>> /\ up' = [up EXCEPT ![s] = Tail(@)]
      /\ down' = Append(down, w) \/ down' = down
      /\ publish' = [publish EXCEPT ![s] = IF @ = "sent" THEN "acknowledged" ELSE @]
      /\ UNCHANGED <<at, out, handed, client, callback>>
  BY DEF MQTT!Route, MQTT!sharedVars
<1>2. up[s] \in Seq(Wires) /\ w \in Wires
  BY <1>1, MqttTyping
<1>3. NextIsNew'
  <2>1. \A t \in Senders : publish'[t] = "idle" => publish[t] = "idle"
    BY <1>1, MqttTyping
  <2> QED
    BY <1>1, <2>1 DEF MqttOrder, NextIsNew
<1>4. up'[s] = Tail(up[s]) /\ \A t \in Senders : t # s => up'[t] = up[t]
  BY <1>1, MqttTyping
<1>5. /\ w \in Elements(up[s]) /\ Elements(up'[s]) \subseteq Elements(up[s])
      /\ Rising(up'[s], WireOrder)
      /\ \A x \in Elements(up'[s]) : <<w, x>> \in WireOrder
  <2>1. Rising(up[s], WireOrder)
    BY DEF MqttOrder
  <2> QED
    BY <1>1, <1>2, <1>4, <2>1, HeadOfRising
<1>6. Following(w) /\ w[1] = s /\ \A v \in Elements(down) : Before(v, w)
  BY <1>5 DEF MqttOrder
<1> HIDE DEF w
<1>7. \A t \in Senders : Rising(up'[t], WireOrder) /\ Elements(up'[t]) \subseteq Elements(up[t])
  BY <1>4, <1>5 DEF MqttOrder
<1>8. CASE down' = down
  <2>1. Rising(down', WireOrder) /\ Elements(down') \subseteq Elements(down)
    BY <1>8 DEF MqttOrder
  <2> QED
    BY <1>1, <1>3, <1>7, <2>1, MqttOrderOfLess
<1>9. CASE down' = Append(down, w)
  <2>1. down \in Seq(Wires) /\ Rising(down, WireOrder)
    BY MqttTyping DEF MqttOrder
  <2>2. Elements(down') = Elements(down) \cup {w}
    BY <1>2, <1>9, <2>1, ElementsOfAppend
  <2>3. \A d \in Elements(down) : <<d, w>> \in WireOrder
    BY <1>2, <1>6, <2>1, ElementsInside DEF WireOrder
  <2>4. Rising(down', WireOrder)
    BY <1>2, <1>9, <2>1, <2>3, AppendToRising
  <2>5. \A x : (HandedBefore(x)' <=> HandedBefore(x)) /\ (Following(x)' <=> Following(x))
    BY <1>1 DEF HandedBefore, Following, CalledBefore
  <2>6. ASSUME NEW t \in Senders, NEW x \in Elements(up'[t])
        PROVE  Following(x)' /\ x[1] = t /\ \A v \in Elements(down') : Before(v, x)
    <3>1. Following(x) /\ x[1] = t /\ \A v \in Elements(down) : Before(v, x)
      BY <1>7 DEF MqttOrder
    <3>2. Before(w, x)
      <4>1. CASE t = s
        BY <1>5, <4>1 DEF WireOrder
      <4>2. CASE t # s
        BY <1>6, <3>1, <4>2 DEF Before
      <4> QED
        BY <4>1, <4>2
    <3> QED
      BY <2>2, <2>5, <3>1, <3>2
  <2>7. \A x \in Elements(down') : Following(x)'
    BY <1>6, <2>2, <2>5 DEF MqttOrder
  <2>8. callback' # Nothing => callback' \in out' /\ HandedBefore(callback)'
    BY <1>1 DEF MqttOrder, HandedBefore
  <2> QED
    BY <1>3, <1>7, <2>4, <2>6, <2>7, <2>8 DEF MqttOrder
<1> QED
  BY <1>1, <1>8, <1>9

LEMMA MqttOrderOfArrive ==
  ASSUME TypeOK, MqttOrder, protocol = "mqtt_tcp", UNCHANGED protocol, MQTT!Arrive
  PROVE  MqttOrder'
<1> DEFINE w == Head(down)
<1>1. /\ callback = Nothing /\ down # <<>> /\ callback' = w /\ down' = Tail(down)
      /\ UNCHANGED <<at, out, handed, client, publish, up>>
  BY DEF MQTT!Arrive, MQTT!sharedVars
<1>2. down \in Seq(Wires) /\ Rising(down, WireOrder)
  BY MqttTyping DEF MqttOrder
<1>3. /\ w \in Elements(down) /\ Elements(down') \subseteq Elements(down)
      /\ Rising(down', WireOrder) /\ \A x \in Elements(down') : <<w, x>> \in WireOrder
  BY <1>1, <1>2, HeadOfRising
<1>4. w \in out /\ HandedBefore(w)
  BY <1>3 DEF MqttOrder, Following
<1> HIDE DEF w
<1>5. ASSUME NEW x, Following(x), Before(w, x) PROVE Following(x)'
  BY <1>1, <1>5 DEF Following, CalledBefore, HandedBefore
<1>6. \A x \in Elements(down') : Following(x)'
  BY <1>3, <1>5 DEF MqttOrder, WireOrder
<1>7. ASSUME NEW t \in Senders, NEW x \in Elements(up'[t])
      PROVE  Following(x)' /\ x[1] = t /\ \A v \in Elements(down') : Before(v, x)
  <2>1. Following(x) /\ x[1] = t /\ \A v \in Elements(down) : Before(v, x)
    BY <1>1 DEF MqttOrder
  <2> QED
    BY <1>3, <1>5, <2>1
<1>8. NextIsNew' /\ \A t \in Senders : Rising(up'[t], WireOrder)
  BY <1>1 DEF MqttOrder, NextIsNew
<1>9. callback' \in out' /\ HandedBefore(callback)'
  BY <1>1, <1>4 DEF HandedBefore
<1> QED
  BY <1>3, <1>6, <1>7, <1>8, <1>9 DEF MqttOrder

LEMMA MqttOrderOfHand ==
  ASSUME TypeOK, SharedOrder, MqttOrder, protocol = "mqtt_tcp", UNCHANGED protocol, MQTT!Hand
  PROVE  Observed /\ MqttOrder'
<1> DEFINE w == callback
<1>1. /\ w # Nothing /\ handed' = Append(handed, [wire |-> w, intact |-> TRUE])
      /\ callback' = Nothing
      /\ UNCHANGED <<at, out, client, publish, up, down>>
  BY DEF MQTT!Hand
<1>2. w \in Wires /\ Gave(w, TRUE)
  BY <1>1, MqttTyping DEF MqttOrder, Gave
<1>3. Observed
  BY <1>2 DEF Observed
<1>4. ASSUME NEW x \in Wires, Following(x) PROVE Following(x)'
  <2>1. Before(w, x) /\ HandedBefore(x) /\ x \in out
    BY <1>1, <1>4 DEF Following, CalledBefore
  <2>2. HandedBefore(x)'
    BY <1>2, <2>1, StillBefore
  <2> QED
    BY <1>1, <2>1, <2>2 DEF Following, CalledBefore
<1>5. \A x \in Elements(down') : Following(x)'
  <2>1. \A x \in Elements(down) : x \in Wires /\ Following(x)
    BY MqttTyping DEF MqttOrder, Following
  <2> QED
    BY <1>1, <1>4, <2>1
<1>6. ASSUME NEW t \in Senders, NEW x \in Elements(up'[t])
      PROVE  Following(x)' /\ x[1] = t /\ \A v \in Elements(down') : Before(v, x)
  <2>1. Following(x) /\ x[1] = t /\ \A v \in Elements(down) : Before(v, x)
    BY <1>1 DEF MqttOrder
  <2>2. x \in Wires
    BY <2>1, MqttTyping DEF Following
  <2> QED
    BY <1>1, <1>4, <2>1, <2>2
<1>7. /\ NextIsNew' /\ Rising(down', WireOrder)
      /\ \A t \in Senders : Rising(up'[t], WireOrder)
  BY <1>1 DEF MqttOrder, NextIsNew
<1>8. MqttOrder'
  BY <1>1, <1>5, <1>6, <1>7 DEF MqttOrder
<1> QED
  BY <1>3, <1>8

LEMMA MqttOrderStep ==
  ASSUME TypeOK, SharedOrder, MqttPublished, MqttOrder, protocol = "mqtt_tcp",
         UNCHANGED protocol, MQTT!Next
  PROVE  Observed /\ MqttOrder'
<1> DEFINE Goal == Observed /\ MqttOrder'
<1>1. ASSUME UNCHANGED <<out, handed, callback>>, NextIsNew', UNCHANGED <<up, down>> PROVE Goal
  <2>1. /\ \A s \in Senders :
             Rising(up'[s], WireOrder) /\ Elements(up'[s]) \subseteq Elements(up[s])
        /\ Rising(down', WireOrder) /\ Elements(down') \subseteq Elements(down)
    BY <1>1 DEF MqttOrder
  <2> QED
    BY <1>1, <2>1, MqttOrderOfLess DEF Observed
<1>2. ASSUME UNCHANGED <<at, out>>,
             \A t \in Senders : client'[t] \in {"none", "open"} /\ publish'[t] = "idle" =>
                                client[t] \in {"none", "open"} /\ publish[t] = "idle"
      PROVE  NextIsNew'
  BY <1>2 DEF MqttOrder, NextIsNew
<1> USE DEF MQTT!sharedVars
<1>3. ASSUME NEW s \in Senders, MQTT!Connect(s) PROVE Goal
  <2>1. /\ client[s] = "none"
        /\ client' = [t \in Senders |-> IF t = s THEN "open"
                                         ELSE IF client[t] = "open" THEN "lost" ELSE client[t]]
        /\ UNCHANGED <<at, out, handed, publish, up, down, callback>>
    BY <1>3 DEF MQTT!Connect
  <2>2. \A t \in Senders : client'[t] \in {"none", "open"} => client[t] \in {"none", "open"}
    BY <2>1
  <2> QED
    BY <1>1, <1>2, <2>1, <2>2
<1>4. ASSUME NEW s \in Senders, MQTT!Publish(s) PROVE Goal
  BY <1>4, MqttOrderOfPublish
<1>5. ASSUME NEW s \in Senders, MQTT!Route(s) PROVE Goal
  <2>1. UNCHANGED <<out, handed>>
    BY <1>5 DEF MQTT!Route
  <2> QED
    BY <1>5, <2>1, MqttOrderOfRoute DEF Observed
<1>6. ASSUME NEW s \in Senders, MQTT!Acknowledged(s) PROVE Goal
  <2>1. /\ publish[s] = "acknowledged" /\ at' = [at EXCEPT ![s] = @ + 1]
        /\ publish' = [publish EXCEPT ![s] = "idle"]
        /\ UNCHANGED <<out, handed, client, up, down, callback>>
    BY <1>6 DEF MQTT!Acknowledged, MQTT!Completed
  <2>2. NextIsNew
    BY DEF MqttOrder
  <2>3. \A t \in Senders : at[t] \in Nat /\ at'[t] \in Nat /\ at[t] <= at'[t]
    BY <2>1, MqttTyping
  <2>4. \A w \in out' : w[2] <= at'[w[1]]
    BY <2>1, <2>2, <2>3, MqttTyping DEF NextIsNew
  <2>5. <<s, at'[s]>> \notin out'
    <3>1. at'[s] = at[s] + 1 /\ at[s] \in Nat
      BY <2>1, MqttTyping
    <3> QED
      BY <2>1, <2>2, <3>1 DEF NextIsNew
  <2>6. \A t \in Senders : t # s => at'[t] = at[t] /\ publish'[t] = publish[t]
    BY <2>1, MqttTyping
  <2>7. NextIsNew'
    BY <2>1, <2>2, <2>4, <2>5, <2>6 DEF NextIsNew
  <2> QED
    BY <1>1, <2>1, <2>7
<1>7. ASSUME NEW s \in Senders, MQTT!PublishFails(s) \/ MQTT!Disconnect(s) PROVE Goal
  <2>1. /\ UNCHANGED <<at, out, handed, up, down, callback>>
        /\ \A t \in Senders : client'[t] \in {"none", "open"} /\ publish'[t] = "idle" =>
                               client[t] \in {"none", "open"} /\ publish[t] = "idle"
    BY <1>7, MqttTyping DEF MQTT!PublishFails, MQTT!Disconnect
  <2> QED
    BY <1>1, <1>2, <2>1
<1>8. ASSUME NEW s \in Senders, MQTT!LoseSender(s) PROVE Goal
  <2>1. PICK k \in 0 .. Len(up[s]) : up' = [up EXCEPT ![s] = SubSeq(@, 1, k)]
    BY <1>8 DEF MQTT!LoseSender
  <2>2. /\ client' = [client EXCEPT ![s] = "lost"]
        /\ UNCHANGED <<at, out, handed, publish, down, callback>>
    BY <1>8 DEF MQTT!LoseSender
  <2>3. \A t \in Senders : client'[t] \in {"none", "open"} => client[t] \in {"none", "open"}
    BY <2>2, MqttTyping
  <2>4. up[s] \in Seq(Wires) /\ Rising(up[s], WireOrder) /\ 1 \in 1 .. Len(up[s]) + 1
    BY MqttTyping DEF MqttOrder
  <2>5. /\ Rising(SubSeq(up[s], 1, k), WireOrder)
        /\ Elements(SubSeq(up[s], 1, k)) \subseteq Elements(up[s])
    BY <2>4, PartOfRising
  <2>6. up'[s] = SubSeq(up[s], 1, k) /\ \A t \in Senders : t # s => up'[t] = up[t]
    BY <2>1, MqttTyping
  <2>7. /\ \A t \in Senders :
             Rising(up'[t], WireOrder) /\ Elements(up'[t]) \subseteq Elements(up[t])
        /\ Rising(down', WireOrder) /\ Elements(down') \subseteq Elements(down)
    BY <2>2, <2>5, <2>6 DEF MqttOrder
  <2>8. NextIsNew'
    BY <1>2, <2>2, <2>3
  <2> QED
    BY <2>2, <2>7, <2>8, MqttOrderOfLess DEF Observed
<1>9. CASE MQTT!Start \/ MQTT!Stop \/ MQTT!Stopped
  <2>1. UNCHANGED <<at, out, handed, client, publish, up, down, callback>>
    BY <1>9 DEF MQTT!Start, MQTT!Stop, MQTT!Stopped
  <2> QED
    BY <1>1, <1>2, <2>1
<1>10. CASE MQTT!LoseReceiver
  <2>1. PICK k \in 0 .. Len(down) : down' = SubSeq(down, 1, k)
    BY <1>10 DEF MQTT!LoseReceiver
  <2>2. UNCHANGED <<at, out, handed, client, publish, up, callback>>
    BY <1>10 DEF MQTT!LoseReceiver
  <2>3. down \in Seq(Wires) /\ Rising(down, WireOrder) /\ 1 \in 1 .. Len(down) + 1
    BY MqttTyping DEF MqttOrder
  <2>4. Rising(down', WireOrder) /\ Elements(down') \subseteq Elements(down)
    BY <2>1, <2>3, PartOfRising
  <2>5. \A t \in Senders :
          Rising(up'[t], WireOrder) /\ Elements(up'[t]) \subseteq Elements(up[t])
    BY <2>2 DEF MqttOrder
  <2>6. NextIsNew'
    BY <1>2, <2>2
  <2> QED
    BY <2>2, <2>4, <2>5, <2>6, MqttOrderOfLess DEF Observed
<1>11. CASE MQTT!Arrive
  <2>1. UNCHANGED <<out, handed>>
    BY <1>11 DEF MQTT!Arrive
  <2> QED
    BY <1>11, <2>1, MqttOrderOfArrive DEF Observed
<1>12. CASE MQTT!Hand
  BY <1>12, MqttOrderOfHand
<1> QED
  BY <1>3, <1>4, <1>5, <1>6, <1>7, <1>8, <1>9, <1>10, <1>11, <1>12
  DEF MQTT!Next, MQTT!ReceiverStep

-----------------------------------------------------------------------------
LEMMA OrderInit == Init => OrderInv
<1> SUFFICES ASSUME Init PROVE OrderInv
  OBVIOUS
<1>1. /\ at = [s \in Senders |-> 1] /\ out = {} /\ handed = <<>> /\ TCP!Init /\ ZMQ!Init /\ MQTT!Init
  BY DEF Init
<1>2. Elements(<<>>) = {} /\ \A R : Rising(<<>>, R)
  BY DEF Elements, Rising
<1>3. SharedOrder
  BY <1>1 DEF SharedOrder, ArrivesInOrder
<1>4. TcpOrder
  BY <1>1, <1>2 DEF TcpOrder, TCP!Init
<1>5. ZmqOrder
  BY <1>1, <1>2 DEF ZmqOrder, ZMQ!Init
<1>6. MqttOrder
  BY <1>1, <1>2 DEF MqttOrder, NextIsNew, MQTT!Init
<1> QED
  BY <1>3, <1>4, <1>5, <1>6 DEF OrderInv

LEMMA OrderStep ==
  ASSUME TransportsInv, OrderInv, [Next]_vars
  PROVE  Observed /\ OrderInv'
<1>1. TypeOK /\ ZmqFramed /\ MqttPublished /\ SharedOrder /\ TcpOrder /\ ZmqOrder /\ MqttOrder
  BY DEF TransportsInv, OrderInv
<1>2. CASE TcpNext
  <2>1. protocol = "tcp" /\ protocol' = protocol /\ TCP!Next
    BY <1>2 DEF TcpNext
  <2>2. Observed /\ TcpOrder'
    BY <1>1, <2>1, TcpOrderStep
  <2>3. ZmqOrder' /\ MqttOrder'
    BY <2>1 DEF ZmqOrder, MqttOrder
  <2> QED
    BY <1>1, <2>2, <2>3, ObservedKeepsOrder DEF OrderInv
<1>3. CASE ZmqNext
  <2>1. protocol = "zmq_tcp" /\ protocol' = protocol /\ ZMQ!Next
    BY <1>3 DEF ZmqNext
  <2>2. Observed /\ ZmqOrder'
    BY <1>1, <2>1, ZmqOrderStep
  <2>3. TcpOrder' /\ MqttOrder'
    BY <2>1 DEF TcpOrder, MqttOrder
  <2> QED
    BY <1>1, <2>2, <2>3, ObservedKeepsOrder DEF OrderInv
<1>4. CASE MqttNext
  <2>1. protocol = "mqtt_tcp" /\ protocol' = protocol /\ MQTT!Next
    BY <1>4 DEF MqttNext
  <2>2. Observed /\ MqttOrder'
    BY <1>1, <2>1, MqttOrderStep
  <2>3. TcpOrder' /\ ZmqOrder'
    BY <2>1 DEF TcpOrder, ZmqOrder
  <2> QED
    BY <1>1, <2>2, <2>3, ObservedKeepsOrder DEF OrderInv
<1>5. CASE UNCHANGED vars
  <2> USE <1>5 DEF vars, sharedVars
  <2>1. Observed
    BY DEF Observed
  <2>2. SharedOrder'
    BY <1>1, <2>1, ObservedKeepsOrder
  <2>3. TcpOrder'
    BY <1>1 DEF TcpOrder, UnitHandedBefore, tcpVars
  <2>4. ZmqOrder'
    BY <1>1 DEF ZmqOrder, LeadsQueue, HandedBefore, zmqVars
  <2>5. MqttOrder'
    BY <1>1 DEF MqttOrder, NextIsNew, Following, HandedBefore, CalledBefore, mqttVars
  <2> QED
    BY <2>1, <2>2, <2>3, <2>4, <2>5 DEF OrderInv
<1> QED
  BY <1>2, <1>3, <1>4, <1>5 DEF Next

LEMMA OrderInvAlways == Spec => []OrderInv
<1>1. TransportsInv /\ OrderInv /\ [Next]_vars => OrderInv'
  BY OrderStep
<1> QED
  BY <1>1, OrderInit, TransportsInvAlways, PTL DEF Spec

(* Over TCP, ZeroMQ and MQTT the messages of a sender are handed up in the *)
(* order it sent them, for any number of senders, messages and failures.   *)
THEOREM ArrivesInOrderAlways == Spec => []ArrivesInOrder
<1>1. OrderInv => ArrivesInOrder
  BY DEF OrderInv, SharedOrder
<1> QED
  BY <1>1, OrderInvAlways, PTL

(* Each of the three transports is a channel of wire messages that may be  *)
(* lost: none is handed up whole that was not sent, and none twice.        *)
THEOREM TransportsImplementChannel == Spec => ImplementsChannel
<1>1. Init => Channel!Init
  <2> SUFFICES ASSUME Init PROVE Channel!Init
    OBVIOUS
  <2>1. out = {} /\ handed = <<>>
    BY DEF Init
  <2>2. \A w \in Wires :
          {i \in DOMAIN handed : handed[i] = [wire |-> w, intact |-> TRUE]} = {}
    BY <2>1
  <2>3. \A w \in Wires :
          Cardinality({i \in DOMAIN handed : handed[i] = [wire |-> w, intact |-> TRUE]}) = 0
    BY <2>2, FS_EmptySet
  <2>4. Delivered = [w \in Wires |-> 0]
    BY <2>3 DEF Delivered
  <2> QED
    BY <2>1, <2>4 DEF Channel!Init
<1>2. TransportsInv /\ OrderInv /\ [Next]_vars => [Channel!Next]_<<out, Delivered>>
  BY OrderStep, ObservedIsChannelStep DEF TransportsInv
<1> QED
  BY <1>1, <1>2, TransportsInvAlways, OrderInvAlways, PTL
  DEF Spec, ImplementsChannel, Channel!Spec

-----------------------------------------------------------------------------
(* Nothing is missing in between: as long as nothing has failed, a message *)
(* that was sent has been handed up, had nobody to go to, or is on its way *)
(* behind all that was handed up.                                          *)

Given(w) == \E i \in DOMAIN handed : handed[i].wire = w
AllIntact == \A i \in DOMAIN handed : handed[i].intact
SentBefore == \A s \in Senders, n \in 1 .. Count : n < at[s] => <<s, n>> \in out

(* ZeroMQ.  A loop that dies with a frame in its hands hands up no more.   *)
Addressed == pattern = "pub_sub" => topic.sender # <<>>

ZmqKept(w) ==
  \/ w \in missed \/ Given(w)
  \/ \E m \in Elements(queue[w[1]]) : WireOf(m) = w
  \/ loop \in {"more", "hand"} /\ WireOf(frames) = w
  \/ loop = "crashed" /\ HandedBefore(w)

ZmqWhole ==
  protocol = "zmq_tcp" =>
    /\ AllIntact /\ SentBefore
    /\ faults = 0 /\ Addressed => \A w \in out : ZmqKept(w)

MqttKept(w) ==
  \/ w \in unrouted \/ Given(w)
  \/ w \in Elements(up[w[1]]) \/ w \in Elements(down) \/ w = callback

MqttWhole ==
  protocol = "mqtt_tcp" =>
    /\ AllIntact /\ SentBefore
    /\ faults = 0 => \A w \in out : MqttKept(w)

LEMMA GivenSame ==
  ASSUME handed' = handed
  PROVE  /\ \A w : Given(w)' <=> Given(w)
         /\ AllIntact' <=> AllIntact
BY DEF Given, AllIntact

(* handed grows by one message.                                            *)
LEMMA GivenMore ==
  ASSUME TypeOK, NEW w \in Wires, NEW intact \in BOOLEAN,
         handed' = Append(handed, [wire |-> w, intact |-> intact])
  PROVE  /\ \A v : Given(v)' <=> (Given(v) \/ v = w)
         /\ AllIntact /\ intact => AllIntact'
<1>1. /\ handed \in Seq([wire : Wires, intact : BOOLEAN])
      /\ [wire |-> w, intact |-> intact] \in [wire : Wires, intact : BOOLEAN]
  BY DEF TypeOK
<1>2. /\ Len(handed') = Len(handed) + 1 /\ handed' \in Seq([wire : Wires, intact : BOOLEAN])
      /\ \A i \in 1 .. Len(handed) : handed'[i] = handed[i]
      /\ handed'[Len(handed) + 1] = [wire |-> w, intact |-> intact]
  BY <1>1, AppendProperties
<1>3. /\ DOMAIN handed' = (DOMAIN handed) \cup {Len(handed) + 1} /\ DOMAIN handed = 1 .. Len(handed)
      /\ handed'[Len(handed) + 1].wire = w /\ handed'[Len(handed) + 1].intact = intact
  BY <1>1, <1>2
<1> QED
  BY <1>2, <1>3 DEF Given, AllIntact

LEMMA ElementsOfTail ==
  ASSUME NEW S, NEW q \in Seq(S), q # <<>>
  PROVE  Elements(q) = {Head(q)} \cup Elements(Tail(q))
<1>1. /\ Len(q) \in Nat /\ Len(q) > 0 /\ DOMAIN q = 1 .. Len(q)
      /\ Tail(q) \in Seq(S) /\ Len(Tail(q)) = Len(q) - 1 /\ Head(q) = q[1]
      /\ \A i \in 1 .. Len(q) - 1 : Tail(q)[i] = q[i + 1]
  BY HeadTailProperties
<1>2. DOMAIN Tail(q) = 1 .. Len(q) - 1
  BY <1>1
<1>3. ASSUME NEW x \in Elements(q) PROVE x = Head(q) \/ x \in Elements(Tail(q))
  <2>1. PICK i \in 1 .. Len(q) : x = q[i]
    BY <1>1 DEF Elements
  <2>2. CASE i = 1
    BY <1>1, <2>1, <2>2
  <2>3. CASE i # 1
    <3>1. i - 1 \in 1 .. Len(q) - 1 /\ (i - 1) + 1 = i
      BY <1>1, <2>3
    <3>2. Tail(q)[i - 1] = x
      BY <1>1, <2>1, <3>1
    <3> QED
      BY <1>2, <3>1, <3>2 DEF Elements
  <2> QED
    BY <2>2, <2>3
<1>4. ASSUME NEW x \in Elements(Tail(q)) PROVE x \in Elements(q)
  <2>1. PICK i \in 1 .. Len(q) - 1 : x = Tail(q)[i]
    BY <1>2 DEF Elements
  <2>2. i + 1 \in DOMAIN q /\ q[i + 1] = x
    BY <1>1, <2>1
  <2> QED
    BY <2>2 DEF Elements
<1>5. Head(q) \in Elements(q)
  BY <1>1 DEF Elements
<1> QED
  BY <1>3, <1>4, <1>5

LEMMA MqttWholeStep ==
  ASSUME TypeOK, MqttPublished, MqttWhole, protocol = "mqtt_tcp", UNCHANGED protocol, MQTT!Next
  PROVE  MqttWhole'
<1>1. /\ AllIntact /\ SentBefore /\ faults \in Nat
      /\ faults = 0 => \A w \in out : MqttKept(w)
  BY DEF MqttWhole, TypeOK
<1>2. ASSUME AllIntact', SentBefore', faults' = 0 => \A w \in out' : MqttKept(w)'
      PROVE  MqttWhole'
  BY <1>2 DEF MqttWhole
<1>3. ASSUME UNCHANGED <<at, out, handed>>, faults' = 0 => faults = 0,
             faults' = 0 => \A w \in out : MqttKept(w) => MqttKept(w)'
      PROVE  MqttWhole'
  <2>1. AllIntact' /\ SentBefore'
    BY <1>1, <1>3, GivenSame DEF SentBefore
  <2> QED
    BY <1>1, <1>2, <1>3, <2>1
<1>4. ASSUME UNCHANGED <<at, out, handed, unrouted, up, down, callback>>, faults' = 0 => faults = 0
      PROVE  MqttWhole'
  <2>1. \A w \in out : MqttKept(w) => MqttKept(w)'
    BY <1>4, GivenSame DEF MqttKept
  <2> QED
    BY <1>3, <1>4, <2>1
<1> USE DEF MQTT!sharedVars
<1>5. ASSUME NEW s \in Senders, MQTT!Connect(s) \/ MQTT!PublishFails(s) \/ MQTT!Disconnect(s)
      PROVE  MqttWhole'
  BY <1>1, <1>4, <1>5 DEF MQTT!Connect, MQTT!PublishFails, MQTT!Disconnect
<1>6. CASE MQTT!Start \/ MQTT!Stop \/ MQTT!Stopped
  BY <1>1, <1>4, <1>6 DEF MQTT!Start, MQTT!Stop, MQTT!Stopped
<1>7. CASE (\E s \in Senders : MQTT!LoseSender(s)) \/ MQTT!LoseReceiver
  <2>1. faults' = faults + 1 /\ UNCHANGED <<at, out, handed>>
    BY <1>7 DEF MQTT!LoseSender, MQTT!LoseReceiver
  <2> QED
    BY <1>1, <1>3, <2>1
<1>8. ASSUME NEW s \in Senders, MQTT!Publish(s) PROVE MqttWhole'
  <2>1. PICK w : w = <<s, at[s]>>
    OBVIOUS
  <2>2. /\ out' = out \cup {w} /\ up' = [up EXCEPT ![s] = Append(@, w)]
        /\ UNCHANGED <<handed, faults, down, unrouted, callback>>
        /\ at' = [at EXCEPT ![s] = @ + 1] \/ at' = at
        /\ at[s] \in 1 .. Count
    BY <1>8, <2>1, CountIsNat DEF MQTT!Publish, MQTT!Completed
  <2>3. w \in Wires /\ w[1] = s
    BY <2>1, <2>2, MqttTyping
  <2>4. SentBefore'
    <3> SUFFICES ASSUME NEW t \in Senders, NEW n \in 1 .. Count, n < at'[t]
                 PROVE  <<t, n>> \in out'
      BY DEF SentBefore
    <3>1. n < at[t] \/ (t = s /\ n = at[s])
      BY <2>2, MqttTyping
    <3> QED
      BY <1>1, <2>1, <2>2, <3>1 DEF SentBefore
  <2>5. /\ Elements(up'[s]) = Elements(up[s]) \cup {w}
        /\ \A t \in Senders : t # s => up'[t] = up[t]
    <3>1. up'[s] = Append(up[s], w) /\ up[s] \in Seq(Wires)
      BY <2>2, MqttTyping
    <3>2. Elements(up'[s]) = Elements(up[s]) \cup {w}
      BY <2>3, <3>1, ElementsOfAppend
    <3> QED
      BY <2>2, <3>2, MqttTyping
  <2>6. ASSUME faults' = 0, NEW v \in out' PROVE MqttKept(v)'
    <3>1. CASE v = w
      BY <2>3, <2>5, <3>1 DEF MqttKept
    <3>2. CASE v \in out
      <4>1. MqttKept(v) /\ v[1] \in Senders
        BY <1>1, <2>2, <2>6, <3>2, MqttTyping
      <4> QED
        BY <2>2, <2>5, <4>1, GivenSame DEF MqttKept
    <3> QED
      BY <2>2, <2>6, <3>1, <3>2
  <2> QED
    BY <1>1, <1>2, <2>2, <2>4, <2>6, GivenSame
<1>9. ASSUME NEW s \in Senders, MQTT!Route(s) PROVE MqttWhole'
  <2>1. PICK w : w = Head(up[s])
    OBVIOUS
  <2>2. /\ up[s] # <<>> /\ up' = [up EXCEPT ![s] = Tail(@)]
        /\ \/ down' = Append(down, w) /\ unrouted' = unrouted
           \/ unrouted' = unrouted \cup {w} /\ down' = down
        /\ UNCHANGED <<at, out, handed, faults, callback>>
    BY <1>9, <2>1 DEF MQTT!Route
  <2>3. up[s] \in Seq(Wires) /\ w \in Wires /\ down \in Seq(Wires)
    BY <2>1, <2>2, MqttTyping
  <2>4. /\ Elements(up[s]) = {w} \cup Elements(up'[s])
        /\ \A t \in Senders : t # s => up'[t] = up[t]
    <3>1. Elements(up[s]) = {w} \cup Elements(Tail(up[s]))
      BY <2>1, <2>2, <2>3, ElementsOfTail
    <3> QED
      BY <2>2, <3>1, MqttTyping
  <2>5. down' = Append(down, w) => Elements(down') = Elements(down) \cup {w}
    BY <2>3, ElementsOfAppend
  <2>6. ASSUME NEW v \in out, MqttKept(v) PROVE MqttKept(v)'
    <3>1. v[1] \in Senders
      BY MqttTyping
    <3> QED
      BY <2>2, <2>4, <2>5, <2>6, <3>1, GivenSame DEF MqttKept
  <2> QED
    BY <1>3, <2>2, <2>6
<1>10. ASSUME NEW s \in Senders, MQTT!Acknowledged(s) PROVE MqttWhole'
  <2>1. /\ publish[s] = "acknowledged" /\ at' = [at EXCEPT ![s] = @ + 1]
        /\ UNCHANGED <<out, handed, faults, up, down, unrouted, callback>>
    BY <1>10 DEF MQTT!Acknowledged, MQTT!Completed
  <2>2. SentBefore'
    <3> SUFFICES ASSUME NEW t \in Senders, NEW n \in 1 .. Count, n < at'[t]
                 PROVE  <<t, n>> \in out
      BY <2>1 DEF SentBefore
    <3>1. n < at[t] \/ (t = s /\ n = at[s])
      BY <2>1, MqttTyping
    <3>2. <<s, at[s]>> \in out
      BY <2>1 DEF MqttPublished
    <3> QED
      BY <1>1, <3>1, <3>2 DEF SentBefore
  <2>3. \A w \in out : MqttKept(w) => MqttKept(w)'
    BY <2>1, GivenSame DEF MqttKept
  <2> QED
    BY <1>1, <1>2, <2>1, <2>2, <2>3, GivenSame
<1>11. CASE MQTT!Arrive
  <2>1. /\ callback = Nothing /\ down # <<>> /\ callback' = Head(down) /\ down' = Tail(down)
        /\ UNCHANGED <<at, out, handed, faults, up, unrouted>>
    BY <1>11 DEF MQTT!Arrive
  <2>2. Elements(down) = {Head(down)} \cup Elements(down')
    BY <2>1, MqttTyping, ElementsOfTail
  <2>3. \A w \in out : w # Nothing
    BY TransportsAssumption, MqttTyping DEF Count
  <2>4. \A w \in out : MqttKept(w) => MqttKept(w)'
    BY <2>1, <2>2, <2>3, GivenSame DEF MqttKept
  <2> QED
    BY <1>3, <2>1, <2>4
<1>12. CASE MQTT!Hand
  <2>1. PICK w : w = callback
    OBVIOUS
  <2>2. /\ w # Nothing /\ handed' = Append(handed, [wire |-> w, intact |-> TRUE])
        /\ UNCHANGED <<at, out, faults, up, down, unrouted>>
    BY <1>12, <2>1 DEF MQTT!Hand
  <2>3. w \in Wires
    BY <2>1, <2>2, MqttTyping
  <2>4. (\A v : Given(v)' <=> (Given(v) \/ v = w)) /\ AllIntact'
    BY <1>1, <2>2, <2>3, GivenMore
  <2>5. \A v \in out : MqttKept(v) => MqttKept(v)'
    BY <2>1, <2>2, <2>4 DEF MqttKept
  <2>6. SentBefore'
    BY <1>1, <2>2 DEF SentBefore
  <2> QED
    BY <1>1, <1>2, <2>2, <2>4, <2>5, <2>6
<1> QED
  BY <1>5, <1>6, <1>7, <1>8, <1>9, <1>10, <1>11, <1>12 DEF MQTT!Next, MQTT!ReceiverStep

LEMMA ZmqTyping ==
  ASSUME TypeOK
  PROVE  /\ at \in [Senders -> 1 .. Count + 1] /\ Count \in Nat /\ out \subseteq Wires
         /\ Wires = Senders \X (1 .. Count) /\ faults \in Nat
BY CountIsNat DEF TypeOK, Wires

LEMMA ZmqWholeStep ==
  ASSUME TypeOK, ZmqFramed, ZmqOrder, ZmqWhole, protocol = "zmq_tcp", UNCHANGED protocol,
         ZMQ!Next
  PROVE  ZmqWhole'
<1>1. /\ AllIntact /\ SentBefore /\ faults \in Nat
      /\ faults = 0 /\ Addressed => \A w \in out : ZmqKept(w)
  BY DEF ZmqWhole, TypeOK
<1>2. ASSUME AllIntact', SentBefore', faults' = 0 /\ Addressed' => \A w \in out' : ZmqKept(w)'
      PROVE  ZmqWhole'
  BY <1>2 DEF ZmqWhole
<1>3. ASSUME UNCHANGED <<at, out, handed, pattern, topic>>, faults' = 0 => faults = 0,
             faults' = 0 /\ Addressed => \A w \in out : ZmqKept(w) => ZmqKept(w)'
      PROVE  ZmqWhole'
  <2>1. AllIntact' /\ SentBefore' /\ (Addressed' <=> Addressed)
    BY <1>1, <1>3, GivenSame DEF SentBefore, Addressed
  <2> QED
    BY <1>1, <1>2, <1>3, <2>1
<1>4. ASSUME UNCHANGED <<at, out, handed, pattern, topic, missed, queue, frames, faults>>,
             loop' = loop \/ loop \notin {"more", "hand", "crashed"}
      PROVE  ZmqWhole'
  <2>1. \A w \in out : ZmqKept(w) => ZmqKept(w)'
    BY <1>4, GivenSame DEF ZmqKept, HandedBefore
  <2> QED
    BY <1>3, <1>4, <2>1
<1> USE DEF ZMQ!sharedVars, ZMQ!recvVars, ZMQ!Goto
<1>5. ASSUME NEW s \in Senders, ZMQ!Connect(s) \/ ZMQ!Disconnect(s) \/ ZMQ!Join(s) PROVE ZmqWhole'
  BY <1>4, <1>5 DEF ZMQ!Connect, ZMQ!Disconnect, ZMQ!Join
<1>6. CASE ZMQ!Test \/ ZMQ!RecvNothing
  BY <1>4, <1>6 DEF ZMQ!Test, ZMQ!RecvNothing
<1>7. CASE ZMQ!AskToStop \/ ZMQ!Close
  BY <1>4, <1>7 DEF ZMQ!AskToStop, ZMQ!Close, ZMQ!zmqVars
<1>8. ASSUME NEW s \in Senders, ZMQ!Break(s) \/ ZMQ!Die(s) PROVE ZmqWhole'
  <2>1. faults' = faults + 1 /\ UNCHANGED <<at, out, handed, pattern, topic>>
    BY <1>8 DEF ZMQ!Break, ZMQ!Die
  <2> QED
    BY <1>1, <1>3, <2>1
<1>9. ASSUME NEW s \in Senders, ZMQ!Send(s) PROVE ZmqWhole'
  <2>1. PICK w : w = <<s, at[s]>>
    OBVIOUS
  <2>2. PICK m : m = ZMQ!Frames(w)
    OBVIOUS
  <2>3. /\ \/ queue' = [queue EXCEPT ![s] = Append(@, m)] /\ missed' = missed
           \/ queue' = queue /\ missed' = missed \cup {w}
        /\ pattern = "pub_sub" /\ queue' # queue => ZMQ!Subscribed(s)
        /\ out' = out \cup {w} /\ at' = [at EXCEPT ![s] = @ + 1]
        /\ UNCHANGED <<handed, faults, pattern, topic, loop, frames>>
        /\ at[s] \in 1 .. Count
    <3> DEFINE taken == Len(queue[s]) < Hwm /\ (pattern = "pub_sub" => ZMQ!Subscribed(s))
    <3>1. /\ queue' = IF taken THEN [queue EXCEPT ![s] = Append(@, m)] ELSE queue
          /\ missed' = IF taken THEN missed ELSE missed \cup {w}
          /\ out' = out \cup {w} /\ at' = [at EXCEPT ![s] = @ + 1] /\ at[s] \in 1 .. Count
          /\ UNCHANGED <<handed, faults, pattern, topic, loop, frames>>
      BY <1>9, <2>1, <2>2, CountIsNat DEF ZMQ!Send
    <3> QED
      BY <3>1
  <2>4. w \in Wires /\ w[1] = s /\ WireOf(m) = w
    BY <2>1, <2>2, <2>3, ZmqTyping DEF WireOf, ZMQ!Frames
  <2>5. SentBefore'
    <3> SUFFICES ASSUME NEW t \in Senders, NEW n \in 1 .. Count, n < at'[t]
                 PROVE  <<t, n>> \in out'
      BY DEF SentBefore
    <3>1. n < at[t] \/ (t = s /\ n = at[s])
      BY <2>3, ZmqTyping
    <3> QED
      BY <1>1, <2>1, <2>3, <3>1 DEF SentBefore
  <2>6. /\ queue' # queue => m \in Carried
        /\ queue \in [Senders -> Seq(Carried)]
    BY <2>2, <2>3, <2>4 DEF ZMQ!Frames, Carried, Wanted, ZMQ!Subscribed, ZmqFramed
  <2>7. \A t \in Senders : t # s => queue'[t] = queue[t]
    BY <2>3, <2>6
  <2>8. \/ queue' = queue /\ w \in missed'
        \/ Elements(queue'[s]) = Elements(queue[s]) \cup {m}
    <3>1. CASE queue' = queue /\ w \in missed'
      BY <3>1
    <3>2. CASE queue' = [queue EXCEPT ![s] = Append(@, m)]
      <4>1. queue'[s] = Append(queue[s], m) /\ queue[s] \in Seq(Carried)
        BY <2>6, <3>2
      <4>2. m \in Carried
        <5>1. Len(queue'[s]) = Len(queue[s]) + 1 /\ Len(queue[s]) \in Nat
          BY <4>1
        <5> QED
          BY <2>6, <5>1
      <4> QED
        BY <4>1, <4>2, ElementsOfAppend
    <3> QED
      BY <2>3, <3>1, <3>2
  <2>9. ASSUME faults' = 0 /\ Addressed', NEW v \in out' PROVE ZmqKept(v)'
    <3>1. CASE v = w
      BY <2>4, <2>8, <3>1 DEF ZmqKept
    <3>2. CASE v \in out
      <4>1. ZmqKept(v) /\ v[1] \in Senders
        BY <1>1, <2>3, <2>9, <3>2, ZmqTyping DEF Addressed
      <4>2. \A d \in Elements(queue[v[1]]) : d \in Elements(queue'[v[1]])
        BY <2>7, <2>8, <4>1
      <4> QED
        BY <2>3, <4>1, <4>2, GivenSame DEF ZmqKept, HandedBefore
    <3> QED
      BY <2>3, <2>9, <3>1, <3>2
  <2> QED
    BY <1>1, <1>2, <2>3, <2>5, <2>9, GivenSame
<1>10. ASSUME NEW s \in Senders, ZMQ!RecvFrom(s) PROVE ZmqWhole'
  <2>1. PICK m : m = Head(queue[s])
    OBVIOUS
  <2>2. /\ queue[s] # <<>> /\ frames' = m /\ queue' = [queue EXCEPT ![s] = Tail(@)]
        /\ loop = "recv" /\ loop' \in {"more", "hand"}
        /\ UNCHANGED <<at, out, handed, faults, pattern, topic, missed>>
    BY <1>10, <2>1 DEF ZMQ!RecvFrom
  <2>3. queue[s] \in Seq(Carried) /\ queue \in [Senders -> Seq(Carried)]
    BY DEF ZmqFramed
  <2>4. /\ Elements(queue[s]) = {m} \cup Elements(queue'[s])
        /\ \A t \in Senders : t # s => queue'[t] = queue[t]
    <3>1. Elements(queue[s]) = {m} \cup Elements(Tail(queue[s]))
      BY <2>1, <2>2, <2>3, ElementsOfTail
    <3> QED
      BY <2>2, <2>3, <3>1
  <2>5. WireOf(frames)' = WireOf(m)
    BY <2>2 DEF WireOf
  <2>6. ASSUME NEW w \in out, ZmqKept(w) PROVE ZmqKept(w)'
    <3>1. w[1] \in Senders
      BY ZmqTyping
    <3>2. ASSUME NEW d \in Elements(queue[w[1]]), WireOf(d) = w PROVE ZmqKept(w)'
      BY <2>2, <2>4, <2>5, <3>1, <3>2 DEF ZmqKept
    <3> QED
      BY <2>2, <2>6, <3>2, GivenSame DEF ZmqKept
  <2> QED
    BY <1>3, <2>2, <2>6
<1>11. CASE ZMQ!More
  <2>1. /\ loop = "more" /\ frames' = Tail(frames)
        /\ loop' = (IF Len(frames) > 1 THEN "hand" ELSE "test")
        /\ UNCHANGED <<at, out, handed, queue, faults, pattern, topic, missed>>
    BY <1>11 DEF ZMQ!More
  <2>2. frames \in Carried /\ pattern = "pub_sub"
    BY <2>1 DEF ZmqFramed
  <2>3. ASSUME Addressed PROVE loop' = "hand" /\ WireOf(frames)' = WireOf(frames)
    <3>1. PICK w \in Wires : frames = <<Topic, w>>
      BY <2>2, <2>3 DEF Carried, Addressed
    <3> QED
      BY <2>1, <3>1 DEF WireOf
  <2>4. ASSUME Addressed, NEW w \in out, ZmqKept(w) PROVE ZmqKept(w)'
    BY <2>1, <2>3, <2>4, GivenSame DEF ZmqKept
  <2> QED
    BY <1>3, <2>1, <2>4
<1>12. CASE ZMQ!UseClosed
  <2>1. /\ loop \in {"recv", "more"} /\ loop' = "crashed"
        /\ UNCHANGED <<at, out, handed, queue, frames, faults, pattern, topic, missed>>
    BY <1>12 DEF ZMQ!UseClosed
  <2>2. ASSUME NEW w \in out, ZmqKept(w) PROVE ZmqKept(w)'
    <3>1. CASE loop = "more" /\ WireOf(frames) = w
      <4>1. HandedBefore(w)
        BY <3>1 DEF ZmqOrder, LeadsQueue
      <4> QED
        BY <2>1, <4>1 DEF ZmqKept, HandedBefore
    <3> QED
      BY <2>1, <2>2, <3>1, GivenSame DEF ZmqKept
  <2> QED
    BY <1>3, <2>1, <2>2
<1>13. CASE ZMQ!Hand
  <2>1. PICK w \in Wires : frames = <<w>>
    BY <1>13 DEF ZMQ!Hand, ZmqFramed
  <2>2. /\ loop = "hand" /\ handed' = Append(handed, [wire |-> w, intact |-> TRUE])
        /\ UNCHANGED <<at, out, faults, pattern, topic, missed, queue>>
    BY <1>13, <2>1 DEF ZMQ!Hand
  <2>3. (\A v : Given(v)' <=> (Given(v) \/ v = w)) /\ AllIntact'
    BY <1>1, <2>2, GivenMore
  <2>4. WireOf(frames) = w
    BY <2>1 DEF WireOf
  <2>5. \A v \in out : ZmqKept(v) => ZmqKept(v)'
    BY <2>2, <2>3, <2>4 DEF ZmqKept
  <2>6. SentBefore' /\ (Addressed' <=> Addressed)
    BY <1>1, <2>2 DEF SentBefore, Addressed
  <2> QED
    BY <1>1, <1>2, <2>2, <2>3, <2>5, <2>6
<1> QED
  BY <1>5, <1>6, <1>7, <1>8, <1>9, <1>10, <1>11, <1>12, <1>13 DEF ZMQ!Next, ZMQ!LoopStep

(* TCP: the units come one after the other, and the receive thread is in   *)
(* step with them.                                                         *)
LastOf(n) == <<n, IF n = 0 THEN 0 ELSE Sizes[n]>>
After(u) == IF u = LastOf(u[1]) THEN <<u[1] + 1, -1>> ELSE <<u[1], u[2] + 1>>

(* q is what lies between the unit u and v, the last.                      *)
Continues(q, u, v) ==
  /\ q = <<>> => u = v
  /\ q # <<>> => q[1] = After(u) /\ q[Len(q)] = v
  /\ \A k \in 1 .. Len(q) - 1 : q[k + 1] = After(q[k])

HandedUpTo(s, m) == \A n \in 1 .. Count : n <= m <=> Given(<<s, n>>)

(* The thread has so much of message n.                                    *)
Reads(s, n) ==
  /\ n \in 1 .. Count /\ want[s] = Sizes[n]
  /\ Len(buf[s]) <= want[s] /\ (thread[s] = "hand" => Len(buf[s]) = want[s])
  /\ \A k \in 1 .. Len(buf[s]) : buf[s][k] = <<n, k>>

InStep(s, m) ==
  /\ HandedUpTo(s, m)
  /\ IF Reading(s)
     THEN Reads(s, m + 1) /\ Continues(stream[s], <<m + 1, Len(buf[s])>>, LastOf(at[s] - 1))
     ELSE Continues(stream[s], LastOf(m), LastOf(at[s] - 1))

TcpWhole ==
  protocol = "tcp" /\ faults = 0 =>
    AllIntact /\ \A s \in Senders : \E m \in 0 .. Count : InStep(s, m)

LEMMA SizesArePositive ==
  /\ Count \in Nat /\ DOMAIN Sizes = 1 .. Count
  /\ \A n \in 1 .. Count : Sizes[n] \in Nat /\ Sizes[n] > 0 /\ LastOf(n) = <<n, Sizes[n]>>
BY TransportsAssumption DEF Count, LastOf

LEMMA AfterLast ==
  ASSUME NEW n \in Nat
  PROVE  After(LastOf(n)) = <<n + 1, -1>>
BY DEF After, LastOf

LEMMA AfterInside ==
  ASSUME NEW n \in 1 .. Count, NEW k \in Int, k < Sizes[n]
  PROVE  After(<<n, k>>) = <<n, k + 1>>
BY SizesArePositive DEF After

LEMMA EmptyByLength ==
  ASSUME NEW S, NEW q \in Seq(S)
  PROVE  q = <<>> <=> Len(q) = 0
BY EmptySeq

LEMMA FirstTwo ==
  ASSUME NEW S, NEW q \in Seq(S), Len(q) >= 2
  PROVE  /\ Tail(q) \in Seq(S) /\ Tail(q) # <<>> /\ Tail(Tail(q)) \in Seq(S)
         /\ Head(q) = q[1] /\ Head(Tail(q)) = q[2] /\ q[1] \in S /\ q[2] \in S
         /\ SubSeq(q, 3, Len(q)) = Tail(Tail(q)) /\ SubSeq(q, 1, 2) = <<q[1], q[2]>>
<1>1. q # <<>> /\ Len(q) \in Nat
  BY LenProperties, EmptyByLength
<1>2. /\ Tail(q) \in Seq(S) /\ Len(Tail(q)) = Len(q) - 1
      /\ \A i \in 1 .. Len(q) - 1 : Tail(q)[i] = q[i + 1]
  BY <1>1, HeadTailProperties
<1>3. Tail(q) # <<>>
  <2>1. Len(Tail(q)) # 0
    BY <1>1, <1>2
  <2> QED
    BY <1>2, <2>1, EmptyByLength, Zenon
<1>4. /\ Tail(Tail(q)) \in Seq(S) /\ Len(Tail(Tail(q))) = Len(q) - 2
      /\ \A i \in 1 .. Len(q) - 2 : Tail(Tail(q))[i] = Tail(q)[i + 1]
  BY <1>1, <1>2, <1>3, HeadTailProperties
<1>5. 1 \in 1 .. Len(q) /\ 2 \in 1 .. Len(q) /\ 1 \in 1 .. Len(q) - 1
  BY <1>1
<1>6. q[1] \in S /\ q[2] \in S /\ Head(q) = q[1] /\ Head(Tail(q)) = q[2]
  BY <1>1, <1>2, <1>3, <1>5, ElementOfSeq
<1>7. SubSeq(q, 3, Len(q)) = Tail(Tail(q))
  <2>1. \A i \in 3 .. Len(q) : q[i] \in S
    BY <1>1, ElementOfSeq
  <2>2. /\ SubSeq(q, 3, Len(q)) \in Seq(S)
        /\ Len(SubSeq(q, 3, Len(q))) = Len(q) - 2
        /\ \A i \in 1 .. Len(q) - 2 : SubSeq(q, 3, Len(q))[i] = q[i + 2]
    <3>1. /\ SubSeq(q, 3, Len(q)) \in Seq(S)
          /\ Len(SubSeq(q, 3, Len(q))) = IF 3 <= Len(q) THEN Len(q) - 3 + 1 ELSE 0
          /\ \A i \in 1 .. Len(q) - 3 + 1 : SubSeq(q, 3, Len(q))[i] = q[3 + i - 1]
      BY <1>1, <2>1, SubSeqProperties
    <3>2. \A i \in 1 .. Len(q) - 2 : 3 + i - 1 = i + 2 /\ i \in 1 .. Len(q) - 3 + 1
      BY <1>1
    <3>3. \A i \in 1 .. Len(q) - 2 : SubSeq(q, 3, Len(q))[i] = q[i + 2]
      BY <3>1, <3>2
    <3>4. ASSUME NEW l \in Nat, l >= 2 PROVE (IF 3 <= l THEN l - 3 + 1 ELSE 0) = l - 2
      <4>1. CASE l = 2
        BY <4>1
      <4>2. CASE l # 2
        BY <3>4, <4>2
      <4> QED
        BY <4>1, <4>2
    <3>5. Len(SubSeq(q, 3, Len(q))) = Len(q) - 2
      BY <1>1, <3>1, <3>4, Zenon
    <3> QED
      BY <3>1, <3>3, <3>5
  <2>3. ASSUME NEW i \in 1 .. Len(q) - 2 PROVE Tail(Tail(q))[i] = q[i + 2]
    <3>1. i + 1 \in 1 .. Len(q) - 1 /\ (i + 1) + 1 = i + 2
      BY <1>1
    <3> QED
      BY <1>2, <1>4, <3>1
  <2> QED
    BY <1>4, <2>2, <2>3, SeqEqual
<1>8. SubSeq(q, 1, 2) = <<q[1], q[2]>>
  <2>1. \A i \in 1 .. 2 : q[i] \in S
    BY <1>1, ElementOfSeq
  <2>2. /\ SubSeq(q, 1, 2) \in Seq(S) /\ Len(SubSeq(q, 1, 2)) = 2
        /\ \A i \in 1 .. 2 : SubSeq(q, 1, 2)[i] = q[i]
    <3>1. /\ SubSeq(q, 1, 2) \in Seq(S) /\ Len(SubSeq(q, 1, 2)) = 2
          /\ \A i \in 1 .. 2 - 1 + 1 : SubSeq(q, 1, 2)[i] = q[1 + i - 1]
      BY <2>1, SubSeqProperties
    <3> QED
      BY <3>1
  <2>3. ASSUME NEW r \in Seq(S), Len(r) = 2 PROVE r = <<r[1], r[2]>>
    BY <2>3
  <2>4. SubSeq(q, 1, 2)[1] = q[1] /\ SubSeq(q, 1, 2)[2] = q[2]
    <3>1. 1 \in 1 .. 2 /\ 2 \in 1 .. 2
      OBVIOUS
    <3> QED
      BY <2>2, <3>1, Zenon
  <2> QED
    BY <2>2, <2>3, <2>4, Zenon
<1> QED
  BY <1>2, <1>3, <1>4, <1>6, <1>7, <1>8

LEMMA ContinuesByOne ==
  ASSUME NEW q \in Seq(Unit), q # <<>>, NEW u, NEW v, Continues(q, u, v)
  PROVE  Head(q) = After(u) /\ Continues(Tail(q), Head(q), v)
<1>1. /\ Len(q) \in Nat /\ Len(q) > 0
      /\ Tail(q) \in Seq(Unit) /\ Len(Tail(q)) = Len(q) - 1 /\ Head(q) = q[1]
      /\ \A i \in 1 .. Len(q) - 1 : Tail(q)[i] = q[i + 1]
  BY HeadTailProperties
<1>2. Head(q) = After(u) /\ q[Len(q)] = v
  BY <1>1 DEF Continues
<1>3. CASE Len(q) = 1
  <2>1. Tail(q) = <<>> /\ Head(q) = v /\ Len(Tail(q)) = 0
    <3>1. Len(Tail(q)) = 0
      BY <1>1, <1>3
    <3> QED
      BY <1>1, <1>2, <1>3, <3>1, EmptyByLength, Zenon
  <2> QED
    BY <1>2, <2>1 DEF Continues
<1>4. CASE Len(q) > 1
  <2>1. Tail(q) # <<>> /\ 1 \in 1 .. Len(q) - 1 /\ Len(q) - 1 \in 1 .. Len(q) - 1
    <3>0. ASSUME NEW l \in Nat, l > 1
          PROVE  l - 1 # 0 /\ 1 \in 1 .. l - 1 /\ l - 1 \in 1 .. l - 1
      BY <3>0
    <3>1. Len(q) - 1 # 0 /\ 1 \in 1 .. Len(q) - 1 /\ Len(q) - 1 \in 1 .. Len(q) - 1
      BY <1>1, <1>4, <3>0, Zenon
    <3> QED
      BY <1>1, <3>1, EmptyByLength, Zenon
  <2>2. Tail(q)[1] = q[1 + 1] /\ Tail(q)[Len(q) - 1] = q[(Len(q) - 1) + 1]
    BY <1>1, <2>1
  <2>3. Tail(q)[1] = After(Head(q)) /\ Tail(q)[Len(Tail(q))] = v
    <3>1. q[1 + 1] = After(q[1]) /\ (Len(q) - 1) + 1 = Len(q)
      BY <1>1, <2>1 DEF Continues
    <3> QED
      BY <1>1, <1>2, <2>2, <3>1
  <2>4. ASSUME NEW k \in 1 .. Len(Tail(q)) - 1 PROVE Tail(q)[k + 1] = After(Tail(q)[k])
    <3>1. k \in 1 .. Len(q) - 1 /\ k + 1 \in 1 .. Len(q) - 1
      BY <1>1
    <3>2. Tail(q)[k] = q[k + 1] /\ Tail(q)[k + 1] = q[(k + 1) + 1]
      BY <1>1, <3>1
    <3>3. q[(k + 1) + 1] = After(q[k + 1])
      BY <3>1 DEF Continues
    <3> QED
      BY <3>2, <3>3
  <2> QED
    BY <1>2, <2>1, <2>3, <2>4 DEF Continues
<1> QED
  BY <1>1, <1>3, <1>4

LEMMA ContinuesWithMore ==
  ASSUME NEW q \in Seq(Unit), NEW u, NEW n \in 1 .. Count, Continues(q, u, LastOf(n - 1))
  PROVE  Continues(q \o TCP!Units(n), u, LastOf(n))
<1> DEFINE r == TCP!Units(n)
           p == q \o r
           a == Len(q)
           b == Sizes[n] + 2
<1>1. b \in Nat /\ b > 2 /\ LastOf(n) = <<n, b - 2>>
  BY SizesArePositive
<1>2. r \in Seq(Unit) /\ Len(r) = b /\ \A k \in 1 .. b : r[k] = <<n, k - 2>>
  BY <1>1, CountIsNat, UnitsAreUnits DEF TCP!Units
<1>3. /\ a \in Nat /\ Len(p) = a + b /\ p \in Seq(Unit)
      /\ \A k \in 1 .. a + b : p[k] = IF k <= a THEN q[k] ELSE r[k - a]
  <2> HIDE DEF r, b
  <2> QED
    BY <1>2, ConcatProperties, LenProperties
<1>4. /\ \A k \in 1 .. a : p[k] = q[k]
      /\ \A k \in 1 .. b : p[a + k] = <<n, k - 2>>
  <2> HIDE DEF p, a, b, r
  <2>1. \A k \in 1 .. a + b : p[k] = IF k <= a THEN q[k] ELSE r[k - a]
    BY <1>3
  <2>2. ASSUME NEW k \in 1 .. b PROVE p[a + k] = <<n, k - 2>>
    <3>1. a + k \in 1 .. a + b /\ ~(a + k <= a) /\ (a + k) - a = k
      BY <1>1, <1>3
    <3>2. p[a + k] = r[k]
      BY <2>1, <3>1
    <3> QED
      BY <1>2, <3>2
  <2>3. ASSUME NEW k \in 1 .. a PROVE p[k] = q[k]
    <3>1. k \in 1 .. a + b /\ k <= a
      BY <1>1, <1>3
    <3> QED
      BY <2>1, <3>1
  <2> QED
    BY <2>2, <2>3
<1>5. After(LastOf(n - 1)) = <<n, -1>>
  <2>1. n - 1 \in Nat /\ (n - 1) + 1 = n
    BY SizesArePositive
  <2> QED
    BY <2>1, AfterLast
<1>6. \A k \in 1 .. b - 1 : After(<<n, k - 2>>) = <<n, k - 1>>
  <2> SUFFICES ASSUME NEW k \in 1 .. b - 1 PROVE After(<<n, k - 2>>) = <<n, k - 1>>
    OBVIOUS
  <2>1. k - 2 \in Int /\ k - 2 < Sizes[n] /\ (k - 2) + 1 = k - 1
    BY SizesArePositive
  <2> QED
    BY <2>1, AfterInside
<1>7. q = <<>> \/ (q # <<>> /\ a > 0 /\ q[1] = After(u) /\ q[a] = LastOf(n - 1))
  BY <1>3 DEF Continues
<1>8. \A k \in 1 .. a - 1 : q[k + 1] = After(q[k])
  BY DEF Continues
<1>9. q = <<>> => u = LastOf(n - 1) /\ a = 0
  BY DEF Continues
<1> HIDE DEF p, a, b, r
<1>10. p[a + 1] = <<n, -1>> /\ p[a + b] = LastOf(n)
  <2>1. 1 \in 1 .. b /\ b \in 1 .. b /\ 1 - 2 = -1
    BY <1>1
  <2> QED
    BY <1>1, <1>4, <2>1
<1>11. p # <<>> /\ p[1] = After(u)
  <2>1. p # <<>>
    BY <1>1, <1>3
  <2>2. CASE q = <<>>
    BY <1>5, <1>9, <1>10, <2>1, <2>2
  <2>3. CASE q # <<>>
    <3>1. 1 \in 1 .. a
      BY <1>3, <1>7, <2>3
    <3> QED
      BY <1>4, <1>7, <2>1, <2>3, <3>1
  <2> QED
    BY <2>2, <2>3
<1>12. ASSUME NEW k \in 1 .. Len(p) - 1 PROVE p[k + 1] = After(p[k])
  <2>1. k \in Nat /\ k >= 1 /\ k < a + b
    BY <1>1, <1>3
  <2>2. CASE k < a
    <3>1. k \in 1 .. a - 1 /\ k \in 1 .. a /\ k + 1 \in 1 .. a
      BY <1>3, <2>1, <2>2
    <3> QED
      BY <1>4, <1>8, <3>1
  <2>3. CASE k = a
    <3>1. k \in 1 .. a /\ q # <<>>
      BY <1>3, <1>9, <2>1, <2>3
    <3>2. p[k] = LastOf(n - 1)
      BY <1>4, <1>7, <2>3, <3>1
    <3> QED
      BY <1>5, <1>10, <2>3, <3>2
  <2>4. CASE k > a
    <3>1. PICK j \in 1 .. b - 1 : k = a + j
      <4>1. k - a \in 1 .. b - 1 /\ k = a + (k - a)
        BY <1>1, <1>3, <2>1, <2>4
      <4> QED
        BY <4>1
    <3>2. j \in 1 .. b /\ j + 1 \in 1 .. b /\ k + 1 = a + (j + 1) /\ (j + 1) - 2 = j - 1
      BY <1>1, <1>3, <3>1
    <3>3. p[k] = <<n, j - 2>> /\ p[k + 1] = <<n, j - 1>>
      BY <1>4, <3>1, <3>2
    <3> QED
      BY <1>6, <3>3
  <2> QED
    BY <1>3, <2>1, <2>2, <2>3, <2>4
<1> QED
  BY <1>3, <1>10, <1>11, <1>12 DEF Continues, p, r

LEMMA TcpTyping ==
  ASSUME TypeOK
  PROVE  /\ at \in [Senders -> 1 .. Count + 1] /\ Count \in Nat /\ faults \in Nat
         /\ Wires = Senders \X (1 .. Count)
         /\ stream \in [Senders -> Seq(Unit)] /\ buf \in [Senders -> Seq(Unit)]
         /\ thread \in [Senders -> {"none", "test", "length", "body", "hand", "exited"}]
         /\ want \in [Senders -> Nat]
         /\ Unit = (1 .. Count) \X Int
BY CountIsNat DEF TypeOK, TcpTyped, Wires, Unit

(* What a step leaves alone stays in step.                                 *)
LEMMA StaysInStep ==
  ASSUME NEW t \in Senders, NEW m, InStep(t, m), HandedUpTo(t, m)',
         at'[t] = at[t], stream'[t] = stream[t], thread'[t] = thread[t], want'[t] = want[t],
         buf'[t] = buf[t]
  PROVE  InStep(t, m)'
BY DEF InStep, Reading, Reads

LEMMA RecvLengthInStep ==
  ASSUME TypeOK, NEW s \in Senders, TCP!RecvLength(s), NEW m \in 0 .. Count, InStep(s, m),
         HandedUpTo(s, m)'
  PROVE  InStep(s, m)'
<1> DEFINE q == stream[s]
           n == m + 1
<1>1. /\ Len(q) >= 2 /\ thread[s] = "length" /\ thread' = [thread EXCEPT ![s] = "body"]
      /\ stream' = [stream EXCEPT ![s] = SubSeq(@, 3, Len(@))]
      /\ buf' = [buf EXCEPT ![s] = <<>>] /\ at' = at
  BY DEF TCP!RecvLength, TCP!Goto, TCP!sharedVars
<1>2. q \in Seq(Unit) /\ q # <<>> /\ Continues(q, LastOf(m), LastOf(at[s] - 1)) /\ m \in Nat
  BY <1>1, TcpTyping DEF InStep, Reading
<1>3. /\ Tail(q) \in Seq(Unit) /\ Tail(q) # <<>> /\ Head(q) = q[1] /\ Head(Tail(q)) = q[2]
      /\ SubSeq(q, 3, Len(q)) = Tail(Tail(q)) /\ SubSeq(q, 1, 2) = <<q[1], q[2]>>
      /\ q[1] \in Unit
  BY <1>1, <1>2, FirstTwo
<1>4. q[1] = <<n, -1>> /\ Continues(Tail(q), q[1], LastOf(at[s] - 1))
  <2>1. After(LastOf(m)) = <<n, -1>>
    BY <1>2, AfterLast
  <2> HIDE DEF q, n
  <2> QED
    BY <1>2, <1>3, <2>1, ContinuesByOne
<1>5. n \in 1 .. Count
  BY <1>3, <1>4, TcpTyping
<1>6. q[2] = <<n, 0>> /\ Continues(Tail(Tail(q)), q[2], LastOf(at[s] - 1))
  <2>1. After(<<n, -1>>) = <<n, 0>>
    BY <1>5, AfterInside, SizesArePositive
  <2>2. Head(Tail(q)) = After(q[1]) /\ Continues(Tail(Tail(q)), Head(Tail(q)), LastOf(at[s] - 1))
    BY <1>3, <1>4, ContinuesByOne
  <2> QED
    BY <1>3, <1>4, <2>1, <2>2
<1>7. want'[s] = Sizes[n]
  <2>1. SubSeq(TCP!Units(n), 1, 2) = <<<<n, -1>>, <<n, 0>>>>
    <3>1. TCP!Units(n) \in Seq(Unit) /\ Len(TCP!Units(n)) >= 2
      BY <1>5, CountIsNat, UnitsAreUnits, SizesArePositive
    <3>2. SubSeq(TCP!Units(n), 1, 2) = <<TCP!Units(n)[1], TCP!Units(n)[2]>>
      BY <3>1, FirstTwo
    <3>3. TCP!Units(n)[1] = <<n, -1>> /\ TCP!Units(n)[2] = <<n, 0>>
      BY <1>5, SizesArePositive DEF TCP!Units
    <3> QED
      BY <3>2, <3>3
  <2>2. SubSeq(q, 1, 2) = SubSeq(TCP!Units(q[1][1]), 1, 2) /\ q[1][1] = n
    <3> HIDE DEF q, n
    <3>1. q[1][1] = n
      BY <1>4
    <3> QED
      BY <1>3, <1>4, <1>6, <2>1, <3>1
  <2>3. want' = [want EXCEPT ![s] = Sizes[n]]
    BY <2>2 DEF TCP!RecvLength
  <2> QED
    BY <2>3, TcpTyping
<1>8. stream'[s] = Tail(Tail(q)) /\ buf'[s] = <<>> /\ thread'[s] = "body"
  BY <1>1, <1>3, TcpTyping
<1>9. Reads(s, n)'
  BY <1>5, <1>7, <1>8, SizesArePositive DEF Reads
<1>10. Continues(stream'[s], <<n, Len(buf'[s])>>, LastOf(at'[s] - 1))
  BY <1>1, <1>6, <1>8
<1> QED
  BY <1>8, <1>9, <1>10 DEF InStep, Reading

LEMMA RecvBodyInStep ==
  ASSUME TypeOK, NEW s \in Senders, TCP!RecvBody(s), NEW m \in 0 .. Count, InStep(s, m),
         HandedUpTo(s, m)'
  PROVE  InStep(s, m)'
<1> DEFINE q == stream[s]
           n == m + 1
           b == Len(buf[s])
<1>1. /\ q # <<>> /\ thread[s] = "body" /\ b < want[s]
      /\ stream' = [stream EXCEPT ![s] = Tail(@)]
      /\ buf' = [buf EXCEPT ![s] = Append(@, Head(q))] /\ UNCHANGED <<at, thread, want>>
  BY DEF TCP!RecvBody, TCP!sharedVars
<1>2. /\ q \in Seq(Unit) /\ buf[s] \in Seq(Unit) /\ b \in Nat
      /\ Reads(s, n) /\ Continues(q, <<n, b>>, LastOf(at[s] - 1))
  BY <1>1, TcpTyping, LenProperties DEF InStep, Reading
<1>3. n \in 1 .. Count /\ want[s] = Sizes[n] /\ \A k \in 1 .. b : buf[s][k] = <<n, k>>
  BY <1>2 DEF Reads
<1>4. Head(q) = <<n, b + 1>> /\ Continues(Tail(q), <<n, b + 1>>, LastOf(at[s] - 1))
  <2>1. After(<<n, b>>) = <<n, b + 1>>
    BY <1>1, <1>2, <1>3, AfterInside
  <2>2. Head(q) = After(<<n, b>>) /\ Continues(Tail(q), Head(q), LastOf(at[s] - 1))
    <3>1. PICK r, u, v : r = q /\ u = <<n, b>> /\ v = LastOf(at[s] - 1)
      OBVIOUS
    <3>2. r # <<>> /\ r \in Seq(Unit) /\ Continues(r, u, v)
      BY <1>1, <1>2, <3>1
    <3>3. Head(r) = After(u) /\ Continues(Tail(r), Head(r), v)
      BY <3>2, ContinuesByOne
    <3> QED
      BY <3>1, <3>3
  <2> QED
    BY <2>1, <2>2, Zenon
<1>5. stream'[s] = Tail(q) /\ buf'[s] = Append(buf[s], Head(q)) /\ Head(q) \in Unit
  BY <1>1, <1>2, TcpTyping, HeadTailProperties
<1>6. /\ Len(buf'[s]) = b + 1 /\ buf'[s][b + 1] = Head(q)
      /\ \A k \in 1 .. b : buf'[s][k] = buf[s][k]
  BY <1>2, <1>5, AppendProperties
<1> HIDE DEF b, q
<1>7. Reads(s, n)'
  <2>1. Len(buf'[s]) <= want'[s]
    BY <1>1, <1>2, <1>6, TcpTyping
  <2>2. ASSUME NEW k \in 1 .. Len(buf'[s]) PROVE buf'[s][k] = <<n, k>>
    <3>1. k \in 1 .. b \/ k = b + 1
      BY <1>2, <1>6
    <3> QED
      BY <1>3, <1>4, <1>6, <3>1
  <2> QED
    BY <1>1, <1>3, <2>1, <2>2 DEF Reads
<1> QED
  BY <1>1, <1>4, <1>5, <1>6, <1>7 DEF InStep, Reading

LEMMA HandInStep ==
  ASSUME TypeOK, NEW s \in Senders, TCP!Hand(s), NEW m \in 0 .. Count, InStep(s, m), AllIntact
  PROVE  /\ \E w \in Wires : w[1] = s /\ \A v : Given(v)' <=> (Given(v) \/ v = w)
         /\ AllIntact'
         /\ m + 1 \in 0 .. Count /\ InStep(s, m + 1)'
<1> DEFINE n == m + 1
           w == <<s, n>>
<1>1. /\ thread[s] = "hand" /\ thread' = [thread EXCEPT ![s] = "test"]
      /\ UNCHANGED <<at, stream, want, buf>>
  BY DEF TCP!Hand, TCP!Goto
<1>2. /\ HandedUpTo(s, m) /\ buf[s] \in Seq(Unit)
      /\ Reads(s, n) /\ Continues(stream[s], <<n, Len(buf[s])>>, LastOf(at[s] - 1))
  BY <1>1, TcpTyping DEF InStep, Reading
<1>3. /\ n \in 1 .. Count /\ Len(buf[s]) = Sizes[n] /\ Sizes[n] \in Nat /\ Sizes[n] > 0
      /\ \A k \in 1 .. Sizes[n] : buf[s][k] = <<n, k>>
  BY <1>1, <1>2, SizesArePositive DEF Reads
<1>4. buf[s][1] = <<n, 1>> /\ TCP!IsWire(buf[s])
  <2>1. 1 \in 1 .. Sizes[n]
    BY <1>3
  <2>2. buf[s][1] = <<n, 1>> /\ buf[s] # <<>>
    BY <1>3, <2>1
  <2> QED
    BY <1>3, <2>2 DEF TCP!IsWire
<1>5. SubSeq(buf[s], 1, Sizes[n]) = TCP!Body(n)
  <2>1. SubSeq(buf[s], 1, Sizes[n]) = buf[s]
    BY <1>2, <1>3, SubSeqFull
  <2>2. buf[s] = [k \in 1 .. Sizes[n] |-> <<n, k>>]
    BY <1>2, <1>3, LenProperties
  <2> QED
    BY <2>1, <2>2 DEF TCP!Body
<1>6. handed' = Append(handed, [wire |-> w, intact |-> TRUE])
  <2> HIDE DEF n
  <2>1. buf[s][1][1] = n
    BY <1>4
  <2>2. handed' = Append(handed, [wire |-> <<s, n>>,
                                   intact |-> SubSeq(buf[s], 1, Sizes[n]) = TCP!Body(n)])
    BY <1>4, <2>1 DEF TCP!Hand
  <2>3. (SubSeq(buf[s], 1, Sizes[n]) = TCP!Body(n)) = TRUE
    BY <1>5, Zenon
  <2> QED
    BY <2>2, <2>3, Zenon
<1>7. w \in Wires
  BY <1>3, TcpTyping
<1>8. (\A v : Given(v)' <=> (Given(v) \/ v = w)) /\ AllIntact'
  BY <1>6, <1>7, GivenMore
<1>9. HandedUpTo(s, n)'
  <2> SUFFICES ASSUME NEW k \in 1 .. Count PROVE k <= n <=> Given(<<s, k>>)'
    BY DEF HandedUpTo
  <2>1. k <= m <=> Given(<<s, k>>)
    BY <1>2 DEF HandedUpTo
  <2>2. k <= n <=> (k <= m \/ k = n)
    BY SizesArePositive
  <2>3. k = n <=> <<s, k>> = w
    OBVIOUS
  <2> QED
    BY <1>8, <2>1, <2>2, <2>3
<1>10. LastOf(n) = <<n, Len(buf[s])>>
  BY <1>3, SizesArePositive
<1>11. ~Reading(s)' /\ Continues(stream'[s], LastOf(n), LastOf(at'[s] - 1))
  BY <1>1, <1>2, <1>10, TcpTyping DEF Reading
<1>12. InStep(s, n)'
  BY <1>9, <1>11 DEF InStep
<1>13. w[1] = s
  OBVIOUS
<1> HIDE DEF w
<1> QED
  BY <1>3, <1>7, <1>8, <1>12, <1>13

LEMMA TcpWholeStep ==
  ASSUME TypeOK, TcpWhole, protocol = "tcp", UNCHANGED protocol, TCP!Next
  PROVE  TcpWhole'
<1> SUFFICES ASSUME faults' = 0
             PROVE  AllIntact' /\ \A s \in Senders : \E m \in 0 .. Count : InStep(s, m)'
  BY DEF TcpWhole
<1> DEFINE Goal == AllIntact' /\ \A s \in Senders : \E m \in 0 .. Count : InStep(s, m)'
<1>1. ASSUME faults = 0
      PROVE  AllIntact /\ \A s \in Senders : \E m \in 0 .. Count : InStep(s, m)
  BY <1>1 DEF TcpWhole
<1>2. ASSUME faults = 0, handed' = handed, NEW s \in Senders,
             \A t \in Senders : t # s =>
               /\ at'[t] = at[t] /\ stream'[t] = stream[t] /\ thread'[t] = thread[t]
               /\ want'[t] = want[t] /\ buf'[t] = buf[t],
             \A m \in 0 .. Count : InStep(s, m) /\ HandedUpTo(s, m)' => InStep(s, m)'
      PROVE  Goal
  <2>1. \A t \in Senders, m \in 0 .. Count : InStep(t, m) => HandedUpTo(t, m)'
    BY <1>2, GivenSame DEF InStep, HandedUpTo
  <2>2. ASSUME NEW t \in Senders PROVE \E m \in 0 .. Count : InStep(t, m)'
    <3>1. PICK m \in 0 .. Count : InStep(t, m)
      BY <1>1, <1>2
    <3> QED
      BY <1>2, <2>1, <3>1, StaysInStep
  <2> QED
    BY <1>1, <1>2, <2>2, GivenSame
<1> USE DEF TCP!sharedVars, TCP!Goto
<1>3. ASSUME NEW s \in Senders, TCP!Connect(s) \/ TCP!Disconnect(s) PROVE Goal
  <2>1. UNCHANGED <<at, handed, faults, stream, thread, want, buf>>
    BY <1>3 DEF TCP!Connect, TCP!Disconnect
  <2> QED
    BY <1>2, <2>1, StaysInStep
<1>4. ASSUME NEW s \in Senders, TCP!SendFails(s) \/ TCP!Reset(s) PROVE Goal
  <2>1. faults' = faults + 1
    BY <1>4 DEF TCP!SendFails, TCP!Reset
  <2> QED
    BY <2>1, TcpTyping
<1>5. ASSUME NEW s \in Senders, TCP!Send(s) PROVE Goal
  <2>1. /\ at[s] \in 1 .. Count /\ at' = [at EXCEPT ![s] = @ + 1]
        /\ stream' = [stream EXCEPT ![s] = @ \o TCP!Units(at[s])]
        /\ UNCHANGED <<handed, faults, thread, want, buf>>
    BY <1>5, CountIsNat DEF TCP!Send, TCP!Sent
  <2>2. /\ at'[s] - 1 = at[s] /\ stream'[s] = stream[s] \o TCP!Units(at[s])
        /\ stream[s] \in Seq(Unit)
        /\ \A t \in Senders : t # s => at'[t] = at[t] /\ stream'[t] = stream[t]
    BY <2>1, TcpTyping
  <2>3. ASSUME NEW m \in 0 .. Count, InStep(s, m), HandedUpTo(s, m)' PROVE InStep(s, m)'
    <3>1. CASE Reading(s)
      <4>1. Reads(s, m + 1) /\ Continues(stream[s], <<m + 1, Len(buf[s])>>, LastOf(at[s] - 1))
        BY <2>3, <3>1 DEF InStep
      <4>2. Continues(stream'[s], <<m + 1, Len(buf[s])>>, LastOf(at[s]))
        BY ZenonT(40), <2>1, <2>2, <4>1, ContinuesWithMore
      <4> QED
        BY <2>1, <2>2, <2>3, <3>1, <4>1, <4>2 DEF InStep, Reads, Reading
    <3>2. CASE ~Reading(s)
      <4>1. Continues(stream[s], LastOf(m), LastOf(at[s] - 1))
        BY <2>3, <3>2 DEF InStep
      <4>2. Continues(stream'[s], LastOf(m), LastOf(at[s]))
        BY ZenonT(30), <2>1, <2>2, <4>1, ContinuesWithMore
      <4> QED
        BY <2>1, <2>2, <2>3, <3>2, <4>2 DEF InStep, Reading
    <3> QED
      BY <3>1, <3>2
  <2> QED
    BY <1>2, <2>1, <2>2, <2>3
<1>6. ASSUME NEW s \in Senders, TCP!Accept(s) \/ TCP!Test(s) PROVE Goal
  <2>1. /\ thread[s] \in {"none", "test"}
        /\ \/ thread' = [thread EXCEPT ![s] = "test"]
           \/ thread' = [thread EXCEPT ![s] = "exited"]
           \/ thread' = [thread EXCEPT ![s] = "length"]
        /\ UNCHANGED <<at, handed, faults, stream, want, buf>>
    BY <1>6 DEF TCP!Accept, TCP!Test
  <2>2. ~Reading(s) /\ ~Reading(s)' /\ \A t \in Senders : t # s => thread'[t] = thread[t]
    BY <2>1, TcpTyping DEF Reading
  <2>3. \A m \in 0 .. Count : InStep(s, m) /\ HandedUpTo(s, m)' => InStep(s, m)'
    BY <2>1, <2>2 DEF InStep
  <2> QED
    BY <1>2, <2>1, <2>2, <2>3
<1>7. ASSUME NEW s \in Senders, TCP!RecvLength(s) PROVE Goal
  <2>1. /\ UNCHANGED <<at, handed, faults>>
        /\ thread' = [thread EXCEPT ![s] = "body"] /\ buf' = [buf EXCEPT ![s] = <<>>]
        /\ stream' = [stream EXCEPT ![s] = SubSeq(@, 3, Len(@))]
        /\ \A t \in Senders : t # s => want'[t] = want[t]
    BY <1>7, TcpTyping DEF TCP!RecvLength
  <2>2. \A m \in 0 .. Count : InStep(s, m) /\ HandedUpTo(s, m)' => InStep(s, m)'
    BY <1>7, RecvLengthInStep
  <2> QED
    BY <1>2, <2>1, <2>2, TcpTyping
<1>8. ASSUME NEW s \in Senders, TCP!RecvBody(s) PROVE Goal
  <2>1. /\ UNCHANGED <<at, handed, faults, thread, want>>
        /\ buf' = [buf EXCEPT ![s] = Append(@, Head(stream[s]))]
        /\ stream' = [stream EXCEPT ![s] = Tail(@)]
    BY <1>8 DEF TCP!RecvBody
  <2>2. \A m \in 0 .. Count : InStep(s, m) /\ HandedUpTo(s, m)' => InStep(s, m)'
    BY <1>8, RecvBodyInStep
  <2> QED
    BY <1>2, <2>1, <2>2, TcpTyping
<1>9. ASSUME NEW s \in Senders, TCP!GotBody(s) PROVE Goal
  <2>1. /\ UNCHANGED <<at, handed, faults, stream, want, buf>>
        /\ thread[s] = "body" /\ thread' = [thread EXCEPT ![s] = "hand"] /\ Len(buf[s]) = want[s]
    BY <1>9 DEF TCP!GotBody
  <2>2. Reading(s) /\ Reading(s)' /\ \A t \in Senders : t # s => thread'[t] = thread[t]
    BY <2>1, TcpTyping DEF Reading
  <2>3. \A m \in 0 .. Count : InStep(s, m) /\ HandedUpTo(s, m)' => InStep(s, m)'
    BY <2>1, <2>2 DEF InStep, Reads
  <2> QED
    BY <1>2, <2>1, <2>2, <2>3
<1>10. ASSUME NEW s \in Senders, TCP!RecvEnd(s) PROVE Goal
  <2>1. /\ UNCHANGED <<at, handed, faults, stream, want, buf>>
        /\ thread' = [thread EXCEPT ![s] = "exited"]
        /\ thread[s] = "length" \/ (thread[s] = "body" /\ stream[s] = <<>> /\ Len(buf[s]) < want[s])
    BY <1>10 DEF TCP!RecvEnd
  <2>2. ~Reading(s)' /\ \A t \in Senders : t # s => thread'[t] = thread[t]
    BY <2>1, TcpTyping DEF Reading
  <2>3. ASSUME NEW m \in 0 .. Count, InStep(s, m), thread[s] = "body" PROVE FALSE
    <3>1. Reads(s, m + 1) /\ <<m + 1, Len(buf[s])>> = LastOf(at[s] - 1)
      BY <2>1, <2>3 DEF InStep, Reading, Continues
    <3>2. m + 1 \in 1 .. Count /\ want[s] = Sizes[m + 1]
      BY <3>1 DEF Reads
    <3>3. at[s] - 1 = m + 1
      BY <3>1 DEF LastOf
    <3>4. LastOf(m + 1) = <<m + 1, Sizes[m + 1]>> /\ Sizes[m + 1] \in Nat
      BY <3>2, SizesArePositive
    <3>5. Len(buf[s]) = Sizes[m + 1]
      BY <3>1, <3>3, <3>4
    <3> QED
      BY <2>1, <2>3, <3>2, <3>4, <3>5
  <2>4. \A m \in 0 .. Count : InStep(s, m) /\ HandedUpTo(s, m)' => InStep(s, m)'
    BY <2>1, <2>2, <2>3 DEF InStep, Reading
  <2> QED
    BY <1>2, <2>1, <2>2, <2>4
<1>11. ASSUME NEW s \in Senders, TCP!Hand(s) PROVE Goal
  <2>1. /\ UNCHANGED <<at, faults, stream, want, buf>> /\ thread' = [thread EXCEPT ![s] = "test"]
    BY <1>11 DEF TCP!Hand
  <2>2. PICK m \in 0 .. Count : InStep(s, m)
    BY <1>1, <2>1
  <2>3. AllIntact
    BY <1>1, <2>1
  <2>4. /\ \E w \in Wires : w[1] = s /\ \A v : Given(v)' <=> (Given(v) \/ v = w)
        /\ AllIntact' /\ m + 1 \in 0 .. Count /\ InStep(s, m + 1)'
    BY <1>11, <2>2, <2>3, HandInStep
  <2>5. ASSUME NEW t \in Senders, t # s PROVE \E k \in 0 .. Count : InStep(t, k)'
    <3>1. PICK k \in 0 .. Count : InStep(t, k)
      BY <1>1, <2>1
    <3>2. \A n : <<t, n>>[1] # s
      BY <2>5
    <3>3. HandedUpTo(t, k)'
      BY <2>4, <3>1, <3>2 DEF InStep, HandedUpTo
    <3>4. thread'[t] = thread[t]
      BY <2>1, <2>5, TcpTyping
    <3>5. InStep(t, k)'
      BY <2>1, <3>1, <3>3, <3>4, StaysInStep
    <3> QED
      BY <3>5
  <2> QED
    BY <2>4, <2>5
<1>12. CASE TCP!Stop
  <2>1. UNCHANGED <<at, handed, faults, stream, thread, want, buf>>
    BY <1>12 DEF TCP!Stop, TCP!tcpVars
  <2>2. faults = 0 /\ AllIntact'
    BY <1>1, <2>1, GivenSame
  <2>3. ASSUME NEW t \in Senders PROVE \E m \in 0 .. Count : InStep(t, m)'
    <3>1. PICK m \in 0 .. Count : InStep(t, m)
      BY <1>1, <2>2
    <3>2. HandedUpTo(t, m)'
      BY <2>1, <3>1, GivenSame DEF InStep, HandedUpTo
    <3> QED
      BY <2>1, <3>1, <3>2, StaysInStep
  <2> QED
    BY <2>2, <2>3
<1> QED
  BY <1>3, <1>4, <1>5, <1>6, <1>7, <1>8, <1>9, <1>10, <1>11, <1>12
  DEF TCP!Next, TCP!SenderStep, TCP!ClientStep

WholeInv == ZmqWhole /\ MqttWhole /\ TcpWhole

LEMMA WholeInit == Init => WholeInv
<1> SUFFICES ASSUME Init PROVE WholeInv
  OBVIOUS
<1>1. /\ at = [s \in Senders |-> 1] /\ out = {} /\ handed = <<>>
      /\ stream = [s \in Senders |-> <<>>] /\ thread = [s \in Senders |-> "none"]
  BY DEF Init, TCP!Init
<1>2. AllIntact /\ \A w : ~Given(w)
  BY <1>1 DEF AllIntact, Given
<1>3. SentBefore
  BY <1>1, SizesArePositive DEF SentBefore
<1>4. ZmqWhole /\ MqttWhole
  BY <1>1, <1>2, <1>3 DEF ZmqWhole, MqttWhole
<1>5. ASSUME NEW s \in Senders PROVE InStep(s, 0)
  <2>1. HandedUpTo(s, 0)
    BY <1>2, SizesArePositive DEF HandedUpTo
  <2>2. Continues(<<>>, LastOf(0), LastOf(0))
    BY DEF Continues
  <2>3. stream[s] = <<>> /\ at[s] - 1 = 0 /\ ~Reading(s)
    BY <1>1 DEF Reading
  <2> QED
    BY <2>1, <2>2, <2>3 DEF InStep
<1>6. TcpWhole
  BY <1>2, <1>5, SizesArePositive DEF TcpWhole
<1> QED
  BY <1>4, <1>6 DEF WholeInv

LEMMA WholeStep ==
  ASSUME TransportsInv, OrderInv, WholeInv, [Next]_vars
  PROVE  WholeInv'
<1>1. /\ TypeOK /\ ZmqFramed /\ MqttPublished /\ ZmqOrder
      /\ ZmqWhole /\ MqttWhole /\ TcpWhole
  BY DEF TransportsInv, OrderInv, WholeInv
<1>2. CASE TcpNext
  <2>1. protocol = "tcp" /\ protocol' = protocol /\ TCP!Next
    BY <1>2 DEF TcpNext
  <2>2. TcpWhole'
    BY <1>1, <2>1, TcpWholeStep
  <2> QED
    BY <2>1, <2>2 DEF WholeInv, ZmqWhole, MqttWhole
<1>3. CASE ZmqNext
  <2>1. protocol = "zmq_tcp" /\ protocol' = protocol /\ ZMQ!Next
    BY <1>3 DEF ZmqNext
  <2>2. ZmqWhole'
    BY <1>1, <2>1, ZmqWholeStep
  <2> QED
    BY <2>1, <2>2 DEF WholeInv, TcpWhole, MqttWhole
<1>4. CASE MqttNext
  <2>1. protocol = "mqtt_tcp" /\ protocol' = protocol /\ MQTT!Next
    BY <1>4 DEF MqttNext
  <2>2. MqttWhole'
    BY <1>1, <2>1, MqttWholeStep
  <2> QED
    BY <2>1, <2>2 DEF WholeInv, TcpWhole, ZmqWhole
<1>5. CASE UNCHANGED vars
  <2> USE <1>5 DEF vars, sharedVars
  <2>1. /\ \A w : Given(w)' <=> Given(w)
        /\ AllIntact' <=> AllIntact
        /\ SentBefore' <=> SentBefore
    BY GivenSame DEF SentBefore
  <2>2. ZmqWhole'
    BY <1>1, <2>1 DEF ZmqWhole, ZmqKept, HandedBefore, Addressed, WireOf, zmqVars
  <2>3. MqttWhole'
    BY <1>1, <2>1 DEF MqttWhole, MqttKept, mqttVars
  <2>4. TcpWhole'
    <3>1. ASSUME NEW s \in Senders, NEW m, InStep(s, m) PROVE InStep(s, m)'
      BY <2>1, <3>1, StaysInStep DEF InStep, HandedUpTo, tcpVars
    <3> QED
      BY <1>1, <2>1, <3>1 DEF TcpWhole
  <2> QED
    BY <2>2, <2>3, <2>4 DEF WholeInv
<1> QED
  BY <1>2, <1>3, <1>4, <1>5 DEF Next

LEMMA HandedTyping ==
  ASSUME TypeOK, NEW i \in DOMAIN handed
  PROVE  /\ i \in Nat /\ i >= 1 /\ handed[i].wire \in Wires
         /\ handed[i].wire[2] \in Nat
         /\ \E s \in Senders, m \in 1 .. Count : handed[i].wire = <<s, m>>
<1>1. handed \in Seq([wire : Wires, intact : BOOLEAN])
  BY DEF TypeOK
<1>2. i \in 1 .. Len(handed) /\ Len(handed) \in Nat
  BY <1>1, LenProperties
<1>3. handed[i] \in [wire : Wires, intact : BOOLEAN]
  BY <1>1, <1>2, ElementOfSeq
<1>4. handed[i].wire \in Wires
  BY <1>3
<1>5. PICK s \in Senders, m \in 1 .. Count : handed[i].wire = <<s, m>>
  BY <1>4, ZmqTyping
<1> QED
  BY <1>2, <1>4, <1>5, SizesArePositive

(* What has been handed up reaches back to the first message.              *)
LEMMA NothingBetween ==
  ASSUME TransportsInv, OrderInv, WholeInv, faults = 0, NEW i \in DOMAIN handed
  PROVE  /\ handed[i].intact
         /\ \A n \in 1 .. handed[i].wire[2] - 1 :
              Gap(handed[i].wire[1], n) \/ Given(<<handed[i].wire[1], n>>)
<1>1. /\ TypeOK /\ ZmqFramed /\ SharedOrder /\ ZmqOrder /\ MqttOrder
      /\ ZmqWhole /\ MqttWhole /\ TcpWhole
  BY DEF TransportsInv, OrderInv, WholeInv
<1>2. PICK s \in Senders, m \in 1 .. Count : handed[i].wire = <<s, m>> /\ <<s, m>> \in out
  BY <1>1, HandedTyping DEF SharedOrder
<1>3. ASSUME NEW n \in 1 .. m - 1
      PROVE  handed[i].intact /\ (Gap(s, n) \/ Given(<<s, n>>))
  <2>1. n \in 1 .. Count /\ n < m /\ <<s, n>>[1] = s /\ <<s, n>>[2] = n
    BY SizesArePositive
  <2>2. ~HandedBefore(<<s, n>>)
    BY <1>2, <2>1 DEF HandedBefore, Before
  <2>3. CASE protocol = "tcp"
    <3>1. PICK k \in 0 .. Count : AllIntact /\ InStep(s, k)
      BY <1>1, <2>3 DEF TcpWhole
    <3>2. \A l \in 1 .. Count : l <= k <=> Given(<<s, l>>)
      BY <3>1 DEF InStep, HandedUpTo
    <3>3. m <= k
      BY <1>2, <3>2 DEF Given
    <3>4. n <= k
      BY <2>1, <3>3, SizesArePositive
    <3> QED
      BY <2>1, <3>1, <3>2, <3>4 DEF AllIntact
  <2>4. CASE protocol = "zmq_tcp"
    <3>1. AllIntact /\ SentBefore /\ m < at[s]
      BY <1>1, <1>2, <2>4 DEF ZmqWhole, ZmqOrder
    <3>2. at[s] \in Nat
      BY <1>1, ZmqTyping
    <3>3. <<s, n>> \in out
      BY <2>1, <3>1, <3>2 DEF SentBefore
    <3>4. Addressed
      BY <1>1, <2>4 DEF ZmqFramed, Addressed, Wanted
    <3>5. ZmqKept(<<s, n>>)
      BY <1>1, <2>4, <3>3, <3>4 DEF ZmqWhole
    <3>6. ASSUME NEW d \in Elements(queue[s]) PROVE WireOf(d) # <<s, n>>
      BY <1>1, <2>2, <2>4 DEF ZmqOrder
    <3>7. ~(loop \in {"more", "hand"} /\ WireOf(frames) = <<s, n>>)
      BY <1>1, <2>2, <2>4 DEF ZmqOrder, LeadsQueue
    <3>8. <<s, n>> \in missed \/ Given(<<s, n>>)
      BY <2>1, <2>2, <3>5, <3>6, <3>7 DEF ZmqKept
    <3> QED
      BY <3>1, <3>8 DEF AllIntact, Gap
  <2>5. CASE protocol = "mqtt_tcp"
    <3>1. AllIntact /\ SentBefore /\ m <= at[s] /\ at[s] \in Nat
      BY <1>1, <1>2, <2>5, MqttTyping DEF MqttWhole, MqttOrder, NextIsNew
    <3>2. <<s, n>> \in out
      BY <2>1, <3>1 DEF SentBefore
    <3>3. MqttKept(<<s, n>>)
      BY <1>1, <2>5, <3>2 DEF MqttWhole
    <3>4. <<s, n>> \notin Elements(up[s]) /\ <<s, n>> \notin Elements(down)
      BY <1>1, <2>2, <2>5 DEF MqttOrder, Following
    <3>5. callback # <<s, n>>
      <4>1. <<s, n>> # Nothing
        BY <2>1, TransportsAssumption DEF Count
      <4> QED
        BY <1>1, <2>2, <2>5, <4>1 DEF MqttOrder
    <3>6. <<s, n>> \in unrouted \/ Given(<<s, n>>)
      BY <2>1, <3>3, <3>4, <3>5 DEF MqttKept
    <3> QED
      BY <3>1, <3>6 DEF AllIntact, Gap
  <2> QED
    BY <1>1, <2>3, <2>4, <2>5 DEF TypeOK
<1>4. handed[i].intact
  <2>1. AllIntact
    <3>1. CASE protocol = "tcp"
      BY <1>1, <1>2, <3>1 DEF TcpWhole
    <3>2. CASE protocol # "tcp"
      BY <1>1, <3>2 DEF TypeOK, ZmqWhole, MqttWhole
    <3> QED
      BY <3>1, <3>2
  <2> QED
    BY <2>1 DEF AllIntact
<1>5. handed[i].wire[1] = s /\ handed[i].wire[2] = m
  BY <1>2
<1> QED
  BY <1>3, <1>4, <1>5

LEMMA WholeInvAlways == Spec => [](TransportsInv /\ OrderInv /\ WholeInv)
<1>1. TransportsInv /\ OrderInv /\ WholeInv /\ [Next]_vars => WholeInv'
  BY WholeStep
<1> QED
  BY <1>1, WholeInit, TransportsInvAlways, OrderInvAlways, PTL DEF Spec

(* As long as no connection and no send has failed, every message handed   *)
(* up is whole and none is missing before it but those the library or the  *)
(* broker had nobody for: TCP's framing stays in step with the stream, the *)
(* queues of ZeroMQ and the broker of MQTT lose nothing, for any number of *)
(* senders, messages of any size and queues of any length.                 *)
THEOREM FaultlessStreamIsIntactAlways == Spec => []FaultlessStreamIsIntact
<1>1. TransportsInv /\ OrderInv /\ WholeInv => FaultlessStreamIsIntact
  <2> SUFFICES ASSUME TransportsInv, OrderInv, WholeInv PROVE FaultlessStreamIsIntact
    OBVIOUS
  <2>1. ArrivesInOrder /\ TypeOK
    BY DEF TransportsInv, OrderInv, SharedOrder
  <2>2. ASSUME faults = 0, NEW i \in DOMAIN handed,
               NEW n \in 1 .. handed[i].wire[2] - 1, Given(<<handed[i].wire[1], n>>)
        PROVE  \E j \in 1 .. i : handed[j].wire = <<handed[i].wire[1], n>>
    <3>1. PICK j \in DOMAIN handed : handed[j].wire = <<handed[i].wire[1], n>>
      BY <2>2 DEF Given
    <3>2. i \in Nat /\ j \in Nat /\ i >= 1 /\ j >= 1 /\ handed[i].wire[2] \in Nat
      BY <2>1, <3>1, HandedTyping
    <3>3. n < handed[i].wire[2]
      BY <3>2
    <3>4. ~(i < j)
      <4>1. handed[j].wire[1] = handed[i].wire[1] /\ handed[j].wire[2] = n
        BY <3>1
      <4>2. i < j => handed[i].wire[2] < handed[j].wire[2]
        BY <2>1, <4>1 DEF ArrivesInOrder
      <4> QED
        BY <3>2, <3>3, <4>1, <4>2
    <3> QED
      BY <3>1, <3>2, <3>4
  <2> QED
    BY <2>1, <2>2, NothingBetween DEF FaultlessStreamIsIntact
<1> QED
  BY <1>1, WholeInvAlways, PTL
=============================================================================
