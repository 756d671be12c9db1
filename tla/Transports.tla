------------------------------ MODULE Transports ------------------------------
(***************************************************************************)
(* The three transports that are not UDP, any of which a run may choose,   *)
(* behind the interface of Sender and Receiver: do_send reports success or *)
(* failure, on_wire_bytes gets wire messages until stop() returns.  What   *)
(* each promises is what the receiver makes its count of losses from.      *)
(***************************************************************************)
EXTENDS Integers, Sequences, FiniteSets

CONSTANTS Senders, Sizes, MaxFailures, MaxLength, Topics, Hwm, Topic, Qos, Nothing

ASSUME TransportsAssumption ==
  /\ Sizes \in Seq(Nat \ {0}) /\ Sizes # <<>>
  /\ MaxFailures \in Nat /\ MaxLength \in Nat
  /\ Hwm \in Nat \ {0}
  /\ Qos \subseteq 0 .. 2
  /\ Nothing \notin Senders \X (1 .. Len(Sizes))

Count == Len(Sizes)

VARIABLES
  protocol,      \* the protocol of the configuration
  at, out, done, handed, stopped, late, faults,
  link, stream, thread, want, buf,
  pattern, topic, socket, joined, queue, missed, asked, loop, frames,
  qos, client, publish, up, down, unrouted, session, callback

TCP == INSTANCE TcpTransport
ZMQ == INSTANCE ZmqTransport
MQTT == INSTANCE MqttTransport

sharedVars == <<at, out, done, handed, stopped, late, faults>>
tcpVars == <<link, stream, thread, want, buf>>
zmqVars == <<pattern, topic, socket, joined, queue, missed, asked, loop, frames>>
mqttVars == <<qos, client, publish, up, down, unrouted, session, callback>>
vars == <<protocol, sharedVars, tcpVars, zmqVars, mqttVars>>

(* Sender::create, Receiver::create.  What a run does not use has one      *)
(* initial value.                                                          *)
Init ==
  /\ protocol \in {"tcp", "zmq_tcp", "mqtt_tcp"}
  /\ at = [s \in Senders |-> 1]
  /\ out = {} /\ done = {} /\ handed = <<>>
  /\ stopped = FALSE
  /\ late = [s \in Senders |-> 0]
  /\ faults = 0
  /\ TCP!Init /\ ZMQ!Init /\ MQTT!Init
  /\ protocol # "zmq_tcp" => pattern = "push_pull"
  /\ pattern = "push_pull" => topic = CHOOSE t \in [sender : Topics, receiver : Topics] : TRUE
  /\ protocol # "mqtt_tcp" => qos = CHOOSE q \in Qos : TRUE

TcpNext ==
  /\ protocol = "tcp" /\ TCP!Next
  /\ UNCHANGED <<protocol, zmqVars, mqttVars>>

ZmqNext ==
  /\ protocol = "zmq_tcp" /\ ZMQ!Next
  /\ UNCHANGED <<protocol, tcpVars, mqttVars>>

MqttNext ==
  /\ protocol = "mqtt_tcp" /\ MQTT!Next
  /\ UNCHANGED <<protocol, tcpVars, zmqVars>>

Next == TcpNext \/ ZmqNext \/ MqttNext

(* A receive thread that can go on does; the library and the broker carry  *)
(* what they have.  Nothing makes a sender send, or main stop the receiver;*)
(* main does not stop between request_stop() and close().                  *)
Fairness ==
  /\ WF_vars(TcpNext /\ \E s \in Senders : TCP!Accept(s) \/ TCP!ClientStep(s))
  /\ WF_vars(ZmqNext /\ \E s \in Senders : ZMQ!Join(s))
  /\ SF_vars(ZmqNext /\ \E s \in Senders : ZMQ!RecvFrom(s))
  /\ WF_vars(ZmqNext /\ (ZMQ!LoopStep \/ ZMQ!Close))
  /\ WF_vars(MqttNext /\ \E s \in Senders : MQTT!Route(s))
  /\ WF_vars(MqttNext /\ (MQTT!Start \/ MQTT!ReceiverStep))

Spec == Init /\ [][Next]_vars /\ Fairness

-----------------------------------------------------------------------------
Wires == Senders \X TCP!Numbers

Unit == TCP!Numbers \X Int

TcpTyped ==
  /\ link \in [Senders -> {"none", "open", "closed"}]
  /\ stream \in [Senders -> Seq(Unit)]
  /\ thread \in [Senders -> {"none", "test", "length", "body", "hand", "exited"}]
  /\ want \in [Senders -> Nat]
  /\ buf \in [Senders -> Seq(Unit)]

Frame == Wires \cup {Topic}

ZmqTyped ==
  /\ pattern \in {"push_pull", "pub_sub"}
  /\ topic \in [sender : Topics, receiver : Topics]
  /\ socket \in [Senders -> {"none", "open", "closed"}]
  /\ joined \in [Senders -> BOOLEAN]
  /\ queue \in [Senders -> Seq(Seq(Frame))]
  /\ missed \subseteq Wires
  /\ asked \in BOOLEAN
  /\ loop \in {"test", "recv", "more", "hand", "exited", "crashed"}
  /\ frames \in Seq(Frame)

MqttTyped ==
  /\ qos \in Qos
  /\ client \in [Senders -> {"none", "open", "closed", "lost"}]
  /\ publish \in [Senders -> {"idle", "sent", "acknowledged"}]
  /\ up \in [Senders -> Seq(Wires)]
  /\ down \in Seq(Wires)
  /\ unrouted \subseteq Wires
  /\ session \in {"none", "open", "closing", "lost", "closed"}
  /\ callback \in Wires \cup {Nothing}

TypeOK ==
  /\ protocol \in {"tcp", "zmq_tcp", "mqtt_tcp"}
  /\ at \in [Senders -> 1 .. Count + 1]
  /\ done \subseteq out /\ out \subseteq Wires
  /\ handed \in Seq([wire : Wires, intact : BOOLEAN])
  /\ stopped \in BOOLEAN
  /\ late \in [Senders -> Nat]
  /\ faults \in Nat
  /\ TcpTyped /\ ZmqTyped /\ MqttTyped

Delivered ==
  [w \in Wires |-> Cardinality({i \in DOMAIN handed : handed[i] = [wire |-> w, intact |-> TRUE]})]

Channel == INSTANCE WireChannel WITH Copies <- 1, sent <- out, delivered <- Delivered

(* The three transports keep the promise of WireChannel: a message that    *)
(* on_wire_bytes gets whole is one do_send was called for, and it gets it  *)
(* once.  A duplicate is then never the doing of these transports: no      *)
(* publish is repeated, no connection is made again by a client.           *)
ImplementsChannel == Channel!Spec

Gap(s, n) == <<s, n>> \in missed \cup unrouted

(* What comes up from one sender comes in the order it was sent.           *)
ArrivesInOrder ==
  \A i, j \in DOMAIN handed :
    i < j /\ handed[i].wire[1] = handed[j].wire[1] => handed[i].wire[2] < handed[j].wire[2]

(* And while no connection and no send has failed it is whole, and lacks   *)
(* no message but those the library or the broker had nobody for.          *)
(* TcpReceiver finds each message by the length before it, so one short    *)
(* read or short send puts it out of step for the rest of the connection.  *)
FaultlessStreamIsIntact ==
  /\ ArrivesInOrder
  /\ faults = 0 =>
       \A i \in DOMAIN handed :
         /\ handed[i].intact
         /\ LET s == handed[i].wire[1] IN
            \A n \in 1 .. handed[i].wire[2] - 1 :
              Gap(s, n) \/ \E j \in 1 .. i : handed[j].wire = <<s, n>>

(* After stop() returns a receive thread may still be in on_wire_bytes: it *)
(* calls it at most once more, and never a second time.  TcpReceiver has a *)
(* detached thread for each connection, each with a call of its own.       *)
AtMostOneAfterStop == \A s \in Senders : late[s] <= 1

Outstanding ==
  {w \in done \ (missed \cup unrouted) : \A i \in DOMAIN handed : handed[i].wire # w}

(* What do_send reported as sent gets to on_wire_bytes, unless the receiver*)
(* is stopped first, something failed, or there was nobody for it yet.     *)
(* Left out is a publisher without a topic, whose messages have one frame. *)
CompletedArrive ==
  Outstanding # {} /\ ~(pattern = "pub_sub" /\ topic.sender = <<>>)
    ~> Outstanding = {} \/ stopped \/ faults > 0

(* As zmq_topic is documented, a receiver that leaves it empty subscribes  *)
(* to all: what the library takes for it arrives, whether the publisher    *)
(* has a topic or not.                                                     *)
SubscribedToAllArrives ==
  Outstanding # {} /\ pattern = "pub_sub" /\ topic.receiver = <<>>
    ~> Outstanding = {} \/ stopped \/ faults > 0
===============================================================================
