----------------------------- MODULE MqttTransport ----------------------------
(***************************************************************************)
(* MqttTcpSender and MqttTcpReceiver: both are clients of a broker, under  *)
(* fixed names, with clean sessions and without reconnecting.  Paho and    *)
(* the broker are modelled from how they are used here.                    *)
(***************************************************************************)
EXTENDS Integers, Sequences

CONSTANTS
  Senders,       \* the sender processes
  Count,         \* the messages of each, the last being the sentinel
  Qos,           \* the values of mqtt_qos
  MaxFailures,   \* bound: connections lost
  Nothing        \* no message

Numbers == 1 .. Count

VARIABLES
  at, out, done, handed, stopped, late, faults,   \* as in TcpTransport
  qos,           \* mqtt_qos, both sides'
  client,        \* the sender's connection
  publish,       \* the state of the message it published
  up, down,      \* what is under way to the broker and from it
  unrouted,      \* history: what the broker got for nobody
  session,       \* the receiver's connection
  callback       \* the message message_arrived was called for

sharedVars == <<at, out, done, handed, stopped, late, faults>>
mqttVars == <<qos, client, publish, up, down, unrouted, session, callback>>

Init ==
  /\ qos \in Qos
  /\ client = [s \in Senders |-> "none"]
  /\ publish = [s \in Senders |-> "idle"]
  /\ up = [s \in Senders |-> <<>>]
  /\ down = <<>>
  /\ unrouted = {}
  /\ session = "none"
  /\ callback = Nothing

-----------------------------------------------------------------------------
(* The sender                                                              *)

(* The broker ends the connection of another client of the same name.      *)
Connect(s) ==
  /\ client[s] = "none"
  /\ client' = [t \in Senders |-> IF t = s THEN "open"
                                  ELSE IF client[t] = "open" THEN "lost" ELSE client[t]]
  /\ faults' = IF \E t \in Senders : client[t] = "open" THEN faults + 1 ELSE faults
  /\ UNCHANGED <<at, out, done, handed, stopped, late, qos, publish, up, down, unrouted, session, callback>>

Completed(s) ==
  /\ done' = done \cup {<<s, at[s]>>}
  /\ at' = [at EXCEPT ![s] = @ + 1]

(* do_send: at QoS 0 the message is written and wait() returns.            *)
Publish(s) ==
  /\ client[s] = "open" /\ publish[s] = "idle" /\ at[s] \in Numbers
  /\ out' = out \cup {<<s, at[s]>>}
  /\ up' = [up EXCEPT ![s] = Append(@, <<s, at[s]>>)]
  /\ IF qos = 0
     THEN Completed(s) /\ UNCHANGED publish
     ELSE publish' = [publish EXCEPT ![s] = "sent"] /\ UNCHANGED <<at, done>>
  /\ UNCHANGED <<handed, stopped, late, faults, qos, client, down, unrouted, session, callback>>

(* The broker, which keeps nothing for a client that is not there.         *)
Route(s) ==
  /\ up[s] # <<>>
  /\ up' = [up EXCEPT ![s] = Tail(@)]
  /\ IF session \in {"open", "closing"}
     THEN down' = Append(down, Head(up[s])) /\ UNCHANGED unrouted
     ELSE unrouted' = unrouted \cup {Head(up[s])} /\ UNCHANGED down
  /\ publish' = [publish EXCEPT ![s] = IF @ = "sent" THEN "acknowledged" ELSE @]
  /\ UNCHANGED <<sharedVars, qos, client, session, callback>>

(* Above QoS 0 wait() returns with the broker's answer.                    *)
Acknowledged(s) ==
  /\ client[s] = "open" /\ publish[s] = "acknowledged"
  /\ Completed(s)
  /\ publish' = [publish EXCEPT ![s] = "idle"]
  /\ UNCHANGED <<out, handed, stopped, late, faults, qos, client, up, down, unrouted, session, callback>>

(* Mutant: the sender connects again and publishes the message once more.  *)
PublishFailsRetrying(s) ==
  /\ client[s] = "lost" /\ publish[s] # "idle"
  /\ client' = [client EXCEPT ![s] = "open"]
  /\ publish' = [publish EXCEPT ![s] = "idle"]
  /\ UNCHANGED <<sharedVars, qos, up, down, unrouted, session, callback>>

(* ... or throws, for a message that may be at the broker.                 *)
PublishFails(s) ==
  /\ client[s] = "lost" /\ publish[s] # "idle"
  /\ publish' = [publish EXCEPT ![s] = "idle"]
  /\ UNCHANGED <<sharedVars, qos, client, up, down, unrouted, session, callback>>

Disconnect(s) ==
  /\ client[s] = "open" /\ at[s] \notin Numbers
  /\ client' = [client EXCEPT ![s] = "closed"]
  /\ UNCHANGED <<sharedVars, qos, publish, up, down, unrouted, session, callback>>

LoseSender(s) ==
  /\ client[s] = "open" /\ faults < MaxFailures
  /\ client' = [client EXCEPT ![s] = "lost"]
  /\ \E i \in 0 .. Len(up[s]) : up' = [up EXCEPT ![s] = SubSeq(@, 1, i)]
  /\ faults' = faults + 1
  /\ UNCHANGED <<at, out, done, handed, stopped, late, qos, publish, down, unrouted, session, callback>>

-----------------------------------------------------------------------------
(* The receiver                                                            *)

(* start(): connected and subscribed.                                      *)
Start ==
  /\ session = "none" /\ session' = "open"
  /\ UNCHANGED <<sharedVars, qos, client, publish, up, down, unrouted, callback>>

LoseReceiver ==
  /\ session = "open" /\ faults < MaxFailures
  /\ session' = "lost"
  /\ \E i \in 0 .. Len(down) : down' = SubSeq(down, 1, i)
  /\ faults' = faults + 1
  /\ UNCHANGED <<at, out, done, handed, stopped, late, qos, client, publish, up, unrouted, callback>>

(* Paho calls message_arrived from its thread, one message at a time.      *)
Arrive ==
  /\ callback = Nothing /\ down # <<>> /\ session # "closed"
  /\ callback' = Head(down)
  /\ down' = Tail(down)
  /\ UNCHANGED <<sharedVars, qos, client, publish, up, unrouted, session>>

Hand ==
  /\ callback # Nothing
  /\ handed' = Append(handed, [wire |-> callback, intact |-> TRUE])
  /\ late' = [late EXCEPT ![callback[1]] = IF stopped THEN @ + 1 ELSE @]
  /\ callback' = Nothing
  /\ UNCHANGED <<at, out, done, stopped, faults, qos, client, publish, up, down, unrouted, session>>

(* stop(): disconnect if connected, and wait for it.  A call of            *)
(* message_arrived that is under way is not waited for.                    *)
Stop ==
  /\ session = "open" /\ session' = "closing"
  /\ UNCHANGED <<sharedVars, qos, client, publish, up, down, unrouted, callback>>

Stopped ==
  /\ session \in {"closing", "lost"}
  /\ session' = "closed"
  /\ stopped' = TRUE
  /\ UNCHANGED <<at, out, done, handed, late, faults, qos, client, publish, up, down, unrouted, callback>>

ReceiverStep ==
  \/ Arrive
  \/ Hand
  \/ session = "closing" /\ Stopped

Next ==
  \/ \E s \in Senders :
       \/ Connect(s)
       \/ Publish(s)
       \/ Route(s)
       \/ Acknowledged(s)
       \/ PublishFails(s)
       \/ Disconnect(s)
       \/ LoseSender(s)
  \/ Start
  \/ LoseReceiver
  \/ ReceiverStep
  \/ Stop
  \/ Stopped
===============================================================================
