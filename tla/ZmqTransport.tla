----------------------------- MODULE ZmqTransport -----------------------------
(***************************************************************************)
(* ZmqTcpSender and ZmqTcpReceiver, over PUSH/PULL or PUB/SUB.  ZeroMQ     *)
(* carries messages of one or two frames, whole or not at all, in a queue  *)
(* of bounded length per sender.  The library is modelled from how it is   *)
(* used here; its queues at both ends and the connection between them are  *)
(* one sequence.                                                           *)
(***************************************************************************)
EXTENDS Integers, Sequences

CONSTANTS
  Senders,       \* the sender processes, each with its socket
  Count,         \* the messages of each, the last being the sentinel
  Topics,        \* the values of zmq_topic, the sender's and the receiver's
  Hwm,           \* the length of a queue, 1000 by default
  MaxFailures,   \* bound: connections and senders lost
  Topic          \* the frame that holds a topic

Numbers == 1 .. Count

VARIABLES
  at, out, done, handed, stopped, late, faults,   \* as in TcpTransport
  pattern,       \* zmq_pattern, both sides'
  topic,         \* zmq_topic of the sender and of the receiver
  socket,        \* the sender's socket
  joined,        \* connected and, if need be, subscribed
  queue,         \* the messages between the sender and recv_loop
  missed,        \* history: what the library dropped as nobody's
  asked,         \* request_stop() was called
  loop,          \* recv_loop
  frames         \* the frames it still has to look at

sharedVars == <<at, out, done, handed, stopped, late, faults>>
zmqVars == <<pattern, topic, socket, joined, queue, missed, asked, loop, frames>>

Init ==
  /\ pattern \in {"push_pull", "pub_sub"}
  /\ topic \in [sender : Topics, receiver : Topics]
  /\ socket = [s \in Senders |-> "none"]
  /\ joined = [s \in Senders |-> FALSE]
  /\ queue = [s \in Senders |-> <<>>]
  /\ missed = {}
  /\ asked = FALSE
  /\ loop = "test"
  /\ frames = <<>>

-----------------------------------------------------------------------------
(* The sender                                                              *)

(* A publisher binds the port, which one process can do at a time.         *)
Connect(s) ==
  /\ socket[s] = "none"
  /\ pattern = "pub_sub" => \A t \in Senders : socket[t] # "open"
  /\ socket' = [socket EXCEPT ![s] = "open"]
  /\ UNCHANGED <<sharedVars, pattern, topic, joined, queue, missed, asked, loop, frames>>

(* The library connects; a subscriber sends its subscription.              *)
Join(s) ==
  /\ socket[s] # "none" /\ ~joined[s] /\ ~stopped
  /\ joined' = [joined EXCEPT ![s] = TRUE]
  /\ UNCHANGED <<sharedVars, pattern, topic, socket, queue, missed, asked, loop, frames>>

Frames(w) ==
  IF pattern = "pub_sub" /\ topic.sender # <<>> THEN <<Topic, w>> ELSE <<w>>

StartsWith(t, prefix) == Len(prefix) <= Len(t) /\ SubSeq(t, 1, Len(prefix)) = prefix

(* A subscription is a prefix of the first frame, and a wire starts with a *)
(* magic number that is no topic.                                          *)
Subscribed(s) ==
  /\ joined[s]
  /\ IF topic.sender # <<>> THEN StartsWith(topic.sender, topic.receiver)
                            ELSE topic.receiver = <<>>

(* do_send: PUSH blocks when the queue is full, PUB drops, and both report *)
(* success.                                                                *)
Send(s) ==
  /\ socket[s] = "open" /\ at[s] \in Numbers
  /\ LET w == <<s, at[s]>>
         taken == Len(queue[s]) < Hwm /\ (pattern = "pub_sub" => Subscribed(s))
     IN /\ pattern = "push_pull" => taken
        /\ queue' = IF taken THEN [queue EXCEPT ![s] = Append(@, Frames(w))] ELSE queue
        /\ missed' = IF taken THEN missed ELSE missed \cup {w}
        /\ out' = out \cup {w}
        /\ done' = done \cup {w}
  /\ at' = [at EXCEPT ![s] = @ + 1]
  /\ UNCHANGED <<handed, stopped, late, faults, pattern, topic, socket, joined, asked, loop, frames>>

(* close(), and a context that ends when everything is out.                *)
Disconnect(s) ==
  /\ socket[s] = "open" /\ at[s] \notin Numbers
  /\ socket' = [socket EXCEPT ![s] = "closed"]
  /\ UNCHANGED <<sharedVars, pattern, topic, joined, queue, missed, asked, loop, frames>>

(* A connection breaks under the library, which makes a new one: whole     *)
(* messages are lost, those behind them are not.                           *)
Break(s) ==
  /\ joined[s] /\ faults < MaxFailures
  /\ joined' = [joined EXCEPT ![s] = FALSE]
  /\ \E i \in 0 .. Len(queue[s]) : \E j \in i .. Len(queue[s]) :
       queue' = [queue EXCEPT ![s] = SubSeq(@, 1, i) \o SubSeq(@, j + 1, Len(@))]
  /\ faults' = faults + 1
  /\ UNCHANGED <<at, out, done, handed, stopped, late, pattern, topic, socket, missed, asked, loop, frames>>

(* The sender is killed, and with it what it had not written.              *)
Die(s) ==
  /\ socket[s] = "open" /\ faults < MaxFailures
  /\ socket' = [socket EXCEPT ![s] = "closed"]
  /\ \E i \in 0 .. Len(queue[s]) : queue' = [queue EXCEPT ![s] = SubSeq(@, 1, i)]
  /\ faults' = faults + 1
  /\ UNCHANGED <<at, out, done, handed, stopped, late, pattern, topic, joined, missed, asked, loop, frames>>

-----------------------------------------------------------------------------
(* recv_loop and stop                                                      *)

Goto(from, to) == loop = from /\ loop' = to
recvVars == <<pattern, topic, socket, joined, missed, asked>>

Test ==
  /\ Goto("test", IF asked THEN "exited" ELSE "recv")
  /\ UNCHANGED <<sharedVars, recvVars, queue, frames>>

(* The first frame of a message brings the others with it.                 *)
RecvFrom(s) ==
  /\ ~stopped /\ joined[s] /\ queue[s] # <<>>
  /\ Goto("recv", IF pattern = "pub_sub" THEN "more" ELSE "hand")
  /\ frames' = Head(queue[s])
  /\ queue' = [queue EXCEPT ![s] = Tail(@)]
  /\ UNCHANGED <<sharedVars, recvVars>>

(* Nothing there: the loop sleeps for 100 us.                              *)
RecvNothing ==
  /\ ~stopped /\ \A s \in Senders : ~joined[s] \/ queue[s] = <<>>
  /\ Goto("recv", "test")
  /\ UNCHANGED <<sharedVars, recvVars, queue, frames>>

(* PUB/SUB: the wire is the second frame; a frame alone is dropped.        *)
More ==
  /\ ~stopped
  /\ Goto("more", IF Len(frames) > 1 THEN "hand" ELSE "test")
  /\ frames' = Tail(frames)
  /\ UNCHANGED <<sharedVars, recvVars, queue>>

(* A call on the closed socket throws, and nothing in the thread catches.  *)
UseClosed ==
  /\ stopped
  /\ loop \in {"recv", "more"} /\ loop' = "crashed"
  /\ UNCHANGED <<sharedVars, recvVars, queue, frames>>

Hand ==
  /\ Goto("hand", "test")
  /\ handed' = Append(handed, [wire |-> Head(frames), intact |-> TRUE])
  /\ late' = [late EXCEPT ![Head(frames)[1]] = IF stopped THEN @ + 1 ELSE @]
  /\ frames' = <<>>
  /\ UNCHANGED <<at, out, done, stopped, faults, recvVars, queue>>

AskToStop ==
  /\ ~asked /\ asked' = TRUE
  /\ UNCHANGED <<sharedVars, pattern, topic, socket, joined, queue, missed, loop, frames>>

(* The main thread closes the socket, wherever recv_loop is.               *)
Close ==
  /\ asked /\ ~stopped /\ stopped' = TRUE
  /\ UNCHANGED <<at, out, done, handed, late, faults, zmqVars>>

LoopStep ==
  \/ Test
  \/ RecvNothing
  \/ More
  \/ UseClosed
  \/ Hand

Next ==
  \/ \E s \in Senders :
       \/ Connect(s)
       \/ Join(s)
       \/ Send(s)
       \/ Disconnect(s)
       \/ Break(s)
       \/ Die(s)
       \/ RecvFrom(s)
  \/ LoopStep
  \/ AskToStop
  \/ Close
===============================================================================
