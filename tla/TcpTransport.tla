----------------------------- MODULE TcpTransport -----------------------------
(***************************************************************************)
(* TcpSender and TcpReceiver: wire messages framed by their length on a    *)
(* byte stream, one detached thread of the receiver per connection.        *)
(*                                                                         *)
(* The stream is a sequence of units <<n, k>> of message n: the two halves *)
(* of its length (k = -1 and 0), then its bytes in Sizes[n] parts, the     *)
(* header in the first.  A second sender, say the one started again after  *)
(* the first was killed, has a connection of its own.                      *)
(***************************************************************************)
EXTENDS Integers, Sequences

CONSTANTS
  Senders,       \* the sender processes, each with its connection
  Sizes,         \* the parts of each message, the last being the sentinel
  MaxFailures,   \* bound: sends that fail on a connection that lives on
  MaxLength      \* bound: the length read where there is none

Numbers == DOMAIN Sizes

VARIABLES
  at,            \* the message each sender sends next
  out,           \* the messages do_send was called for
  done,          \* of these, the ones it reported as sent
  handed,        \* what on_wire_bytes made of the messages it got
  stopped,       \* stop() of the receiver has returned
  late,          \* history: messages handed up since, by sender
  faults,        \* history: sends that failed, connections lost
  link,          \* the connection
  stream,        \* what was sent on it and has not been read
  thread,        \* client_loop
  want, buf      \* len and buf

sharedVars == <<at, out, done, handed, stopped, late, faults>>
tcpVars == <<link, stream, thread, want, buf>>

Init ==
  /\ link = [s \in Senders |-> "none"]
  /\ stream = [s \in Senders |-> <<>>]
  /\ thread = [s \in Senders |-> "none"]
  /\ want = [s \in Senders |-> 0]
  /\ buf = [s \in Senders |-> <<>>]

Units(n) == [k \in 1 .. Sizes[n] + 2 |-> <<n, k - 2>>]
Body(n) == [k \in 1 .. Sizes[n] |-> <<n, k>>]

-----------------------------------------------------------------------------
(* The sender                                                              *)

(* A server that listens completes connections before it accepts them.     *)
Connect(s) ==
  /\ link[s] = "none" /\ ~stopped
  /\ link' = [link EXCEPT ![s] = "open"]
  /\ UNCHANGED <<sharedVars, stream, thread, want, buf>>

Sent(s, units) ==
  /\ link[s] = "open" /\ at[s] \in Numbers
  /\ at' = [at EXCEPT ![s] = @ + 1]
  /\ out' = out \cup {<<s, at[s]>>}
  /\ stream' = [stream EXCEPT ![s] = @ \o units]
  /\ UNCHANGED <<handed, stopped, late, link, thread, want, buf>>

(* Mutant: send is called once for the body and is taken to send it all.   *)
SendOnce(s) ==
  /\ at[s] \in Numbers
  /\ \E k \in 3 .. Sizes[at[s]] + 2 : Sent(s, SubSeq(Units(at[s]), 1, k))
  /\ done' = done \cup {<<s, at[s]>>}
  /\ UNCHANGED faults

(* do_send: the length in one call, the body in as many as it takes.       *)
Send(s) ==
  /\ Sent(s, Units(at[s]))
  /\ done' = done \cup {<<s, at[s]>>}
  /\ UNCHANGED faults

(* A call fails, with some of the units out.  The next message follows.    *)
SendFails(s) ==
  /\ faults < MaxFailures /\ at[s] \in Numbers
  /\ \E k \in 0 .. Sizes[at[s]] + 1 : Sent(s, SubSeq(Units(at[s]), 1, k))
  /\ faults' = faults + 1
  /\ UNCHANGED done

(* The connection is reset: what was under way is lost, in part or whole,  *)
(* and each later send fails without effect.                               *)
Reset(s) ==
  /\ link[s] = "open" /\ faults < MaxFailures
  /\ link' = [link EXCEPT ![s] = "closed"]
  /\ \E k \in 0 .. Len(stream[s]) : stream' = [stream EXCEPT ![s] = SubSeq(@, 1, k)]
  /\ faults' = faults + 1
  /\ UNCHANGED <<at, out, done, handed, stopped, late, thread, want, buf>>

Disconnect(s) ==
  /\ link[s] = "open" /\ at[s] \notin Numbers
  /\ link' = [link EXCEPT ![s] = "closed"]
  /\ UNCHANGED <<sharedVars, stream, thread, want, buf>>

-----------------------------------------------------------------------------
(* The receiver                                                            *)

Goto(s, from, to) == thread[s] = from /\ thread' = [thread EXCEPT ![s] = to]

(* accept_loop; an accept that blocked across stop may still return.       *)
Accept(s) ==
  /\ link[s] # "none"
  /\ Goto(s, "none", "test")
  /\ UNCHANGED <<sharedVars, link, stream, want, buf>>

(* Mutant: the thread does not look for a stop.                            *)
TestNothing(s) ==
  /\ Goto(s, "test", "length")
  /\ UNCHANGED <<sharedVars, link, stream, want, buf>>

Test(s) ==
  /\ Goto(s, "test", IF stopped THEN "exited" ELSE "length")
  /\ UNCHANGED <<sharedVars, link, stream, want, buf>>

(* MSG_WAITALL: both halves or the end of the stream.  Two units that are  *)
(* not the halves of a length are taken for one.                           *)
RecvLength(s) ==
  /\ Len(stream[s]) >= 2
  /\ Goto(s, "length", "body")
  /\ LET n == stream[s][1][1]
         framed == SubSeq(stream[s], 1, 2) = SubSeq(Units(n), 1, 2)
     IN \E len \in IF framed THEN {Sizes[n]} ELSE 0 .. MaxLength :
          want' = [want EXCEPT ![s] = len]
  /\ stream' = [stream EXCEPT ![s] = SubSeq(@, 3, Len(@))]
  /\ buf' = [buf EXCEPT ![s] = <<>>]
  /\ UNCHANGED <<sharedVars, link>>

(* Mutant: recv is called once and is taken to have filled the buffer.     *)
RecvBodyOnce(s) ==
  /\ Goto(s, "body", "hand")
  /\ want[s] > 0 /\ stream[s] # <<>>
  /\ \E k \in 1 .. IF want[s] < Len(stream[s]) THEN want[s] ELSE Len(stream[s]) :
       /\ buf' = [buf EXCEPT ![s] = SubSeq(stream[s], 1, k)]
       /\ stream' = [stream EXCEPT ![s] = SubSeq(@, k + 1, Len(@))]
  /\ UNCHANGED <<sharedVars, link, want>>

RecvBody(s) ==
  /\ thread[s] = "body"
  /\ Len(buf[s]) < want[s] /\ stream[s] # <<>>
  /\ buf' = [buf EXCEPT ![s] = Append(@, Head(stream[s]))]
  /\ stream' = [stream EXCEPT ![s] = Tail(@)]
  /\ UNCHANGED <<sharedVars, link, thread, want>>

GotBody(s) ==
  /\ Len(buf[s]) = want[s]
  /\ Goto(s, "body", "hand")
  /\ UNCHANGED <<sharedVars, link, stream, want, buf>>

(* The end of the stream, in the middle of a message or not.               *)
RecvEnd(s) ==
  /\ link[s] = "closed"
  /\ \/ Len(stream[s]) < 2 /\ Goto(s, "length", "exited")
     \/ stream[s] = <<>> /\ Len(buf[s]) < want[s] /\ Goto(s, "body", "exited")
  /\ UNCHANGED <<sharedVars, link, stream, want, buf>>

(* parse_wire: a header comes first and announces no more than there is.   *)
IsWire(bytes) ==
  bytes # <<>> /\ bytes[1][2] = 1 /\ Len(bytes) >= Sizes[bytes[1][1]]

Hand(s) ==
  /\ Goto(s, "hand", "test")
  /\ LET n == buf[s][1][1]
     IN handed' = IF ~IsWire(buf[s]) THEN handed
                  ELSE Append(handed, [wire |-> <<s, n>>,
                                       intact |-> SubSeq(buf[s], 1, Sizes[n]) = Body(n)])
  /\ late' = [late EXCEPT ![s] = IF stopped THEN @ + 1 ELSE @]
  /\ UNCHANGED <<at, out, done, stopped, faults, link, stream, want, buf>>

(* The server socket is closed and the accept thread asked to stop; the    *)
(* client threads see the request when they come round.                    *)
Stop ==
  /\ ~stopped /\ stopped' = TRUE
  /\ UNCHANGED <<at, out, done, handed, late, faults, tcpVars>>

ClientStep(s) ==
  \/ Test(s)
  \/ RecvLength(s)
  \/ RecvBody(s)
  \/ GotBody(s)
  \/ RecvEnd(s)
  \/ Hand(s)

SenderStep(s) == Send(s) \/ Disconnect(s)

Next ==
  \/ \E s \in Senders :
       \/ Connect(s)
       \/ SenderStep(s)
       \/ SendFails(s)
       \/ Reset(s)
       \/ Accept(s)
       \/ ClientStep(s)
  \/ Stop
===============================================================================
