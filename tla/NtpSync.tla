-------------------------------- MODULE NtpSync --------------------------------
(***************************************************************************)
(* Clocks (src/sync/NtpSync.cpp and its use): sender and receiver each ask *)
(* an SNTP server how far their clock is off, with retries and a timeout,  *)
(* and the end-to-end delay of a message is corrected by the two offsets.  *)
(*                                                                         *)
(* now is the time of the server, to which a local clock should be brought.*)
(* A host's clock is off by its skew, which does not change.               *)
(***************************************************************************)
EXTENDS Integers, FiniteSets

CONSTANTS Skews,      \* what a local clock may be ahead of the server's
          Retries,    \* retries of query
          Timeout,    \* SO_RCVTIMEO
          Epoch,      \* kNtpEpochOffset, in ticks
          Modulus,    \* 2^32 seconds: the era of an NTP timestamp
          Pauses,     \* how long the server may take over a request
          MaxStart,   \* bound: when a host starts, at the latest
          MaxTime     \* bound: the end of time

ASSUME NtpAssumption ==
  /\ Skews \subseteq Int
  /\ Pauses \subseteq Nat
  /\ Retries \in Nat /\ Timeout \in Nat \ {0}
  /\ Modulus \in Nat \ {0} /\ Epoch \in 0 .. Modulus - 1
  /\ MaxStart \in Nat /\ MaxTime \in Nat /\ MaxTime < Modulus
  /\ \A p \in Pauses : MaxTime + p < Modulus

Hosts == {"sender", "receiver"}
Attempts == 1 .. Retries

VARIABLES
  now,
  skew,       \* per host
  state,      \* per host: off, asking, waiting, synced, unsynced, died
  attempt,    \* per host: the attempt it makes, each with its own socket
  t1,         \* per host: local time at which the attempt's request was sent
  askedAt,    \* per host: history: the server's time then
  flight,     \* requests and answers, each answer from the time it is ready
  offset,     \* per host: ntp_offset_ns
  roundTrip,  \* per host: history: how long the exchange of its offset took
  message     \* one message and what becomes of it

syncVars == <<skew, state, attempt, t1, askedAt, offset, roundTrip>>
vars == <<now, syncVars, flight, message>>

Clock(h) == now + skew[h]

Unsent == [at |-> "none", ts_sent |-> 0, sentAt |-> 0, delay |-> 0, elapsed |-> 0]

Init ==
  /\ now = 0
  /\ skew \in [Hosts -> Skews]
  /\ state = [h \in Hosts |-> "off"]
  /\ attempt = [h \in Hosts |-> 0]
  /\ t1 = [h \in Hosts |-> 0] /\ askedAt = [h \in Hosts |-> 0]
  /\ offset = [h \in Hosts |-> 0] /\ roundTrip = [h \in Hosts |-> 0]
  /\ flight = {}
  /\ message = Unsent

-----------------------------------------------------------------------------
(* Arithmetic                                                              *)

(* Integer division in C++ cuts toward zero.                               *)
Half(n) == IF n >= 0 THEN n \div 2 ELSE -((-n) \div 2)

(* An NTP timestamp counts from 1900 in 32 bits of seconds, which wrap in  *)
(* 2036; ntp_to_ns subtracts in uint32_t, which wraps as well.             *)
ToNtp(t) == IF t + Epoch < Modulus THEN t + Epoch ELSE t + Epoch - Modulus

NtpToLocal(ts) == IF ts < Epoch THEN ts - Epoch + Modulus ELSE ts - Epoch

Offset(T1, T2, T3, T4) == Half((T2 - T1) + (T3 - T4))

(* Mutant: the receiver's offset is forgotten.                             *)
EndToEndHalfCorrected(sent, received, ofSender, ofReceiver) ==
  (received - sent) + ofSender

(* e2e_delay_us *)
EndToEnd(sent, received, ofSender, ofReceiver) ==
  (received - sent) + (ofSender - ofReceiver)

-----------------------------------------------------------------------------
(* A host                                                                  *)

Goto(h, from, to) == state[h] = from /\ state' = [state EXCEPT ![h] = to]

(* --no-ntp: no query, and an offset of zero.                              *)
StartUnsynced(h) ==
  /\ now <= MaxStart
  /\ Goto(h, "off", "unsynced")
  /\ UNCHANGED <<now, skew, attempt, t1, askedAt, offset, roundTrip, flight, message>>

(* getaddrinfo finds the server, or not.                                   *)
Start(h) ==
  /\ now <= MaxStart
  /\ \/ Goto(h, "off", "asking")
     \/ Goto(h, "off", "died")
  /\ UNCHANGED <<now, skew, attempt, t1, askedAt, offset, roundTrip, flight, message>>

NextAttempt(h) ==
  /\ attempt[h] < Retries
  /\ attempt' = [attempt EXCEPT ![h] = @ + 1]

Ask(h) ==
  /\ Goto(h, "asking", "waiting")
  /\ NextAttempt(h)
  /\ t1' = [t1 EXCEPT ![h] = Clock(h)]
  /\ askedAt' = [askedAt EXCEPT ![h] = now]
  /\ flight' = flight \cup
       {[host |-> h, attempt |-> attempt'[h], at |-> "request", t2 |-> 0, t3 |-> 0,
         ready |-> 0]}
  /\ UNCHANGED <<now, skew, offset, roundTrip, message>>

(* socket() or sendto() fails.                                             *)
AskFails(h) ==
  /\ state[h] = "asking"
  /\ NextAttempt(h)
  /\ UNCHANGED <<now, skew, state, t1, askedAt, offset, roundTrip, flight, message>>

(* Mutant: one socket for all attempts.                                    *)
AnyAnswer(h, m) == m.host = h /\ m.at = "answer" /\ m.ready <= now

(* The socket of an attempt is closed with it: a late answer to an earlier *)
(* attempt finds nobody.                                                   *)
OwnAnswer(h, m) ==
  m.host = h /\ m.at = "answer" /\ m.ready <= now /\ m.attempt = attempt[h]

Receive(h, m) ==
  /\ Goto(h, "waiting", "synced")
  /\ OwnAnswer(h, m)
  /\ offset' = [offset EXCEPT ![h] = Offset(t1[h], NtpToLocal(m.t2), NtpToLocal(m.t3), Clock(h))]
  /\ roundTrip' = [roundTrip EXCEPT ![h] = now - askedAt[h]]
  /\ flight' = flight \ {m}
  /\ UNCHANGED <<now, skew, attempt, t1, askedAt, message>>

(* Mutant: the timeout is not set on the socket.                           *)
NoTimeout(h) == FALSE

TimedOut(h) == now - askedAt[h] >= Timeout

(* recv() times out, or fails, or brings less than an SNTP packet.         *)
WaitFails(h) ==
  /\ Goto(h, "waiting", "asking")
  /\ TimedOut(h) \/ \E m \in flight : OwnAnswer(h, m)
  /\ UNCHANGED <<now, skew, attempt, t1, askedAt, offset, roundTrip, flight, message>>

(* All retries failed, a hard error in main.                               *)
GiveUp(h) ==
  /\ Goto(h, "asking", "died")
  /\ attempt[h] = Retries
  /\ UNCHANGED <<now, skew, attempt, t1, askedAt, offset, roundTrip, flight, message>>

HostStep(h) ==
  Ask(h) \/ AskFails(h) \/ WaitFails(h) \/ GiveUp(h) \/ (\E m \in flight : Receive(h, m))

-----------------------------------------------------------------------------
(* The server takes a while over a request.                                *)

ServerAnswer(m, pause) ==
  /\ m.at = "request"
  /\ flight' = (flight \ {m}) \cup
       {[m EXCEPT !.at = "answer", !.t2 = ToNtp(now), !.t3 = ToNtp(now + pause),
                  !.ready = now + pause]}
  /\ UNCHANGED <<now, syncVars, message>>

-----------------------------------------------------------------------------
(* A message                                                               *)

Running(h) == state[h] \in {"synced", "unsynced"}

Send ==
  /\ Running("sender") /\ message.at = "none"
  /\ message' = [message EXCEPT !.at = "wire", !.ts_sent = Clock("sender"), !.sentAt = now]
  /\ UNCHANGED <<now, syncVars, flight>>

Arrive ==
  /\ Running("receiver") /\ message.at = "wire"
  /\ message' = [message EXCEPT
       !.at = "received",
       !.delay = EndToEnd(message.ts_sent, Clock("receiver"), offset["sender"], offset["receiver"]),
       !.elapsed = now - message.sentAt]
  /\ UNCHANGED <<now, syncVars, flight>>

(* Time passes while no host is between two steps of query.  Messages and  *)
(* answers may take any time, or never come.                               *)
Tick ==
  /\ now < MaxTime
  /\ \A h \in Hosts : state[h] # "asking" /\ (state[h] = "waiting" => now - askedAt[h] < Timeout)
  /\ now' = now + 1
  /\ UNCHANGED <<syncVars, flight, message>>

Next ==
  \/ \E h \in Hosts : StartUnsynced(h) \/ Start(h) \/ HostStep(h)
  \/ \E m \in flight, pause \in Pauses : ServerAnswer(m, pause)
  \/ Send
  \/ Arrive
  \/ Tick

Spec == Init /\ [][Next]_vars

(* Hosts run and time passes; nothing is assumed of server and network.    *)
FairSpec == Spec /\ WF_now(Tick) /\ \A h \in Hosts : WF_vars(HostStep(h))

-----------------------------------------------------------------------------
(* Properties                                                              *)

Abs(n) == IF n < 0 THEN -n ELSE n

(* Every variable keeps its type.                                          *)
TypeOK ==
  /\ now \in 0 .. MaxTime
  /\ skew \in [Hosts -> Skews]
  /\ state \in [Hosts -> {"off", "asking", "waiting", "synced", "unsynced", "died"}]
  /\ attempt \in [Hosts -> 0 .. Retries]
  /\ t1 \in [Hosts -> Int] /\ askedAt \in [Hosts -> 0 .. MaxTime]
  /\ flight \subseteq [host : Hosts, attempt : Attempts, at : {"request", "answer"},
                       t2 : 0 .. Modulus - 1, t3 : 0 .. Modulus - 1, ready : Nat]
  /\ offset \in [Hosts -> Int] /\ roundTrip \in [Hosts -> Nat]
  /\ message \in [at : {"none", "wire", "received"}, ts_sent : Int, sentAt : Nat,
                  delay : Int, elapsed : Nat]

(* An offset is off the true one by half the round trip of its exchange at *)
(* most, and the round trip is within the timeout: no answer of an earlier *)
(* attempt and no wrap of the NTP era comes into it.  (The 1 is the odd    *)
(* tick that the division cuts.)                                           *)
OffsetWithinHalfRoundTrip ==
  \A h \in Hosts : state[h] = "synced" =>
    /\ 2 * Abs(offset[h] + skew[h]) <= roundTrip[h] + 1
    /\ roundTrip[h] <= Timeout

(* What the correction makes of the difference of the clocks: twice the    *)
(* difference, between hosts that both asked; once, between hosts that did *)
(* not.  Only for clocks that agree is the delay that of the message, up   *)
(* to the errors of the two offsets.                                       *)
Synced(h) == state[h] = "synced"
ClockDifference == skew["receiver"] - skew["sender"]

DelayErrorIsTwiceTheSkew ==
  message.at = "received" =>
    /\ Synced("sender") /\ Synced("receiver")
         => Abs(message.delay - message.elapsed - 2 * ClockDifference) <= Timeout + 1
    /\ ~Synced("sender") /\ ~Synced("receiver")
         => message.delay - message.elapsed = ClockDifference

(* A query ends, with an offset or with the error that ends the program.   *)
QueryEnds ==
  \A h \in Hosts : state[h] = "asking" ~> state[h] \in {"synced", "died"}

(* docs/running.md 204: "End-to-end delay is corrected for clock           *)
(* differences between machines."                                          *)
DelayIsCorrected ==
  message.at = "received" /\ Synced("sender") /\ Synced("receiver")
    => Abs(message.delay - message.elapsed) <= Timeout + 1
===============================================================================
