---------------------------- MODULE NtpSyncProofs ----------------------------
(***************************************************************************)
(* How good the clock offsets are and what they do to a delay, for every   *)
(* skew, timeout, number of retries and era of NtpSync.                    *)
(***************************************************************************)
EXTENDS NtpSync, TLAPS

-----------------------------------------------------------------------------
(* The invariant                                                           *)

(* A host that waits sent its request askedAt, at t1 of its own clock, and *)
(* its timeout has not been exceeded.                                      *)
Asked(h) ==
  state[h] = "waiting" =>
    /\ t1[h] = askedAt[h] + skew[h]
    /\ askedAt[h] <= now /\ now - askedAt[h] <= Timeout

(* An answer a host may take was stamped after its request was sent.       *)
Stamped(m) ==
  /\ m.attempt <= attempt[m.host]
  /\ m.at = "answer" /\ m.attempt = attempt[m.host] /\ state[m.host] = "waiting" =>
       /\ askedAt[m.host] <= NtpToLocal(m.t2)
       /\ NtpToLocal(m.t2) <= NtpToLocal(m.t3)
       /\ NtpToLocal(m.t3) = m.ready

QueryInv ==
  /\ \A h \in Hosts : Asked(h)
  /\ \A m \in flight : Stamped(m)
  /\ \A h \in Hosts : state[h] # "synced" => offset[h] = 0
  /\ OffsetWithinHalfRoundTrip

MessageInv ==
  /\ message.at # "none" =>
       Running("sender") /\ message.ts_sent = message.sentAt + skew["sender"]
  /\ message.at = "wire" => message.sentAt <= now
  /\ message.at = "received" => Running("receiver")

IInv == TypeOK /\ QueryInv /\ MessageInv /\ DelayErrorIsTwiceTheSkew

Exchange == [host : Hosts, attempt : Attempts, at : {"request", "answer"},
             t2 : 0 .. Modulus - 1, t3 : 0 .. Modulus - 1, ready : Nat]

-----------------------------------------------------------------------------
(* Arithmetic                                                              *)

LEMMA HalfIsHalf == \A n \in Int : Half(n) \in Int /\ 2 * Half(n) - n \in {-1, 0, 1}
BY DEF Half

(* The era of a timestamp is lost and found again.                         *)
LEMMA EraIsHarmless ==
  \A t \in 0 .. Modulus - 1 :
    ToNtp(t) \in 0 .. Modulus - 1 /\ NtpToLocal(ToNtp(t)) = t
BY NtpAssumption DEF ToNtp, NtpToLocal

LEMMA LocalTime == \A ts \in 0 .. Modulus - 1 : NtpToLocal(ts) \in Int
BY NtpAssumption DEF NtpToLocal

(* The error of an offset is half the difference of the two ways.          *)
LEMMA OffsetError ==
  ASSUME NEW asked \in Int, NEW a \in Int, NEW b \in Int, NEW t \in Int, NEW s \in Int,
         asked <= a, a <= b, b <= t
  PROVE  /\ Offset(asked + s, a, b, t + s) \in Int
         /\ 2 * Abs(Offset(asked + s, a, b, t + s) + s) <= t - asked + 1
<1> DEFINE n == (a - (asked + s)) + (b - (t + s))
<1>1. n \in Int /\ n + 2 * s <= t - asked /\ -(t - asked) <= n + 2 * s
  OBVIOUS
<1>2. Offset(asked + s, a, b, t + s) = Half(n)
  BY DEF Offset
<1> HIDE DEF n
<1>3. Half(n) \in Int /\ 2 * Half(n) - n \in {-1, 0, 1}
  BY <1>1, HalfIsHalf
<1> QED
  BY <1>1, <1>2, <1>3 DEF Abs

-----------------------------------------------------------------------------
(* Types                                                                   *)

LEMMA TypeInit == Init => TypeOK
BY NtpAssumption DEF Init, TypeOK, Unsent, Hosts

LEMMA RunningTypes ==
  ASSUME TypeOK
  PROVE  /\ now \in Int
         /\ \A h \in Hosts : /\ skew[h] \in Int /\ askedAt[h] \in Int /\ t1[h] \in Int
                             /\ offset[h] \in Int /\ attempt[h] \in 0 .. Retries
<1>1. now \in Int /\ \A h \in Hosts : skew[h] \in Skews
  BY NtpAssumption DEF TypeOK
<1>2. \A h \in Hosts : skew[h] \in Int
  BY <1>1, NtpAssumption
<1>3. \A h \in Hosts : askedAt[h] \in Int /\ t1[h] \in Int /\ offset[h] \in Int
  BY NtpAssumption DEF TypeOK
<1>4. \A h \in Hosts : attempt[h] \in 0 .. Retries
  BY DEF TypeOK
<1> QED
  BY <1>1, <1>2, <1>3, <1>4

(* What a host's step does to the network.                                 *)
LEMMA HostFlight ==
  ASSUME TypeOK, NEW h \in Hosts, HostStep(h)
  PROVE  flight' \subseteq Exchange
<1>1. flight \subseteq Exchange
  BY DEF TypeOK, Exchange
<1>2. CASE Ask(h)
  <2>1. attempt'[h] \in Attempts
    BY <1>2, NtpAssumption DEF Ask, NextAttempt, TypeOK, Attempts
  <2>2. [host |-> h, attempt |-> attempt'[h], at |-> "request", t2 |-> 0, t3 |-> 0,
         ready |-> 0] \in Exchange
    BY <2>1, NtpAssumption DEF Exchange
  <2> QED
    BY <1>1, <1>2, <2>2 DEF Ask
<1>3. CASE AskFails(h) \/ WaitFails(h) \/ GiveUp(h)
  BY <1>1, <1>3 DEF AskFails, WaitFails, GiveUp
<1>4. CASE \E m \in flight : Receive(h, m)
  BY <1>1, <1>4 DEF Receive
<1> QED
  BY <1>2, <1>3, <1>4 DEF HostStep

LEMMA TypeStep ==
  ASSUME TypeOK, \A h \in Hosts : Asked(h), MessageInv, Next
  PROVE  TypeOK'
<1> USE DEF Hosts, Goto
<1>0. /\ now \in 0 .. MaxTime /\ skew \in [Hosts -> Skews]
      /\ state \in [Hosts -> {"off", "asking", "waiting", "synced", "unsynced", "died"}]
      /\ attempt \in [Hosts -> 0 .. Retries]
      /\ t1 \in [Hosts -> Int] /\ askedAt \in [Hosts -> 0 .. MaxTime]
      /\ flight \subseteq Exchange
      /\ offset \in [Hosts -> Int] /\ roundTrip \in [Hosts -> Nat]
      /\ message \in [at : {"none", "wire", "received"}, ts_sent : Int, sentAt : Nat,
                      delay : Int, elapsed : Nat]
  BY DEF TypeOK, Exchange
<1>1. ASSUME NEW h \in Hosts, StartUnsynced(h) \/ Start(h) PROVE TypeOK'
  <2>1. state' \in [Hosts -> {"off", "asking", "waiting", "synced", "unsynced", "died"}]
    BY <1>0, <1>1 DEF StartUnsynced, Start
  <2>2. UNCHANGED <<now, skew, attempt, t1, askedAt, offset, roundTrip, flight, message>>
    BY <1>1 DEF StartUnsynced, Start
  <2> QED
    BY <1>0, <2>1, <2>2 DEF TypeOK, Exchange
<1>2. ASSUME NEW h \in Hosts, HostStep(h) PROVE TypeOK'
  <2>1. flight' \subseteq Exchange
    BY <1>2, HostFlight
  <2>2. UNCHANGED <<now, skew, message>>
    BY <1>2 DEF HostStep, Ask, AskFails, WaitFails, GiveUp, Receive
  <2>3. /\ state' \in [Hosts -> {"off", "asking", "waiting", "synced", "unsynced", "died"}]
        /\ attempt' \in [Hosts -> 0 .. Retries]
    BY <1>0, <1>2, NtpAssumption
    DEF HostStep, Ask, AskFails, WaitFails, GiveUp, Receive, NextAttempt
  <2>4. t1' \in [Hosts -> Int] /\ askedAt' \in [Hosts -> 0 .. MaxTime]
    BY <1>0, <1>2, RunningTypes
    DEF HostStep, Ask, AskFails, WaitFails, GiveUp, Receive, Clock
  <2>5. CASE \E m \in flight : Receive(h, m)
    <3>1. PICK m \in flight : Receive(h, m)
      BY <2>5
    <3>2. NtpToLocal(m.t2) \in Int /\ NtpToLocal(m.t3) \in Int /\ Clock(h) \in Int /\ t1[h] \in Int
      BY <1>0, LocalTime, RunningTypes DEF Exchange, Clock
    <3>3. Offset(t1[h], NtpToLocal(m.t2), NtpToLocal(m.t3), Clock(h)) \in Int
      BY <3>2, HalfIsHalf DEF Offset
    <3>4. now - askedAt[h] \in Nat
      BY <1>0, <3>1, RunningTypes, NtpAssumption DEF Asked, Receive
    <3>5. offset' \in [Hosts -> Int] /\ roundTrip' \in [Hosts -> Nat]
      BY <1>0, <3>1, <3>3, <3>4 DEF Receive
    <3> QED
      BY <1>0, <2>1, <2>2, <2>3, <2>4, <3>5 DEF TypeOK, Exchange
  <2>6. CASE Ask(h) \/ AskFails(h) \/ WaitFails(h) \/ GiveUp(h)
    <3>1. UNCHANGED <<offset, roundTrip>>
      BY <2>6 DEF Ask, AskFails, WaitFails, GiveUp
    <3> QED
      BY <1>0, <2>1, <2>2, <2>3, <2>4, <3>1 DEF TypeOK, Exchange
  <2> QED
    BY <1>2, <2>5, <2>6 DEF HostStep
<1>3. ASSUME NEW m \in flight, NEW pause \in Pauses, ServerAnswer(m, pause) PROVE TypeOK'
  <2>1. now \in 0 .. Modulus - 1 /\ now + pause \in 0 .. Modulus - 1 /\ now + pause \in Nat
    BY <1>0, NtpAssumption
  <2>2. ToNtp(now) \in 0 .. Modulus - 1 /\ ToNtp(now + pause) \in 0 .. Modulus - 1
    BY <2>1, EraIsHarmless
  <2>3. [m EXCEPT !.at = "answer", !.t2 = ToNtp(now), !.t3 = ToNtp(now + pause),
                  !.ready = now + pause] \in Exchange
    BY ZenonT(40), <1>0, <2>1, <2>2 DEF Exchange
  <2>4. flight' \subseteq Exchange
    BY <1>0, <1>3, <2>3 DEF ServerAnswer
  <2>5. UNCHANGED <<now, syncVars, message>>
    BY <1>3 DEF ServerAnswer
  <2> QED
    BY <1>0, <2>4, <2>5 DEF TypeOK, Exchange, syncVars
<1>4. ASSUME Send PROVE TypeOK'
  <2>1. Clock("sender") \in Int /\ now \in Nat
    BY <1>0, RunningTypes, NtpAssumption DEF Clock
  <2>2. message' \in [at : {"none", "wire", "received"}, ts_sent : Int, sentAt : Nat,
                      delay : Int, elapsed : Nat]
    BY <1>0, <1>4, <2>1 DEF Send
  <2> QED
    BY <1>0, <1>4, <2>2 DEF Send, TypeOK, Exchange, syncVars
<1>5. ASSUME Arrive PROVE TypeOK'
  <2>1. message.ts_sent \in Int /\ message.sentAt \in Nat /\ Clock("receiver") \in Int
    BY <1>0, RunningTypes DEF Clock
  <2>2. message.at = "wire" /\ message.sentAt <= now
    BY <1>5 DEF Arrive, MessageInv
  <2>3. now - message.sentAt \in Nat
    BY <1>0, <2>1, <2>2, NtpAssumption
  <2>4. EndToEnd(message.ts_sent, Clock("receiver"), offset["sender"], offset["receiver"]) \in Int
    BY <2>1, RunningTypes DEF EndToEnd
  <2>5. message' \in [at : {"none", "wire", "received"}, ts_sent : Int, sentAt : Nat,
                      delay : Int, elapsed : Nat]
    BY <1>0, <1>5, <2>3, <2>4 DEF Arrive
  <2> QED
    BY <1>0, <1>5, <2>5 DEF Arrive, TypeOK, Exchange, syncVars
<1>6. ASSUME Tick PROVE TypeOK'
  <2>1. now' \in 0 .. MaxTime /\ UNCHANGED <<syncVars, flight, message>>
    BY <1>0, <1>6, NtpAssumption DEF Tick
  <2> QED
    BY <1>0, <2>1 DEF TypeOK, Exchange, syncVars
<1> QED
  BY <1>1, <1>2, <1>3, <1>4, <1>5, <1>6 DEF Next

-----------------------------------------------------------------------------
(* The query                                                               *)

LEMMA QueryInit == Init => QueryInv
BY DEF Init, QueryInv, Asked, OffsetWithinHalfRoundTrip

(* A host's step that leaves its offset alone.                             *)
LEMMA QueryHostStep ==
  ASSUME TypeOK, QueryInv, NEW h \in Hosts,
         \/ StartUnsynced(h) \/ Start(h) \/ AskFails(h) \/ WaitFails(h) \/ GiveUp(h)
  PROVE  QueryInv'
<1>1. /\ UNCHANGED <<now, skew, t1, askedAt, offset, roundTrip, flight>>
      /\ \A g \in Hosts : /\ attempt'[g] >= attempt[g]
                          /\ (state'[g] = "waiting" =>
                                state[g] = "waiting" /\ attempt'[g] = attempt[g])
                          /\ (state'[g] = "synced" <=> state[g] = "synced")
  BY DEF StartUnsynced, Start, AskFails, WaitFails, GiveUp, Goto, NextAttempt, TypeOK, Hosts
<1>2. \A g \in Hosts : Asked(g)'
  BY <1>1 DEF QueryInv, Asked
<1>3. \A m \in flight : m.host \in Hosts /\ m.attempt \in Int
  BY DEF TypeOK, Attempts
<1>4. \A g \in Hosts : attempt[g] \in Int /\ attempt'[g] \in Int
  BY DEF StartUnsynced, Start, AskFails, WaitFails, GiveUp, NextAttempt, TypeOK
<1>5. \A m \in flight' : Stamped(m)'
  BY <1>1, <1>3, <1>4 DEF QueryInv, Stamped
<1>6. OffsetWithinHalfRoundTrip'
  BY <1>1 DEF QueryInv, OffsetWithinHalfRoundTrip
<1> QED
  BY <1>1, <1>2, <1>5, <1>6 DEF QueryInv

LEMMA QueryAsk ==
  ASSUME TypeOK, QueryInv, NEW h \in Hosts, Ask(h)
  PROVE  QueryInv'
<1> DEFINE new == [host |-> h, attempt |-> attempt'[h], at |-> "request", t2 |-> 0, t3 |-> 0,
                   ready |-> 0]
<1>1. /\ UNCHANGED <<now, skew, offset, roundTrip>>
      /\ flight' = flight \cup {new}
      /\ state[h] = "asking" /\ state'[h] = "waiting"
      /\ attempt'[h] = attempt[h] + 1
      /\ t1'[h] = Clock(h) /\ askedAt'[h] = now
      /\ \A g \in Hosts \ {h} : /\ state'[g] = state[g] /\ attempt'[g] = attempt[g]
                                /\ t1'[g] = t1[g] /\ askedAt'[g] = askedAt[g]
  BY DEF Ask, Goto, NextAttempt, TypeOK
<1>2. now \in Int /\ skew[h] \in Int /\ \A g \in Hosts : attempt[g] \in Int
  BY RunningTypes
<1>3. \A g \in Hosts : Asked(g)'
  BY <1>1, <1>2, NtpAssumption DEF QueryInv, Asked, Clock
<1>4. \A m \in flight : m.host \in Hosts /\ m.attempt \in Int
  BY DEF TypeOK, Attempts
<1>5. ASSUME NEW m \in flight PROVE Stamped(m)'
  <2>1. Stamped(m) /\ m.host \in Hosts
    BY <1>4 DEF QueryInv
  <2>2. CASE m.host = h
    BY <1>1, <1>2, <1>4, <2>1, <2>2 DEF Stamped
  <2>3. CASE m.host # h
    BY <1>1, <2>1, <2>3 DEF Stamped
  <2> QED
    BY <2>2, <2>3
<1>6. \A m : m = new => Stamped(m)'
  BY <1>1, <1>2 DEF Stamped
<1>7. \A m \in flight' : Stamped(m)'
  BY <1>1, <1>5, <1>6
<1>8. OffsetWithinHalfRoundTrip' /\ \A g \in Hosts : state'[g] # "synced" => offset'[g] = 0
  BY <1>1 DEF QueryInv, OffsetWithinHalfRoundTrip
<1> QED
  BY <1>3, <1>7, <1>8 DEF QueryInv

LEMMA QueryReceive ==
  ASSUME TypeOK, QueryInv, NEW h \in Hosts, NEW m \in flight, Receive(h, m)
  PROVE  QueryInv'
<1>1. /\ UNCHANGED <<now, skew, attempt, t1, askedAt>>
      /\ flight' \subseteq flight
      /\ state[h] = "waiting" /\ state'[h] = "synced"
      /\ offset'[h] = Offset(t1[h], NtpToLocal(m.t2), NtpToLocal(m.t3), Clock(h))
      /\ roundTrip'[h] = now - askedAt[h]
      /\ \A g \in Hosts \ {h} : /\ state'[g] = state[g] /\ offset'[g] = offset[g]
                                /\ roundTrip'[g] = roundTrip[g]
  BY DEF Receive, Goto, TypeOK
<1>2. /\ m.host = h /\ m.at = "answer" /\ m.ready <= now /\ m.attempt = attempt[h]
  BY DEF Receive, OwnAnswer
<1>3. /\ t1[h] = askedAt[h] + skew[h] /\ askedAt[h] <= now /\ now - askedAt[h] <= Timeout
  BY <1>1 DEF QueryInv, Asked
<1>4. /\ askedAt[h] <= NtpToLocal(m.t2) /\ NtpToLocal(m.t2) <= NtpToLocal(m.t3)
      /\ NtpToLocal(m.t3) = m.ready
  BY <1>1, <1>2 DEF QueryInv, Stamped
<1>5. /\ askedAt[h] \in Int /\ skew[h] \in Int /\ now \in Int
      /\ NtpToLocal(m.t2) \in Int /\ NtpToLocal(m.t3) \in Int
  BY RunningTypes, LocalTime DEF TypeOK
<1>6. 2 * Abs(offset'[h] + skew[h]) <= now - askedAt[h] + 1
  <2>1. NtpToLocal(m.t3) <= now
    BY <1>2, <1>4
  <2>2. 2 * Abs(Offset(askedAt[h] + skew[h], NtpToLocal(m.t2), NtpToLocal(m.t3), now + skew[h])
                + skew[h]) <= now - askedAt[h] + 1
    BY <1>4, <1>5, <2>1, OffsetError
  <2> QED
    BY <1>1, <1>3, <2>2 DEF Clock
<1>7. \A g \in Hosts : state'[g] = "synced" =>
        /\ 2 * Abs(offset'[g] + skew'[g]) <= roundTrip'[g] + 1
        /\ roundTrip'[g] <= Timeout
  BY <1>1, <1>3, <1>6 DEF QueryInv, OffsetWithinHalfRoundTrip
<1>8. OffsetWithinHalfRoundTrip'
  BY <1>7 DEF OffsetWithinHalfRoundTrip, Abs
<1>9. \A g \in Hosts : Asked(g)'
  BY <1>1 DEF QueryInv, Asked
<1>10. \A x \in flight' : Stamped(x)'
  <2>1. \A x \in flight : x.host \in Hosts
    BY DEF TypeOK
  <2>2. \A g \in Hosts : state'[g] = "waiting" => state[g] = "waiting"
    BY <1>1
  <2> QED
    BY <1>1, <2>1, <2>2 DEF QueryInv, Stamped
<1>11. \A g \in Hosts : state'[g] # "synced" => offset'[g] = 0
  BY <1>1 DEF QueryInv
<1> QED
  BY <1>8, <1>9, <1>10, <1>11 DEF QueryInv

LEMMA QueryServer ==
  ASSUME TypeOK, QueryInv, NEW m \in flight, NEW pause \in Pauses, ServerAnswer(m, pause)
  PROVE  QueryInv'
<1>1. PICK new : new = [m EXCEPT !.at = "answer", !.t2 = ToNtp(now), !.t3 = ToNtp(now + pause),
                                 !.ready = now + pause]
  OBVIOUS
<1>2. /\ UNCHANGED <<now, skew, state, attempt, t1, askedAt, offset, roundTrip>>
      /\ flight' \subseteq flight \cup {new}
  BY <1>1 DEF ServerAnswer, syncVars
<1>3. /\ m \in [host : Hosts, attempt : Attempts, at : {"request", "answer"},
                t2 : 0 .. Modulus - 1, t3 : 0 .. Modulus - 1, ready : Nat]
      /\ m.host \in Hosts
  BY DEF TypeOK
<1>4. /\ new.host = m.host /\ new.attempt = m.attempt /\ new.ready = now + pause
      /\ new.t2 = ToNtp(now) /\ new.t3 = ToNtp(now + pause)
  BY <1>1, <1>3
<1>5. /\ now \in 0 .. Modulus - 1 /\ now + pause \in 0 .. Modulus - 1
      /\ now \in Int /\ pause \in Nat
  BY NtpAssumption DEF TypeOK
<1>6. NtpToLocal(new.t2) = now /\ NtpToLocal(new.t3) = now + pause
  BY <1>4, <1>5, EraIsHarmless
<1>7. Asked(m.host) /\ Stamped(m)
  BY <1>3 DEF QueryInv
<1>8. Stamped(new)'
  BY <1>2, <1>4, <1>5, <1>6, <1>7 DEF Stamped, Asked
<1>9. \A x \in flight : Stamped(x)'
  BY <1>2 DEF QueryInv, Stamped
<1>10. \A x \in flight' : Stamped(x)'
  BY <1>2, <1>8, <1>9
<1>11. \A g \in Hosts : Asked(g)' /\ (state'[g] # "synced" => offset'[g] = 0)
  BY <1>2 DEF QueryInv, Asked
<1>12. OffsetWithinHalfRoundTrip'
  BY <1>2 DEF QueryInv, OffsetWithinHalfRoundTrip
<1> QED
  BY <1>10, <1>11, <1>12 DEF QueryInv

LEMMA QueryStep ==
  ASSUME TypeOK, QueryInv, Next
  PROVE  QueryInv'
<1>1. CASE Send \/ Arrive
  <2>1. UNCHANGED <<now, skew, state, attempt, t1, askedAt, offset, roundTrip, flight>>
    BY <1>1 DEF Send, Arrive, syncVars
  <2>2. (\A h \in Hosts : Asked(h)') /\ \A m \in flight' : Stamped(m)'
    BY <2>1 DEF QueryInv, Asked, Stamped
  <2> QED
    BY <2>1, <2>2 DEF QueryInv, OffsetWithinHalfRoundTrip
<1>2. CASE Tick
  <2>1. /\ UNCHANGED <<skew, state, attempt, t1, askedAt, offset, roundTrip, flight>>
        /\ now' = now + 1
        /\ \A h \in Hosts : state[h] = "waiting" => now - askedAt[h] < Timeout
    BY <1>2 DEF Tick, syncVars
  <2>2. now \in Int /\ Timeout \in Int /\ \A h \in Hosts : askedAt[h] \in Int
    BY RunningTypes, NtpAssumption
  <2>3. (\A h \in Hosts : Asked(h)') /\ \A m \in flight' : Stamped(m)'
    BY <2>1, <2>2 DEF QueryInv, Asked, Stamped
  <2> QED
    BY <2>1, <2>3 DEF QueryInv, OffsetWithinHalfRoundTrip
<1> QED
  BY <1>1, <1>2, QueryHostStep, QueryAsk, QueryReceive, QueryServer DEF Next, HostStep

-----------------------------------------------------------------------------
(* The message                                                             *)

(* A host that runs does not change its offset any more.                   *)
LEMMA RunningStays ==
  ASSUME TypeOK, Next, NEW h \in Hosts, Running(h)
  PROVE  /\ Running(h)' /\ offset'[h] = offset[h] /\ skew'[h] = skew[h]
         /\ Synced(h)' = Synced(h)
<1> USE DEF Running, Synced, Goto
<1>1. ASSUME NEW g \in Hosts, StartUnsynced(g) \/ Start(g) \/ HostStep(g)
      PROVE  /\ g # h /\ skew' = skew
             /\ state'[h] = state[h] /\ offset'[h] = offset[h]
  BY <1>1 DEF TypeOK, StartUnsynced, Start, HostStep, Ask, AskFails, WaitFails, GiveUp, Receive
<1>2. CASE \E g \in Hosts : StartUnsynced(g) \/ Start(g) \/ HostStep(g)
  BY <1>1, <1>2
<1>3. CASE \/ (\E m \in flight, pause \in Pauses : ServerAnswer(m, pause))
           \/ Send \/ Arrive \/ Tick
  BY <1>3 DEF ServerAnswer, Send, Arrive, Tick, syncVars
<1> QED
  BY <1>2, <1>3 DEF Next

(* The two errors add up.                                                  *)
LEMMA DelayError ==
  ASSUME NEW sentAt \in Int, NEW t \in Int, NEW s \in Int, NEW r \in Int,
         NEW os \in Int, NEW or \in Int,
         2 * Abs(os + s) <= Timeout + 1, 2 * Abs(or + r) <= Timeout + 1
  PROVE  Abs(EndToEnd(sentAt + s, t + r, os, or) - (t - sentAt) - 2 * (r - s)) <= Timeout + 1
<1>1. EndToEnd(sentAt + s, t + r, os, or) - (t - sentAt) - 2 * (r - s) = (os + s) - (or + r)
  BY DEF EndToEnd
<1> QED
  BY <1>1, NtpAssumption DEF Abs

LEMMA MessageStep ==
  ASSUME TypeOK, QueryInv, MessageInv, DelayErrorIsTwiceTheSkew, Next
  PROVE  MessageInv' /\ DelayErrorIsTwiceTheSkew'
<1> USE DEF Hosts
<1>1. CASE Send
  <2>1. /\ Running("sender") /\ message'.at = "wire" /\ UNCHANGED <<now, skew, state, offset>>
        /\ message'.ts_sent = now + skew["sender"] /\ message'.sentAt = now
    BY <1>1 DEF Send, Clock, TypeOK, syncVars
  <2>2. now <= now
    BY RunningTypes
  <2> QED
    BY <2>1, <2>2 DEF MessageInv, DelayErrorIsTwiceTheSkew, Running
<1>2. CASE Arrive
  <2>1. /\ Running("receiver") /\ message.at = "wire" /\ message'.at = "received"
        /\ UNCHANGED <<now, skew, state, offset>>
        /\ message'.ts_sent = message.ts_sent /\ message'.sentAt = message.sentAt
        /\ message'.delay = EndToEnd(message.ts_sent, Clock("receiver"),
                                     offset["sender"], offset["receiver"])
        /\ message'.elapsed = now - message.sentAt
    BY <1>2 DEF Arrive, TypeOK, syncVars
  <2>2. Running("sender") /\ message.ts_sent = message.sentAt + skew["sender"]
    BY <2>1 DEF MessageInv
  <2>3. MessageInv'
    BY <2>1, <2>2 DEF MessageInv, Running
  <2>4. /\ message.sentAt \in Int /\ now \in Int
        /\ skew["sender"] \in Int /\ skew["receiver"] \in Int
        /\ offset["sender"] \in Int /\ offset["receiver"] \in Int
    BY RunningTypes DEF TypeOK
  <2>5. ASSUME Synced("sender"), Synced("receiver")
        PROVE  Abs(message'.delay - message'.elapsed - 2 * ClockDifference) <= Timeout + 1
    <3>1. \A h \in Hosts : 2 * Abs(offset[h] + skew[h]) <= roundTrip[h] + 1
                           /\ roundTrip[h] <= Timeout /\ roundTrip[h] \in Nat
      BY <2>5 DEF QueryInv, OffsetWithinHalfRoundTrip, Synced, TypeOK
    <3>2. \A h \in Hosts : 2 * Abs(offset[h] + skew[h]) <= Timeout + 1
      BY <2>4, <3>1, NtpAssumption DEF Abs
    <3> QED
      BY ZenonT(40), <2>1, <2>2, <2>4, <3>2, DelayError DEF Clock, ClockDifference
  <2>6. ASSUME ~Synced("sender"), ~Synced("receiver")
        PROVE  message'.delay - message'.elapsed = ClockDifference
    <3>1. offset["sender"] = 0 /\ offset["receiver"] = 0
      BY <2>6 DEF QueryInv, Synced
    <3> QED
      BY <2>1, <2>2, <2>4, <3>1 DEF Clock, ClockDifference, EndToEnd
  <2>7. Synced("sender")' = Synced("sender") /\ Synced("receiver")' = Synced("receiver")
        /\ ClockDifference' = ClockDifference
    BY <2>1 DEF Synced, ClockDifference
  <2> QED
    BY <2>3, <2>5, <2>6, <2>7 DEF DelayErrorIsTwiceTheSkew, Abs
<1>3. CASE ~Send /\ ~Arrive
  <2>0. now \in Int
    BY RunningTypes
  <2>1. message' = message /\ now <= now' /\ now \in Int /\ now' \in Int
    <3>1. CASE \E h \in Hosts : StartUnsynced(h) \/ Start(h) \/ HostStep(h)
      BY <2>0, <3>1
      DEF StartUnsynced, Start, HostStep, Ask, AskFails, WaitFails, GiveUp, Receive
    <3>2. CASE \E m \in flight, pause \in Pauses : ServerAnswer(m, pause)
      BY <2>0, <3>2 DEF ServerAnswer
    <3>3. CASE Tick
      BY <2>0, <3>3 DEF Tick
    <3> QED
      BY <1>3, <3>1, <3>2, <3>3 DEF Next
  <2>2. message.at # "none" => Running("sender")' /\ skew'["sender"] = skew["sender"]
                               /\ Synced("sender")' = Synced("sender")
    BY RunningStays DEF MessageInv
  <2>3. message.at = "received" => Running("receiver")' /\ skew'["receiver"] = skew["receiver"]
                                   /\ Synced("receiver")' = Synced("receiver")
    BY RunningStays DEF MessageInv
  <2>4. message.sentAt \in Int
    BY DEF TypeOK
  <2>5. MessageInv'
    BY <2>1, <2>2, <2>3, <2>4 DEF MessageInv
  <2>6. DelayErrorIsTwiceTheSkew'
    BY <2>1, <2>2, <2>3 DEF DelayErrorIsTwiceTheSkew, ClockDifference
  <2> QED
    BY <2>5, <2>6
<1> QED
  BY <1>1, <1>2, <1>3

-----------------------------------------------------------------------------
(* The theorems                                                            *)

LEMMA IInvInit == Init => IInv
<1> SUFFICES ASSUME Init PROVE IInv
  OBVIOUS
<1>1. message.at = "none"
  BY DEF Init, Unsent
<1> QED
  BY <1>1, TypeInit, QueryInit DEF IInv, MessageInv, DelayErrorIsTwiceTheSkew

LEMMA IInvStep == IInv /\ [Next]_vars => IInv'
<1> SUFFICES ASSUME IInv, [Next]_vars PROVE IInv'
  OBVIOUS
<1>1. CASE Next
  <2>1. TypeOK'
    BY <1>1, TypeStep DEF IInv, QueryInv
  <2>2. QueryInv'
    BY <1>1, QueryStep DEF IInv
  <2>3. MessageInv' /\ DelayErrorIsTwiceTheSkew'
    BY <1>1, MessageStep DEF IInv
  <2> QED
    BY <2>1, <2>2, <2>3 DEF IInv
<1>2. CASE UNCHANGED vars
  <2> USE <1>2 DEF vars, syncVars
  <2>1. TypeOK'
    BY DEF IInv, TypeOK
  <2>2. QueryInv'
    BY DEF IInv, QueryInv, Asked, Stamped, OffsetWithinHalfRoundTrip
  <2>3. MessageInv'
    BY DEF IInv, MessageInv, Running
  <2>4. DelayErrorIsTwiceTheSkew'
    BY DEF IInv, DelayErrorIsTwiceTheSkew, Synced, ClockDifference
  <2> QED
    BY <2>1, <2>2, <2>3, <2>4 DEF IInv
<1> QED
  BY <1>1, <1>2

LEMMA IInvAlways == Spec => []IInv
BY IInvInit, IInvStep, PTL DEF Spec

(* Type correctness of query and of what is made of its offsets.           *)
THEOREM NtpTypeCorrect == Spec => []TypeOK
<1>1. IInv => TypeOK
  BY DEF IInv
<1> QED
  BY <1>1, IInvAlways, PTL

(* NtpSync::query returns an offset that is off by half the round trip of  *)
(* its own exchange at most, whatever was late, lost or tried again and    *)
(* wherever the NTP era ends.                                              *)
THEOREM OffsetWithinHalfRoundTripAlways == Spec => []OffsetWithinHalfRoundTrip
<1>1. IInv => OffsetWithinHalfRoundTrip
  BY DEF IInv, QueryInv
<1> QED
  BY <1>1, IInvAlways, PTL

(* e2e_delay_us is off by twice the difference of two synchronised clocks, *)
(* up to the errors of the offsets.                                        *)
THEOREM DelayErrorIsTwiceTheSkewAlways == Spec => []DelayErrorIsTwiceTheSkew
<1>1. IInv => DelayErrorIsTwiceTheSkew
  BY DEF IInv
<1> QED
  BY <1>1, IInvAlways, PTL
===============================================================================
