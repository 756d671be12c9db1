----------------------------- MODULE UdpTransport -----------------------------
(***************************************************************************)
(* The UDP transport: UdpSender::do_send cuts wire messages into datagrams,*)
(* the network loses, repeats and reorders them, and UdpReceiver puts them *)
(* together in a ReassemblyBuffer.                                         *)
(*                                                                         *)
(* A wire message is the sequence of its chunks.  Chunk <<m, i>> is chunk i*)
(* of data message m, chunk 0 holding its WireHeader; the sentinel is one  *)
(* chunk with no payload.  Chunk sizes are abstracted: a wire is as long as*)
(* its header announces when it has as many chunks as its message.         *)
(***************************************************************************)
EXTENDS Naturals, Sequences, FiniteSets

CONSTANTS MsgCount,     \* data messages the sender sends
          ChunkCounts,  \* the numbers of chunks a data message may need
          FragModulus,  \* 2^16: frag_index and frag_count are uint16_t
          Expiry,       \* expiry_ms_, in ticks
          MaxCopies,    \* bound: arrivals of one datagram
          MaxArrivals,  \* bound: arrivals of all datagrams
          Sentinel, Empty

ASSUME UdpAssumption ==
  /\ MsgCount \in Nat \ {0}
  /\ ChunkCounts \subseteq Nat \ {0}
  /\ FragModulus \in Nat /\ FragModulus > 1
  /\ Expiry \in Nat
  /\ MaxCopies \in Nat \ {0}
  /\ MaxArrivals \in Nat
  /\ Sentinel \notin Nat /\ Sentinel \notin Nat \X Nat
  /\ Empty \notin Nat \X Nat /\ Empty # Sentinel

Data == 0 .. MsgCount - 1
Wires == Data \cup {Sentinel}
Last == MsgCount - 1

VARIABLES
  chunks,     \* the number of chunks each message needs
  cur,        \* the message do_send is sending
  offset,     \* the chunk it sends next
  sent,       \* chunks send() accepted
  arrived,    \* history: how often each chunk reached recv()
  slots,      \* slots_ of the ReassemblyBuffer
  age,        \* time since an open slot was created, capped above Expiry
  timeouts,   \* timeout_count_
  swept,      \* history: the ids of expired slots
  accepted,   \* history: the data wires parse_wire accepted
  delivered   \* history: how often each message was accepted

senderVars == <<chunks, cur, offset, sent>>
receiverVars == <<arrived, slots, age, timeouts, swept, accepted, delivered>>
vars == <<senderVars, receiverVars>>

ChunksOf(m) == {<<m, i>> : i \in 0 .. chunks[m] - 1}
Chunks == (UNION {ChunksOf(m) : m \in Data}) \cup {Sentinel}

(* The datagram of a chunk.  The sentinel takes the id of the last message.*)
Datagram(c) ==
  IF c = Sentinel
  THEN [id |-> Last, index |-> 0, count |-> 1, chunk |-> c]
  ELSE [id |-> c[1], index |-> c[2] % FragModulus,
        count |-> chunks[c[1]] % FragModulus, chunk |-> c]

Open == DOMAIN slots
Arrivals == {a \in Chunks \X (1 .. MaxCopies) : a[2] <= arrived[a[1]]}

Init ==
  /\ chunks \in [Data -> ChunkCounts]
  /\ cur = 0 /\ offset = 0 /\ sent = {}
  /\ arrived = [c \in Chunks |-> 0]
  /\ slots = <<>> /\ age = <<>> /\ timeouts = 0 /\ swept = {}
  /\ accepted = {} /\ delivered = [w \in Wires |-> 0]

-----------------------------------------------------------------------------
(* The sender: the data messages in turn, then the sentinel.               *)

NextMessage == cur' = cur + 1 /\ offset' = 0

SendChunk ==
  /\ cur \in Data
  /\ sent' = sent \cup {<<cur, offset>>}
  /\ IF offset + 1 = chunks[cur] THEN NextMessage
     ELSE offset' = offset + 1 /\ UNCHANGED cur
  /\ UNCHANGED <<chunks, receiverVars>>

(* send() fails: do_send gives up on the rest of the message.              *)
SendFails ==
  /\ cur <= MsgCount
  /\ NextMessage
  /\ UNCHANGED <<chunks, sent, receiverVars>>

SendSentinel ==
  /\ cur = MsgCount
  /\ sent' = sent \cup {Sentinel}
  /\ NextMessage
  /\ UNCHANGED <<chunks, receiverVars>>

-----------------------------------------------------------------------------
(* The receiver                                                            *)

NewSlot(d) ==
  [total |-> d.count, received |-> 0, frags |-> [i \in 0 .. d.count - 1 |-> Empty]]

SlotOf(d) == IF d.id \in Open THEN slots[d.id] ELSE NewSlot(d)

Place(s, d) ==
  [total |-> s.total, received |-> s.received + 1,
   frags |-> [s.frags EXCEPT ![d.index] = d.chunk]]

(* A fragment goes into its place unless the place is taken.               *)
Fill(s, d) ==
  IF d.index < s.total /\ s.frags[d.index] = Empty THEN Place(s, d) ELSE s

Complete(s) == s.received = s.total

Without(f, S) == [x \in DOMAIN f \ S |-> f[x]]

(* A slot is swept only when another message completes.                    *)
Expired(id) == {x \in Open \ {id} : age[x] > Expiry}

Joined(s) == [i \in 1 .. s.total |-> s.frags[i - 1]]

IsSentinel(w) == w # <<>> /\ w[1] = Sentinel
StartsData(w) == w # <<>> /\ w[1] # Sentinel /\ w[1][2] = 0

(* Mutant: payload_size is not compared with the length of the wire.       *)
IsDataOfAnyLength(w) == StartsData(w)

IsData(w) == StartsData(w) /\ Len(w) >= chunks[w[1][1]]

(* on_wire_bytes: what does not parse is dropped without a trace.          *)
OnWire(w) ==
  CASE IsSentinel(w) ->
         /\ delivered' = [delivered EXCEPT ![Sentinel] = @ + 1]
         /\ UNCHANGED accepted
    [] IsData(w) ->
         /\ delivered' = [delivered EXCEPT ![w[1][1]] = @ + 1]
         /\ accepted' = accepted \cup {w}
    [] OTHER -> UNCHANGED <<delivered, accepted>>

KeepSlot(id, s) ==
  /\ slots' = [x \in Open \cup {id} |-> IF x = id THEN s ELSE slots[x]]
  /\ age' = [x \in Open \cup {id} |-> IF x \in Open THEN age[x] ELSE 0]
  /\ UNCHANGED <<timeouts, swept, accepted, delivered>>

(* Mutant: the slot of the completed message is not erased.                *)
FinishSlotKeepingIt(id, s) ==
  /\ slots' = [x \in (Open \cup {id}) \ Expired(id) |-> IF x = id THEN s ELSE slots[x]]
  /\ age' = [x \in (Open \cup {id}) \ Expired(id) |-> IF x \in Open THEN age[x] ELSE 0]
  /\ timeouts' = timeouts + Cardinality(Expired(id))
  /\ swept' = swept \cup Expired(id)
  /\ OnWire(Joined(s))

(* Mutant: the sweep takes all slots, whatever their age.                  *)
FinishSlotLosingOthers(id, s) ==
  /\ slots' = <<>> /\ age' = <<>>
  /\ timeouts' = timeouts + Cardinality(Expired(id))
  /\ swept' = swept \cup Expired(id)
  /\ OnWire(Joined(s))

FinishSlot(id, s) ==
  /\ slots' = Without(slots, {id} \cup Expired(id))
  /\ age' = Without(age, {id} \cup Expired(id))
  /\ timeouts' = timeouts + Cardinality(Expired(id))
  /\ swept' = swept \cup Expired(id)
  /\ OnWire(Joined(s))

(* One turn of recv_loop: ReassemblyBuffer::insert and its callback.       *)
Receive(c) ==
  /\ c \in sent
  /\ arrived[c] < MaxCopies
  /\ Cardinality(Arrivals) < MaxArrivals
  /\ arrived' = [arrived EXCEPT ![c] = @ + 1]
  /\ LET d == Datagram(c)
         s == Fill(SlotOf(d), d)
     IN IF Complete(s) THEN FinishSlot(d.id, s) ELSE KeepSlot(d.id, s)
  /\ UNCHANGED senderVars

Tick ==
  /\ \E x \in Open : age[x] <= Expiry
  /\ age' = [x \in Open |-> IF age[x] <= Expiry THEN age[x] + 1 ELSE age[x]]
  /\ UNCHANGED <<senderVars, arrived, slots, timeouts, swept, accepted, delivered>>

Sending == SendChunk \/ SendFails \/ SendSentinel
Next == Sending \/ (\E c \in Chunks : Receive(c)) \/ Tick

Spec == Init /\ [][Next]_vars

-----------------------------------------------------------------------------
(* Properties                                                              *)

(* Every variable keeps its type, and an open slot has counted exactly the *)
(* fragments it holds and still misses one.                                *)
Held(s) == {i \in 0 .. s.total - 1 : s.frags[i] # Empty}

SlotOK(id, s) ==
  /\ s \in [total : 0 .. FragModulus - 1, received : 0 .. FragModulus - 1,
            frags : [0 .. s.total - 1 -> Chunks \cup {Empty}]]
  /\ s.total = chunks[id] % FragModulus
  /\ s.received = Cardinality(Held(s))
  /\ s.received < s.total

TypeOK ==
  /\ chunks \in [Data -> ChunkCounts]
  /\ cur \in 0 .. MsgCount + 1 /\ offset \in Nat
  /\ sent \subseteq Chunks
  /\ arrived \in [Chunks -> 0 .. MaxCopies]
  /\ Open \subseteq Data /\ DOMAIN age = Open
  /\ \A x \in Open : SlotOK(x, slots[x]) /\ age[x] \in 0 .. Expiry + 1
  /\ timeouts \in Nat /\ swept \subseteq Data
  /\ delivered \in [Wires -> Nat]

(* A data wire the receiver makes a packet of is exactly the message that  *)
(* was sent, whatever was lost, repeated, reordered, swept, cut by the     *)
(* 16-bit fragment counters or mixed with the sentinel of the same id.     *)
DeliveredIntact ==
  \A w \in accepted :
    LET m == w[1][1]
    IN w = [i \in 1 .. chunks[m] |-> <<m, i - 1>>]

(* A message is delivered no more often than each single fragment of it    *)
(* arrived: repeated datagrams alone make no duplicate message.            *)
DeliveredOncePerCopy ==
  /\ \A m \in Data : \A c \in ChunksOf(m) : delivered[m] <= arrived[c]
  /\ delivered[Sentinel] <= arrived[Sentinel]

(* A message whose fragments all arrived is delivered, in any order and    *)
(* with any others in between, unless its slot expired, it has more        *)
(* fragments than the counters can number, or the sentinel, which shares   *)
(* the id of the last message, came into its slot.                         *)
Collides(m) == m = Last /\ arrived[Sentinel] > 0

CompleteArrivalsAreDelivered ==
  \A m \in Data \ swept :
    chunks[m] < FragModulus /\ ~Collides(m) /\ (\A c \in ChunksOf(m) : arrived[c] > 0)
      => delivered[m] > 0

(* What fragment_timeout_count counts was not received as well: a message  *)
(* whose slot expired is not delivered unless a datagram of it was repeated*)
TimedOutIsNotReceived ==
  \A m \in swept :
    (\A c \in ChunksOf(m) : arrived[c] <= 1) => delivered[m] = 0

(* UDP is a channel that loses, repeats and reorders whole wire messages.  *)
SentWhole ==
  {m \in Data : ChunksOf(m) \subseteq sent} \cup (sent \cap {Sentinel})

Channel == INSTANCE WireChannel WITH Copies <- MaxCopies, sent <- SentWhole
ImplementsChannel == Channel!Spec
===============================================================================
