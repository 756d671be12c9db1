-------------------------- MODULE UdpTransportProofs --------------------------
(***************************************************************************)
(* The properties of UdpTransport for every number of messages and chunks, *)
(* every width of the fragment counters and every loss, repetition and     *)
(* reordering.                                                             *)
(***************************************************************************)
EXTENDS UdpTransport, FiniteSetTheorems, TLAPS

USE UdpAssumption

LEMMA ModRange == \A n \in Nat, k \in Nat : k > 1 => n % k \in 0 .. k - 1
  OBVIOUS

LEMMA ModSmall == \A n \in Nat, k \in Nat : k > 1 /\ n < k => n % k = n
  OBVIOUS

LEMMA ModBelow == \A n \in Nat, k \in Nat : k > 1 /\ n <= n % k => n < k
  OBVIOUS

(* How often the message of a chunk was delivered.                         *)
Uses(c) == IF c = Sentinel THEN delivered[Sentinel] ELSE delivered[c[1]]

(* A slot that has counted the fragments it holds, complete or not.        *)
Counted(s) ==
  /\ s \in [total : 0 .. FragModulus - 1, received : 0 .. FragModulus - 1,
            frags : [0 .. s.total - 1 -> Chunks \cup {Empty}]]
  /\ s.received = Cardinality(Held(s))

(* What a slot holds belongs to its id and its place.                      *)
InPlace(id, s) ==
  \A i \in Held(s) : Datagram(s.frags[i]).id = id /\ Datagram(s.frags[i]).index = i

(* Each fragment a slot holds arrived once more than its message was used. *)
Unspent(s) == \A i \in Held(s) : Uses(s.frags[i]) < arrived[s.frags[i]]

Whole(m) == [i \in 1 .. chunks[m] |-> <<m, i - 1>>]

SenderInv == cur \in Data => offset < chunks[cur]
ArrivedWasSent == \A c \in Chunks : arrived[c] > 0 => c \in sent
Budget == \A c \in Chunks : Uses(c) <= arrived[c]
SlotsInv == \A x \in Open : InPlace(x, slots[x]) /\ Unspent(slots[x])
AcceptedInv == \A w \in accepted : \E m \in Data : w = Whole(m)

IInv ==
  TypeOK /\ SenderInv /\ ArrivedWasSent /\ Budget /\ SlotsInv /\ AcceptedInv

-----------------------------------------------------------------------------
(* Chunks and datagrams                                                    *)

LEMMA ChunkFacts ==
  ASSUME chunks \in [Data -> ChunkCounts]
  PROVE  /\ Sentinel \in Chunks /\ Empty \notin Chunks
         /\ \A m \in Data : chunks[m] \in Nat \ {0}
         /\ \A m \in Data : \A i \in 0 .. chunks[m] - 1 :
              <<m, i>> \in Chunks /\ <<m, i>> # Sentinel
         /\ \A c \in Chunks : c # Sentinel =>
              \E m \in Data : \E i \in 0 .. chunks[m] - 1 : c = <<m, i>>
<1>1. \A m \in Data : chunks[m] \in Nat \ {0}
  OBVIOUS
<1>2. Data \subseteq Nat
  BY DEF Data
<1>3. \A m \in Data : \A i \in 0 .. chunks[m] - 1 :
         <<m, i>> \in Nat \X Nat /\ <<m, i>> \in Chunks
  BY <1>1, <1>2 DEF Chunks, ChunksOf
<1>4. \A c \in Chunks : c # Sentinel =>
        \E m \in Data : \E i \in 0 .. chunks[m] - 1 : c = <<m, i>>
  BY DEF Chunks, ChunksOf
<1>5. Sentinel \in Chunks
  BY DEF Chunks
<1>6. Empty \notin Chunks
  BY <1>3, <1>4
<1> QED
  BY <1>1, <1>3, <1>4, <1>5, <1>6

LEMMA DatagramType ==
  ASSUME chunks \in [Data -> ChunkCounts], NEW c \in Chunks
  PROVE  /\ Datagram(c).id \in Data
         /\ Datagram(c).index \in Nat
         /\ Datagram(c).count \in 0 .. FragModulus - 1
         /\ Datagram(c).chunk = c
         /\ c # Sentinel => Datagram(c).count = chunks[Datagram(c).id] % FragModulus
<1>1. CASE c = Sentinel
  BY <1>1 DEF Datagram, Data, Last
<1>2. CASE c # Sentinel
  <2>. PICK m \in Data : \E i \in 0 .. chunks[m] - 1 : c = <<m, i>>
    BY <1>2, ChunkFacts
  <2>1. PICK i \in 0 .. chunks[m] - 1 : c = <<m, i>>
    OBVIOUS
  <2>2. chunks[m] \in Nat /\ i \in Nat
    BY ChunkFacts
  <2>3. /\ i % FragModulus \in 0 .. FragModulus - 1
        /\ chunks[m] % FragModulus \in 0 .. FragModulus - 1
    BY <2>2, ModRange
  <2> QED
    BY <1>2, <2>1, <2>3 DEF Datagram
<1> QED
  BY <1>1, <1>2

-----------------------------------------------------------------------------
(* Slots                                                                   *)

LEMMA HeldFinite ==
  ASSUME NEW s, s.total \in Nat
  PROVE  /\ IsFiniteSet(Held(s)) /\ Cardinality(Held(s)) \in Nat
         /\ Cardinality(Held(s)) <= s.total
         /\ Cardinality(Held(s)) = s.total => Held(s) = 0 .. s.total - 1
<1>1. IsFiniteSet(0 .. s.total - 1) /\ Cardinality(0 .. s.total - 1) = s.total
  <2>1. 0 \in Int /\ s.total - 1 \in Int
    OBVIOUS
  <2>2. /\ IsFiniteSet(0 .. s.total - 1)
        /\ Cardinality(0 .. s.total - 1)
             = IF 0 > s.total - 1 THEN 0 ELSE (s.total - 1) - 0 + 1
    BY <2>1, FS_Interval
  <2> QED
    BY <2>2
<1>2. Held(s) \subseteq 0 .. s.total - 1
  BY DEF Held
<1> QED
  BY <1>1, <1>2, FS_Subset, FS_CardinalityType

LEMMA NewSlotCounted ==
  ASSUME chunks \in [Data -> ChunkCounts], NEW c \in Chunks
  PROVE  LET s == NewSlot(Datagram(c))
         IN Counted(s) /\ Held(s) = {} /\ s.total = Datagram(c).count
<1> DEFINE s == NewSlot(Datagram(c))
<1>1. Datagram(c).count \in 0 .. FragModulus - 1
  BY DatagramType
<1>2. s.total = Datagram(c).count /\ s.received = 0
      /\ s.frags = [i \in 0 .. s.total - 1 |-> Empty]
  BY DEF NewSlot
<1>3. Held(s) = {}
  BY <1>2 DEF Held
<1>4. s \in [total : 0 .. FragModulus - 1, received : 0 .. FragModulus - 1,
             frags : [0 .. s.total - 1 -> Chunks \cup {Empty}]]
  BY <1>1, <1>2 DEF NewSlot
<1> QED
  BY <1>2, <1>3, <1>4, FS_EmptySet DEF Counted

(* Fill keeps the count right and changes at most the datagram's place.    *)
LEMMA FillCounted ==
  ASSUME chunks \in [Data -> ChunkCounts], NEW c \in Chunks,
         NEW s, Counted(s)
  PROVE  LET t == Fill(s, Datagram(c))
         IN /\ Counted(t) /\ t.total = s.total
            /\ \A i \in Held(t) :
                 \/ i \in Held(s) /\ t.frags[i] = s.frags[i]
                 \/ i = Datagram(c).index /\ t.frags[i] = c
            /\ Datagram(c).index < s.total => Datagram(c).index \in Held(t)
<1> DEFINE j == Datagram(c).index
           t == Fill(s, Datagram(c))
<1>1. j \in Nat /\ Datagram(c).chunk = c
  BY DatagramType
<1>2. Empty \notin Chunks
  BY ChunkFacts
<1>3. s.total \in 0 .. FragModulus - 1 /\ s.received \in 0 .. FragModulus - 1
      /\ s.frags \in [0 .. s.total - 1 -> Chunks \cup {Empty}]
  BY DEF Counted
<1>4. CASE j < s.total /\ s.frags[j] = Empty
  <2>1. t = [total |-> s.total, received |-> s.received + 1,
             frags |-> [s.frags EXCEPT ![j] = c]]
    BY <1>1, <1>4 DEF Fill, Place
  <2>2. j \in 0 .. s.total - 1
    BY <1>1, <1>3, <1>4
  <2>3. t.total = s.total /\ t.received = s.received + 1
        /\ t.frags = [s.frags EXCEPT ![j] = c]
    BY <2>1
  <2>4. t.frags \in [0 .. s.total - 1 -> Chunks \cup {Empty}]
        /\ t.frags[j] = c
        /\ \A i \in 0 .. s.total - 1 : i # j => t.frags[i] = s.frags[i]
    BY <1>3, <2>2, <2>3
  <2>5. Held(t) = Held(s) \cup {j} /\ j \notin Held(s)
    BY <1>2, <1>4, <2>2, <2>3, <2>4 DEF Held
  <2>6. Cardinality(Held(t)) = Cardinality(Held(s)) + 1
    <3>1. IsFiniteSet(Held(s)) /\ Cardinality(Held(s)) \in Nat
      BY <1>3, HeldFinite
    <3>2. Cardinality(Held(s) \cup {j}) = Cardinality(Held(s)) + 1
      BY <2>5, <3>1, FS_AddElement
    <3> QED
      BY <2>5, <3>2
  <2>7. Cardinality(Held(t)) <= t.total
    BY <1>3, <2>3, HeldFinite
  <2>8. t.received = Cardinality(Held(t)) /\ t.received \in 0 .. FragModulus - 1
    BY <1>3, <2>3, <2>6, <2>7 DEF Counted
  <2>9. t \in [total : 0 .. FragModulus - 1, received : 0 .. FragModulus - 1,
               frags : [0 .. s.total - 1 -> Chunks \cup {Empty}]]
    BY <1>3, <2>1, <2>3, <2>4, <2>8
  <2>10. Counted(t)
    BY <2>3, <2>8, <2>9 DEF Counted
  <2>11. \A i \in Held(t) : \/ i \in Held(s) /\ t.frags[i] = s.frags[i]
                            \/ i = j /\ t.frags[i] = c
    BY <2>4, <2>5 DEF Held
  <2> QED
    BY <2>3, <2>5, <2>10, <2>11
<1>5. CASE ~(j < s.total /\ s.frags[j] = Empty)
  <2>1. t = s
    BY <1>5 DEF Fill
  <2>2. j < s.total => j \in Held(s)
    BY <1>1, <1>3, <1>5 DEF Held
  <2> QED
    BY <2>1, <2>2
<1> QED
  BY <1>4, <1>5
-----------------------------------------------------------------------------
(* What a datagram does to the slot of its id, before the slot is kept or  *)
(* finished.                                                               *)
Filled(c) == Fill(SlotOf(Datagram(c)), Datagram(c))

LEMMA FilledSlot ==
  ASSUME IInv, NEW c \in Chunks, Receive(c)
  PROVE  LET id == Datagram(c).id
             s == Filled(c)
         IN /\ Counted(s)
            /\ \A i \in Held(s) : s.frags[i] \in Chunks
            /\ InPlace(id, s)
            /\ \A i \in Held(s) : Uses(s.frags[i]) < arrived'[s.frags[i]]
            /\ \/ s.total = chunks[id] % FragModulus
               \/ c = Sentinel /\ s.total = 1 /\ 0 \in Held(s) /\ s.frags[0] = Sentinel
<1> DEFINE d == Datagram(c)
           o == SlotOf(d)
           s == Filled(c)
<1>1. chunks \in [Data -> ChunkCounts] /\ arrived \in [Chunks -> 0 .. MaxCopies]
  BY DEF IInv, TypeOK
<1>2. arrived' = [arrived EXCEPT ![c] = @ + 1]
  BY DEF Receive
<1>3. \A f \in Chunks : arrived[f] <= arrived'[f] /\ arrived[c] < arrived'[c]
  BY <1>1, <1>2
<1>4. d.id \in Data /\ d.index \in Nat
      /\ (c # Sentinel => d.count = chunks[d.id] % FragModulus)
  BY <1>1, DatagramType
<1>5. Counted(o) /\ InPlace(d.id, o) /\ Unspent(o)
      /\ (o.total = chunks[d.id] % FragModulus \/ (c = Sentinel /\ o.total = 1 /\ Held(o) = {}))
  <2>1. CASE d.id \in Open
    <3>1. o = slots[d.id]
      BY <2>1 DEF SlotOf
    <3>2. SlotOK(d.id, slots[d.id]) /\ InPlace(d.id, slots[d.id]) /\ Unspent(slots[d.id])
      BY <2>1 DEF IInv, TypeOK, SlotsInv
    <3> QED
      BY <3>1, <3>2 DEF SlotOK, Counted
  <2>2. CASE d.id \notin Open
    <3>1. o = NewSlot(d)
      BY <2>2 DEF SlotOf
    <3>2. Counted(o) /\ Held(o) = {} /\ o.total = d.count
      BY <1>1, <3>1, NewSlotCounted
    <3>3. c = Sentinel => d.count = 1
      BY DEF Datagram
    <3> QED
      BY <1>4, <3>2, <3>3 DEF InPlace, Unspent
  <2> QED
    BY <2>1, <2>2
<1>6. /\ Counted(s) /\ s.total = o.total
      /\ \A i \in Held(s) : \/ i \in Held(o) /\ s.frags[i] = o.frags[i]
                            \/ i = d.index /\ s.frags[i] = c
      /\ d.index < o.total => d.index \in Held(s)
  BY <1>1, <1>5, FillCounted DEF Filled
<1>7. \A i \in Held(s) : s.frags[i] \in Chunks
  BY <1>6 DEF Counted, Held
<1>8. InPlace(d.id, s)
  BY <1>5, <1>6 DEF InPlace
<1>9. \A i \in Held(s) : Uses(s.frags[i]) < arrived'[s.frags[i]]
  <2> SUFFICES ASSUME NEW i \in Held(s) PROVE Uses(s.frags[i]) < arrived'[s.frags[i]]
    OBVIOUS
  <2>1. \A f \in Chunks : Uses(f) \in Nat /\ arrived[f] \in Nat /\ arrived'[f] \in Nat
    <3>1. delivered \in [Wires -> Nat]
      BY DEF IInv, TypeOK
    <3>2. \A f \in Chunks : Uses(f) \in Nat
      BY <1>1, <3>1, ChunkFacts DEF Uses, Wires
    <3> QED
      BY <1>1, <1>2, <3>2
  <2>2. CASE i \in Held(o) /\ s.frags[i] = o.frags[i]
    <3>1. Uses(s.frags[i]) < arrived[s.frags[i]]
      BY <1>5, <2>2 DEF Unspent
    <3> QED
      BY <1>3, <1>7, <2>1, <3>1
  <2>3. CASE s.frags[i] = c
    <3>1. Uses(c) <= arrived[c]
      BY DEF IInv, Budget
    <3> QED
      BY <1>3, <2>1, <2>3, <3>1
  <2> QED
    BY <1>6, <2>2, <2>3
<1>10. \/ s.total = chunks[d.id] % FragModulus
       \/ c = Sentinel /\ s.total = 1 /\ 0 \in Held(s) /\ s.frags[0] = Sentinel
  <2>1. CASE c = Sentinel /\ o.total = 1 /\ Held(o) = {}
    <3>1. d.index = 0
      BY <2>1 DEF Datagram
    <3>2. 0 \in Held(s)
      BY <1>6, <2>1, <3>1
    <3> QED
      BY <1>6, <2>1, <3>1, <3>2
  <2> QED
    BY <1>5, <1>6, <2>1
<1> QED
  BY <1>6, <1>7, <1>8, <1>9, <1>10

(* A completed slot hands up nothing that counts, the sentinel, or exactly *)
(* the message of its id.                                                  *)
NothingNew == UNCHANGED <<delivered, accepted>>

SentinelNew(id, s) ==
  /\ 0 \in Held(s) /\ s.frags[0] = Sentinel
  /\ delivered' = [delivered EXCEPT ![Sentinel] = @ + 1]
  /\ UNCHANGED accepted

MessageNew(id, s) ==
  /\ \A k \in 0 .. chunks[id] - 1 : k \in Held(s) /\ s.frags[k] = <<id, k>>
  /\ delivered' = [delivered EXCEPT ![id] = @ + 1]
  /\ accepted' = accepted \cup {Whole(id)}

LEMMA LenJoined ==
  ASSUME NEW n \in Nat, NEW f
  PROVE  LET w == [i \in 1 .. n |-> f[i - 1]]
         IN Len(w) = n /\ (w = <<>> <=> n = 0)
OBVIOUS

LEMMA WireOfSlot ==
  ASSUME IInv, NEW c \in Chunks, Receive(c), Complete(Filled(c)), OnWire(Joined(Filled(c)))
  PROVE  LET id == Datagram(c).id
             s == Filled(c)
         IN NothingNew \/ SentinelNew(id, s) \/ MessageNew(id, s)
<1> DEFINE id == Datagram(c).id
           s == Filled(c)
           w == Joined(s)
<1>1. /\ Counted(s) /\ InPlace(id, s)
      /\ \A i \in Held(s) : s.frags[i] \in Chunks
      /\ \/ s.total = chunks[id] % FragModulus
         \/ c = Sentinel /\ s.total = 1 /\ 0 \in Held(s) /\ s.frags[0] = Sentinel
  BY FilledSlot
<1>2. chunks \in [Data -> ChunkCounts] /\ id \in Data /\ chunks[id] \in Nat \ {0}
  BY DatagramType, ChunkFacts DEF IInv, TypeOK
<1>3. s.total \in 0 .. FragModulus - 1 /\ s.total \in Nat
  BY <1>1 DEF Counted
<1>4. Held(s) = 0 .. s.total - 1
  BY <1>1, <1>3, HeldFinite DEF Complete, Counted
<1>5. w = [i \in 1 .. s.total |-> s.frags[i - 1]]
  BY DEF Joined
<1>6. Len(w) = s.total /\ (w = <<>> <=> s.total = 0)
  BY <1>3, <1>5, LenJoined
<1>7. w # <<>> => 0 \in Held(s) /\ w[1] = s.frags[0]
  BY <1>3, <1>4, <1>5, <1>6
<1>8. CASE IsSentinel(w)
  <2>1. 0 \in Held(s) /\ s.frags[0] = Sentinel
    BY <1>7, <1>8 DEF IsSentinel
  <2>2. ~IsData(w)
    BY <1>8 DEF IsSentinel, IsData, StartsData
  <2> QED
    BY <1>8, <2>1, <2>2 DEF OnWire, SentinelNew
<1>9. CASE IsData(w)
  <2>1. 0 \in Held(s) /\ w[1] = s.frags[0] /\ w[1] # Sentinel /\ w[1][2] = 0
        /\ Len(w) >= chunks[w[1][1]]
    BY <1>7, <1>9 DEF IsData, StartsData
  <2>2. w[1] \in Chunks /\ Datagram(w[1]).id = id
    BY <1>1, <2>1 DEF InPlace
  <2>3. w[1][1] = id
    BY <2>1, <2>2 DEF Datagram
  <2>4. chunks[id] <= chunks[id] % FragModulus /\ s.total = chunks[id] % FragModulus
    BY <1>1, <1>2, <1>6, <2>1, <2>3
  <2>5. chunks[id] < FragModulus
    BY <1>2, <2>4, ModBelow
  <2>6. s.total = chunks[id]
    BY <1>2, <2>4, <2>5, ModSmall
  <2>7. \A k \in 0 .. chunks[id] - 1 : s.frags[k] = <<id, k>>
    <3> SUFFICES ASSUME NEW k \in 0 .. chunks[id] - 1 PROVE s.frags[k] = <<id, k>>
      OBVIOUS
    <3>1. k \in Held(s) /\ s.frags[k] \in Chunks
          /\ Datagram(s.frags[k]).id = id /\ Datagram(s.frags[k]).index = k
      BY <1>1, <1>4, <2>6 DEF InPlace
    <3>2. s.frags[k] # Sentinel
      BY <2>1, <3>1 DEF Datagram
    <3>3. PICK m \in Data : \E i \in 0 .. chunks[m] - 1 : s.frags[k] = <<m, i>>
      BY <1>2, <3>1, <3>2, ChunkFacts
    <3>4. PICK i \in 0 .. chunks[m] - 1 : s.frags[k] = <<m, i>>
      BY <3>3
    <3>5. m = id /\ i % FragModulus = k
      BY <3>1, <3>2, <3>4 DEF Datagram
    <3>6. i % FragModulus = i
      BY <1>2, <2>5, <3>5, ModSmall
    <3> QED
      BY <3>4, <3>5, <3>6
  <2>8. w = Whole(id)
    <3>1. \A i \in 1 .. chunks[id] : i - 1 \in 0 .. chunks[id] - 1
      BY <1>2
    <3>2. \A i \in 1 .. chunks[id] : s.frags[i - 1] = <<id, i - 1>>
      BY <2>7, <3>1
    <3> HIDE DEF s, id
    <3> QED
      BY <1>5, <2>6, <3>2 DEF Whole
  <2>9. \A k \in 0 .. chunks[id] - 1 : k \in Held(s)
    BY <1>4, <2>6
  <2>10. ~IsSentinel(w)
    BY <2>1 DEF IsSentinel
  <2> QED
    BY <1>9, <2>3, <2>7, <2>8, <2>9, <2>10 DEF OnWire, MessageNew
<1>10. CASE ~IsSentinel(w) /\ ~IsData(w)
  BY <1>10 DEF OnWire, NothingNew
<1> QED
  BY <1>8, <1>9, <1>10
-----------------------------------------------------------------------------
(* The invariant                                                           *)

LEMMA IInvInit == Init => IInv
<1> SUFFICES ASSUME Init PROVE IInv
  OBVIOUS
<1>1. chunks \in [Data -> ChunkCounts] /\ (\A m \in Data : chunks[m] \in Nat \ {0})
  BY ChunkFacts DEF Init
<1>2. Open = {} /\ DOMAIN age = {}
  BY DEF Init, Open
<1>3. \A f \in Chunks : arrived[f] = 0 /\ Uses(f) = 0
  <2>1. \A f \in Chunks : f # Sentinel => f[1] \in Data
    BY <1>1, ChunkFacts
  <2> QED
    BY <2>1 DEF Init, Uses, Wires
<1>4. TypeOK
  BY <1>1, <1>2 DEF Init, TypeOK
<1>5. SenderInv
  BY <1>1 DEF Init, SenderInv
<1> QED
  BY <1>2, <1>3, <1>4, <1>5
     DEF Init, IInv, ArrivedWasSent, Budget, SlotsInv, AcceptedInv

(* A step of the sender or of the clock leaves the receiver's part as it is*)
LEMMA ReceiverPart ==
  ASSUME IInv, UNCHANGED <<chunks, arrived, slots, accepted, delivered>>
  PROVE  Budget' /\ SlotsInv' /\ AcceptedInv'
<1>1. Chunks' = Chunks
  BY DEF Chunks, ChunksOf
<1>2. Budget'
  BY <1>1 DEF IInv, Budget, Uses
<1>3. SlotsInv'
  BY DEF IInv, SlotsInv, InPlace, Unspent, Held, Datagram, Uses, Open
<1>4. AcceptedInv'
  BY DEF IInv, AcceptedInv, Whole
<1> QED
  BY <1>2, <1>3, <1>4

LEMMA SendingStep == IInv /\ Sending => IInv'
<1> SUFFICES ASSUME IInv, Sending PROVE IInv'
  OBVIOUS
<1>1. /\ chunks' = chunks /\ UNCHANGED receiverVars
      /\ sent \subseteq sent' /\ Chunks' = Chunks
  BY DEF Sending, SendChunk, SendFails, SendSentinel, receiverVars, Chunks, ChunksOf
<1>2. \A m \in Data : chunks[m] \in Nat \ {0}
  BY ChunkFacts DEF IInv, TypeOK
<1>3. /\ cur \in 0 .. MsgCount + 1 /\ offset \in Nat /\ sent \subseteq Chunks
  BY DEF IInv, TypeOK
<1>4. cur' \in 0 .. MsgCount + 1 /\ offset' \in Nat /\ sent' \subseteq Chunks /\ SenderInv'
  <2>1. CASE SendChunk
    <3>1. <<cur, offset>> \in Chunks
      BY <1>2, <1>3, <2>1, ChunkFacts DEF SendChunk, IInv, TypeOK, SenderInv
    <3> QED
      BY <1>1, <1>2, <1>3, <2>1, <3>1
         DEF SendChunk, NextMessage, IInv, SenderInv, Data
  <2>2. CASE SendFails
    BY <1>1, <1>2, <1>3, <2>2 DEF SendFails, NextMessage, SenderInv
  <2>3. CASE SendSentinel
    <3>1. Sentinel \in Chunks
      BY DEF Chunks
    <3> QED
      BY <1>1, <1>2, <1>3, <2>3, <3>1 DEF SendSentinel, NextMessage, SenderInv
  <2> QED
    BY <2>1, <2>2, <2>3 DEF Sending
<1>5. TypeOK'
  BY ZenonT(40), <1>1, <1>4 DEF IInv, TypeOK, receiverVars, SlotOK, Held, Open
<1>6. ArrivedWasSent'
  BY <1>1 DEF IInv, ArrivedWasSent, receiverVars
<1>7. Budget' /\ SlotsInv' /\ AcceptedInv'
  BY <1>1, ReceiverPart DEF receiverVars
<1> QED
  BY <1>4, <1>5, <1>6, <1>7 DEF IInv

LEMMA TickStep == IInv /\ Tick => IInv'
<1> SUFFICES ASSUME IInv, Tick PROVE IInv'
  OBVIOUS
<1>1. Chunks' = Chunks
  BY DEF Tick, senderVars, Chunks, ChunksOf
<1>2. \A x \in Open : age'[x] \in 0 .. Expiry + 1
  BY DEF IInv, TypeOK, Tick
<1>3. TypeOK'
  <2>1. DOMAIN age' = Open /\ Open' = Open
    BY DEF Tick, Open
  <2>2. \A x \in Open : SlotOK(x, slots[x])'
    BY ZenonT(40), <1>1 DEF IInv, TypeOK, Tick, senderVars, SlotOK, Held, Open
  <2> QED
    BY <1>1, <1>2, <2>1, <2>2 DEF IInv, TypeOK, Tick, senderVars
<1>4. SenderInv' /\ ArrivedWasSent'
  BY <1>1 DEF IInv, SenderInv, ArrivedWasSent, Tick, senderVars
<1>5. Budget' /\ SlotsInv' /\ AcceptedInv'
  BY ReceiverPart DEF Tick, senderVars
<1> QED
  BY <1>3, <1>4, <1>5 DEF IInv
(* A kept slot: nothing is delivered, and the slot gains at most one chunk.*)
LEMMA KeptStep ==
  ASSUME IInv, NEW c \in Chunks, Receive(c), ~Complete(Filled(c))
  PROVE  IInv'
<1> DEFINE id == Datagram(c).id
           s == Filled(c)
<1>1. /\ Counted(s) /\ InPlace(id, s)
      /\ \A i \in Held(s) : s.frags[i] \in Chunks
      /\ \A i \in Held(s) : Uses(s.frags[i]) < arrived'[s.frags[i]]
      /\ \/ s.total = chunks[id] % FragModulus
         \/ c = Sentinel /\ s.total = 1 /\ 0 \in Held(s) /\ s.frags[0] = Sentinel
  BY FilledSlot
<1>2. id \in Data /\ chunks \in [Data -> ChunkCounts]
  BY DatagramType DEF IInv, TypeOK
<1>3. /\ UNCHANGED <<senderVars, timeouts, swept, accepted, delivered>>
      /\ slots' = [x \in Open \cup {id} |-> IF x = id THEN s ELSE slots[x]]
      /\ age' = [x \in Open \cup {id} |-> IF x \in Open THEN age[x] ELSE 0]
      /\ arrived' = [arrived EXCEPT ![c] = @ + 1]
      /\ c \in sent /\ arrived[c] < MaxCopies
  BY DEF Receive, KeepSlot, Filled
<1>4. /\ Chunks' = Chunks /\ Open' = Open \cup {id} /\ DOMAIN age' = Open'
      /\ \A f : Uses(f)' = Uses(f) /\ Datagram(f)' = Datagram(f)
  BY <1>3 DEF senderVars, Chunks, ChunksOf, Open, Uses, Datagram
<1>5. s.total \in Nat /\ s.received = Cardinality(Held(s)) /\ s.received # s.total
      /\ s.received <= s.total
  BY <1>1, HeldFinite DEF Counted, Complete
<1>6. s.total = chunks[id] % FragModulus
  <2>1. CASE s.total = 1 /\ 0 \in Held(s)
    <3>1. Held(s) = {0}
      BY <2>1 DEF Held
    <3> QED
      BY <1>5, <2>1, <3>1, FS_Singleton
  <2> QED
    BY <1>1, <2>1
<1>7. SlotOK(id, s)
  BY <1>1, <1>5, <1>6 DEF Counted, SlotOK
<1>8. \A x \in Open' : slots'[x] = IF x = id THEN s ELSE slots[x]
  BY <1>3, <1>4
<1>9. \A x \in Open' : SlotOK(x, slots[x])'
  <2>1. \A x \in Open' : SlotOK(x, slots'[x])
    BY <1>4, <1>7, <1>8 DEF IInv, TypeOK
  <2> QED
    BY <1>3, <1>4, <2>1 DEF SlotOK, Held, senderVars
<1>10. arrived \in [Chunks -> 0 .. MaxCopies] /\ arrived' \in [Chunks -> 0 .. MaxCopies]
       /\ \A f \in Chunks : arrived[f] <= arrived'[f]
                            /\ (f # c => arrived'[f] = arrived[f])
  BY <1>3 DEF IInv, TypeOK
<1>11. TypeOK'
  <2>1. \A x \in Open' : age'[x] \in 0 .. Expiry + 1
    BY <1>3, <1>4 DEF IInv, TypeOK
  <2> QED
    BY <1>2, <1>3, <1>4, <1>9, <1>10, <2>1 DEF IInv, TypeOK, senderVars
<1>12. SenderInv' /\ AcceptedInv'
  BY <1>3 DEF IInv, SenderInv, AcceptedInv, Whole, senderVars
<1>13. ArrivedWasSent'
  BY <1>3, <1>4, <1>10 DEF IInv, ArrivedWasSent, senderVars
<1>14. \A f \in Chunks : Uses(f) \in Nat
  BY <1>2, ChunkFacts DEF IInv, TypeOK, Uses, Wires
<1>15. Budget'
  BY <1>4, <1>10, <1>14 DEF IInv, Budget
<1>16. SlotsInv'
  <2> SUFFICES ASSUME NEW x \in Open' PROVE (InPlace(x, slots[x]) /\ Unspent(slots[x]))'
    BY DEF SlotsInv
  <2>1. CASE x = id
    BY <1>1, <1>4, <1>8, <2>1 DEF InPlace, Unspent, Held
  <2>2. CASE x # id
    <3>1. x \in Open /\ slots'[x] = slots[x]
      BY <1>4, <1>8, <2>2
    <3>2. InPlace(x, slots[x]) /\ Unspent(slots[x]) /\ SlotOK(x, slots[x])
      BY <3>1 DEF IInv, SlotsInv, TypeOK
    <3>3. \A i \in Held(slots[x]) : slots[x].frags[i] \in Chunks
      BY <3>2 DEF SlotOK, Held
    <3>4. \A i \in Held(slots[x]) : Uses(slots[x].frags[i]) < arrived'[slots[x].frags[i]]
      BY <1>10, <1>14, <3>2, <3>3 DEF Unspent
    <3> QED
      BY <1>4, <3>1, <3>2, <3>4 DEF InPlace, Unspent, Held
  <2> QED
    BY <2>1, <2>2
<1> QED
  BY <1>11, <1>12, <1>13, <1>15, <1>16 DEF IInv
(* What a completed slot delivers was paid for by the arrivals of all its  *)
(* chunks, and touches no chunk of another id.                             *)
LEMMA FinishedUses ==
  ASSUME IInv, NEW c \in Chunks, Receive(c), Complete(Filled(c)), NEW f \in Chunks
  PROVE  /\ Uses(f)' \in Nat /\ Uses(f)' <= arrived'[f]
         /\ Datagram(f).id # Datagram(c).id => Uses(f)' = Uses(f)
<1> DEFINE id == Datagram(c).id
           s == Filled(c)
<1>1. /\ InPlace(id, s)
      /\ \A i \in Held(s) : Uses(s.frags[i]) < arrived'[s.frags[i]]
  BY FilledSlot
<1>2. id \in Data /\ chunks \in [Data -> ChunkCounts] /\ delivered \in [Wires -> Nat]
  BY DatagramType DEF IInv, TypeOK
<1>3. NothingNew \/ SentinelNew(id, s) \/ MessageNew(id, s)
  BY WireOfSlot DEF Receive, FinishSlot, Filled
<1>4. Uses(f) \in Nat /\ Uses(f) <= arrived[f] /\ arrived[f] <= arrived'[f]
      /\ arrived[f] \in Nat /\ arrived'[f] \in Nat
  <2>1. arrived \in [Chunks -> 0 .. MaxCopies] /\ arrived' = [arrived EXCEPT ![c] = @ + 1]
    BY DEF IInv, TypeOK, Receive
  <2>2. Uses(f) \in Nat /\ Uses(f) <= arrived[f]
    BY <1>2, ChunkFacts DEF IInv, Budget, Uses, Wires
  <2> QED
    BY <2>1, <2>2
<1>5. id \in Wires /\ id # Sentinel /\ Sentinel \in Wires
  BY <1>2 DEF Wires, Data
<1>6. CASE NothingNew
  BY <1>4, <1>6 DEF NothingNew, Uses
<1>7. CASE SentinelNew(id, s)
  <2>1. Datagram(Sentinel).id = id /\ Uses(Sentinel) < arrived'[Sentinel]
    BY <1>1, <1>7 DEF SentinelNew, InPlace
  <2>2. delivered'[Sentinel] = delivered[Sentinel] + 1
        /\ \A w \in Wires : w # Sentinel => delivered'[w] = delivered[w]
    BY <1>2, <1>5, <1>7 DEF SentinelNew
  <2>3. CASE f = Sentinel
    BY <1>4, <2>1, <2>2, <2>3 DEF Uses
  <2>4. CASE f # Sentinel
    <3>1. f[1] \in Wires /\ f[1] # Sentinel
      BY SMTT(30), <1>2, <2>4, ChunkFacts DEF Wires, Data
    <3> QED
      BY <1>4, <2>2, <2>4, <3>1 DEF Uses
  <2> QED
    BY <2>3, <2>4
<1>8. CASE MessageNew(id, s)
  <2>1. delivered'[id] = delivered[id] + 1
        /\ \A w \in Wires : w # id => delivered'[w] = delivered[w]
    BY <1>2, <1>5, <1>8 DEF MessageNew
  <2>2. CASE f = Sentinel
    BY <1>4, <1>5, <2>1, <2>2 DEF Uses
  <2>3. CASE f # Sentinel
    <3>1. PICK m \in Data : \E i \in 0 .. chunks[m] - 1 : f = <<m, i>>
      BY <1>2, <2>3, ChunkFacts
    <3>2. PICK i \in 0 .. chunks[m] - 1 : f = <<m, i>>
      BY <3>1
    <3>3. Datagram(f).id = m /\ Uses(f) = delivered[m] /\ Uses(f)' = delivered'[m]
      BY <2>3, <3>2 DEF Datagram, Uses
    <3>4. CASE m = id
      <4>1. i \in Held(s) /\ s.frags[i] = f
        BY <1>8, <3>2, <3>4 DEF MessageNew
      <4>2. Uses(f) < arrived'[f]
        BY <1>1, <4>1
      <4> QED
        BY <1>4, <2>1, <3>3, <3>4, <4>2
    <3>5. CASE m # id
      BY <1>4, <2>1, <3>3, <3>5 DEF Wires
    <3> QED
      BY <3>4, <3>5
  <2> QED
    BY <2>2, <2>3
<1> QED
  BY <1>3, <1>6, <1>7, <1>8

LEMMA FinishedStep ==
  ASSUME IInv, NEW c \in Chunks, Receive(c), Complete(Filled(c))
  PROVE  IInv'
<1> DEFINE id == Datagram(c).id
           s == Filled(c)
<1>1. /\ UNCHANGED senderVars
      /\ slots' = Without(slots, {id} \cup Expired(id))
      /\ age' = Without(age, {id} \cup Expired(id))
      /\ timeouts' = timeouts + Cardinality(Expired(id))
      /\ swept' = swept \cup Expired(id)
      /\ arrived' = [arrived EXCEPT ![c] = @ + 1]
      /\ c \in sent /\ arrived[c] < MaxCopies
  BY DEF Receive, FinishSlot, Filled
<1>2. id \in Data /\ chunks \in [Data -> ChunkCounts] /\ delivered \in [Wires -> Nat]
  BY DatagramType DEF IInv, TypeOK
<1>3. NothingNew \/ SentinelNew(id, s) \/ MessageNew(id, s)
  BY WireOfSlot DEF Receive, FinishSlot, Filled
<1>4. /\ Chunks' = Chunks /\ Open' = Open \ ({id} \cup Expired(id)) /\ DOMAIN age' = Open'
      /\ \A x \in Open' : slots'[x] = slots[x] /\ age'[x] = age[x]
      /\ \A f : Datagram(f)' = Datagram(f)
  BY <1>1 DEF IInv, TypeOK, senderVars, Chunks, ChunksOf, Open, Without, Datagram
<1>5. arrived \in [Chunks -> 0 .. MaxCopies] /\ arrived' \in [Chunks -> 0 .. MaxCopies]
      /\ \A f \in Chunks : arrived[f] <= arrived'[f]
                           /\ (f # c => arrived'[f] = arrived[f])
  BY <1>1 DEF IInv, TypeOK
<1>6. \A x \in Open' : SlotOK(x, slots[x])'
  <2>1. \A x \in Open' : SlotOK(x, slots'[x])
    BY <1>4 DEF IInv, TypeOK
  <2> QED
    BY <1>1, <1>4, <2>1 DEF SlotOK, Held, senderVars
<1>7. timeouts' \in Nat /\ swept' \subseteq Data
  <2>1. Expired(id) \subseteq Data /\ Data = 0 .. MsgCount - 1
    BY DEF Expired, IInv, TypeOK, Data
  <2>2. IsFiniteSet(Data)
    BY <2>1, FS_Interval
  <2>3. Cardinality(Expired(id)) \in Nat
    BY <2>1, <2>2, FS_Subset, FS_CardinalityType
  <2>4. timeouts \in Nat /\ swept \subseteq Data
    BY DEF IInv, TypeOK
  <2>5. timeouts' \in Nat
    BY <1>1, <2>3, <2>4
  <2>6. swept' \subseteq Data
    BY <1>1, <2>1, <2>4
  <2> QED
    BY <2>5, <2>6
<1>8. delivered' \in [Wires -> Nat]
  <2>1. id \in Wires /\ Sentinel \in Wires
    BY <1>2 DEF Wires
  <2> QED
    BY <1>2, <1>3, <2>1 DEF NothingNew, SentinelNew, MessageNew
<1>9. TypeOK'
  BY <1>1, <1>4, <1>5, <1>6, <1>7, <1>8 DEF IInv, TypeOK, senderVars
<1>10. SenderInv'
  BY <1>1 DEF IInv, SenderInv, senderVars
<1>11. ArrivedWasSent'
  BY <1>1, <1>4, <1>5 DEF IInv, ArrivedWasSent, senderVars
<1>12. Budget'
  BY <1>4, FinishedUses DEF Budget
<1>13. AcceptedInv'
  <2>1. accepted' \subseteq accepted \cup {Whole(id)}
    BY <1>3 DEF NothingNew, SentinelNew, MessageNew
  <2>2. \A m : Whole(m)' = Whole(m)
    BY <1>1 DEF Whole, senderVars
  <2> QED
    BY <1>2, <2>1, <2>2 DEF IInv, AcceptedInv
<1>14. SlotsInv'
  <2> SUFFICES ASSUME NEW x \in Open' PROVE (InPlace(x, slots[x]) /\ Unspent(slots[x]))'
    BY DEF SlotsInv
  <2>1. x \in Open /\ x # id /\ slots'[x] = slots[x]
    BY <1>4
  <2>2. InPlace(x, slots[x]) /\ Unspent(slots[x]) /\ SlotOK(x, slots[x])
    BY <2>1 DEF IInv, SlotsInv, TypeOK
  <2>3. \A i \in Held(slots[x]) :
          /\ slots[x].frags[i] \in Chunks
          /\ Datagram(slots[x].frags[i]).id # id
    BY <2>1, <2>2 DEF SlotOK, Held, InPlace
  <2>4. \A f \in Chunks :
          Datagram(f).id # id /\ Uses(f) < arrived[f] => Uses(f)' < arrived'[f]
    <3> SUFFICES ASSUME NEW f \in Chunks, Datagram(f).id # id, Uses(f) < arrived[f]
                 PROVE  Uses(f)' < arrived'[f]
      OBVIOUS
    <3>1. Uses(f)' = Uses(f) /\ Uses(f)' \in Nat
      BY FinishedUses
    <3> QED
      BY <1>5, <3>1
  <2>5. InPlace(x, slots[x])'
    BY <1>4, <2>1, <2>2 DEF InPlace, Held
  <2>6. Unspent(slots[x])'
    BY <2>1, <2>2, <2>3, <2>4 DEF Unspent, Held, Uses
  <2> QED
    BY <2>5, <2>6
<1> QED
  BY <1>9, <1>10, <1>11, <1>12, <1>13, <1>14 DEF IInv
LEMMA IInvStep == IInv /\ [Next]_vars => IInv'
<1> SUFFICES ASSUME IInv, [Next]_vars PROVE IInv'
  OBVIOUS
<1>1. CASE UNCHANGED vars
  <2>1. /\ UNCHANGED <<chunks, arrived, slots, accepted, delivered>>
        /\ UNCHANGED <<cur, offset, sent, age, timeouts, swept>>
    BY <1>1 DEF vars, senderVars, receiverVars
  <2>2. TypeOK'
    <3>1. Chunks' = Chunks /\ Open' = Open
      BY <2>1 DEF Chunks, ChunksOf, Open
    <3>2. \A x \in Open : SlotOK(x, slots[x])'
      <4>1. \A x \in Open : SlotOK(x, slots[x])
        BY DEF IInv, TypeOK
      <4> QED
        BY <2>1, <3>1, <4>1 DEF SlotOK, Held
    <3> QED
      BY <2>1, <3>1, <3>2 DEF IInv, TypeOK
  <2>3. SenderInv' /\ ArrivedWasSent'
    BY <2>1 DEF IInv, SenderInv, ArrivedWasSent, Chunks, ChunksOf
  <2> QED
    BY <2>1, <2>2, <2>3, ReceiverPart DEF IInv
<1>2. CASE Sending
  BY <1>2, SendingStep
<1>3. ASSUME NEW c \in Chunks, Receive(c) PROVE IInv'
  BY <1>3, KeptStep, FinishedStep
<1>4. CASE Tick
  BY <1>4, TickStep
<1> QED
  BY <1>1, <1>2, <1>3, <1>4 DEF Next

LEMMA IInvAlways == Spec => []IInv
BY IInvInit, IInvStep, PTL DEF Spec

-----------------------------------------------------------------------------
(* What is gathered and what a sweep throws away.  These hold of messages  *)
(* whose fragments the counters can number.                                *)
Short(m) == chunks[m] < FragModulus
HeldIn(s, m, i) == i \in Held(s) /\ s.frags[i] = <<m, i>>
HeldChunk(m, i) == m \in Open /\ HeldIn(slots[m], m, i)

(* All of a message that arrived is still in its slot.                     *)
Gathered ==
  \A m \in Data : m \notin swept /\ Short(m) /\ ~Collides(m) /\ delivered[m] = 0 =>
    \A i \in 0 .. chunks[m] - 1 : arrived[<<m, i>>] > 0 => HeldChunk(m, i)

(* A slot holds something of its own message, not only the sentinel.       *)
OwnFragment ==
  \A m \in Data : m \in Open /\ Short(m) => \E i \in 0 .. chunks[m] - 1 : HeldChunk(m, i)

(* Every sweep threw away an arrival that no delivery will account for.    *)
Wasted(m, i) ==
  /\ delivered[m] < arrived[<<m, i>>]
  /\ HeldChunk(m, i) => delivered[m] + 1 < arrived[<<m, i>>]

SweptWasted == \A m \in swept : Short(m) => \E i \in 0 .. chunks[m] - 1 : Wasted(m, i)

OnlyShort == \A m \in Data : ~Short(m) => delivered[m] = 0

SlotContents == Gathered /\ OwnFragment /\ SweptWasted /\ OnlyShort

LEMMA FillKeeps ==
  ASSUME chunks \in [Data -> ChunkCounts], NEW c \in Chunks, NEW s, Counted(s)
  PROVE  LET t == Fill(s, Datagram(c))
         IN \A i \in Held(s) : i \in Held(t) /\ t.frags[i] = s.frags[i]
<1> DEFINE j == Datagram(c).index
           t == Fill(s, Datagram(c))
<1> SUFFICES ASSUME NEW i \in Held(s) PROVE i \in Held(t) /\ t.frags[i] = s.frags[i]
  OBVIOUS
<1>1. s.frags \in [0 .. s.total - 1 -> Chunks \cup {Empty}] /\ i \in 0 .. s.total - 1
      /\ s.frags[i] # Empty
  BY DEF Counted, Held
<1>2. CASE j < s.total /\ s.frags[j] = Empty
  <2>1. t.total = s.total /\ t.frags = [s.frags EXCEPT ![j] = Datagram(c).chunk]
    BY <1>2 DEF Fill, Place
  <2> QED
    BY <1>1, <1>2, <2>1 DEF Held
<1>3. CASE ~(j < s.total /\ s.frags[j] = Empty)
  BY <1>3 DEF Fill
<1> QED
  BY <1>2, <1>3

(* The first datagram of a slot is placed; the sentinel alone fills its    *)
(* slot.                                                                   *)
LEMMA FreshFilled ==
  ASSUME chunks \in [Data -> ChunkCounts], NEW c \in Chunks, Datagram(c).id \notin Open
  PROVE  LET s == Filled(c)
         IN /\ c = Sentinel => Complete(s)
            /\ \A m \in Data : \A i \in 0 .. chunks[m] - 1 :
                 c = <<m, i>> /\ Short(m) => HeldIn(s, m, i)
<1> DEFINE d == Datagram(c)
           s == Filled(c)
<1>1. SlotOf(d) = NewSlot(d) /\ s = Fill(NewSlot(d), d)
  BY DEF SlotOf, Filled
<1>2. /\ NewSlot(d).total = d.count /\ NewSlot(d).received = 0
      /\ NewSlot(d).frags = [i \in 0 .. d.count - 1 |-> Empty]
  BY DEF NewSlot
<1>3. d.chunk = c /\ d.index \in Nat /\ d.count \in Nat /\ c # Empty
  BY DatagramType, ChunkFacts
<1>4. d.index < d.count =>
        /\ s.total = d.count /\ s.received = 1
        /\ d.index \in Held(s) /\ s.frags[d.index] = c
  <2> SUFFICES ASSUME d.index < d.count
               PROVE /\ s.total = d.count /\ s.received = 1
                     /\ d.index \in Held(s) /\ s.frags[d.index] = c
    OBVIOUS
  <2>1. d.index \in 0 .. d.count - 1
    BY <1>3
  <2>2. s = Place(NewSlot(d), d)
    BY <1>1, <1>2, <2>1 DEF Fill
  <2>3. s.total = d.count /\ s.received = 1
        /\ s.frags = [[i \in 0 .. d.count - 1 |-> Empty] EXCEPT ![d.index] = c]
    BY <1>2, <1>3, <2>2 DEF Place
  <2>4. s.frags[d.index] = c
    BY <2>1, <2>3
  <2> QED
    BY <1>3, <2>1, <2>3, <2>4 DEF Held
<1>5. c = Sentinel => Complete(s)
  <2> SUFFICES ASSUME c = Sentinel PROVE Complete(s)
    OBVIOUS
  <2>1. d.index = 0 /\ d.count = 1
    BY DEF Datagram
  <2> QED
    BY <1>4, <2>1 DEF Complete
<1>6. ASSUME NEW m \in Data, NEW i \in 0 .. chunks[m] - 1, c = <<m, i>>, Short(m)
      PROVE  HeldIn(s, m, i)
  <2>1. chunks[m] \in Nat /\ c # Sentinel
    BY <1>6, ChunkFacts
  <2>2. d.index = i % FragModulus /\ d.count = chunks[m] % FragModulus
    BY <1>6, <2>1 DEF Datagram
  <2>3. i % FragModulus = i /\ chunks[m] % FragModulus = chunks[m]
    BY <1>6, <2>1, ModSmall DEF Short
  <2> QED
    BY <1>4, <1>6, <2>1, <2>2, <2>3 DEF HeldIn
<1> QED
  BY <1>5, <1>6

(* Without the sentinel, a slot holds chunks of its own message only.      *)
LEMMA OwnOnly ==
  ASSUME IInv, NEW c \in Chunks, Receive(c),
         NEW m \in Data, m = Datagram(c).id, Short(m), ~Collides(m)'
  PROVE  \A k \in Held(Filled(c)) : Filled(c).frags[k] = <<m, k>>
<1> DEFINE s == Filled(c)
<1> SUFFICES ASSUME NEW k \in Held(s) PROVE s.frags[k] = <<m, k>>
  OBVIOUS
<1>1. chunks \in [Data -> ChunkCounts] /\ chunks[m] \in Nat
  BY ChunkFacts DEF IInv, TypeOK
<1>2. /\ s.frags[k] \in Chunks
      /\ Datagram(s.frags[k]).id = m /\ Datagram(s.frags[k]).index = k
      /\ Uses(s.frags[k]) < arrived'[s.frags[k]]
  BY FilledSlot DEF InPlace
<1>3. s.frags[k] # Sentinel
  <2> SUFFICES ASSUME s.frags[k] = Sentinel PROVE FALSE
    OBVIOUS
  <2>1. m = Last
    BY <1>2 DEF Datagram
  <2>2. Uses(Sentinel) \in Nat /\ arrived'[Sentinel] \in Nat
    <3>1. Sentinel \in Wires /\ Sentinel \in Chunks
      BY DEF Wires, Chunks
    <3>2. arrived \in [Chunks -> 0 .. MaxCopies] /\ arrived' = [arrived EXCEPT ![c] = @ + 1]
      BY DEF IInv, TypeOK, Receive
    <3> QED
      BY <3>1, <3>2 DEF IInv, TypeOK, Uses
  <2> QED
    BY <1>2, <2>1, <2>2 DEF Collides
<1>4. PICK n \in Data : \E j \in 0 .. chunks[n] - 1 : s.frags[k] = <<n, j>>
  BY <1>1, <1>2, <1>3, ChunkFacts
<1>5. PICK j \in 0 .. chunks[n] - 1 : s.frags[k] = <<n, j>>
  BY <1>4
<1>6. n = m /\ j % FragModulus = k
  BY <1>2, <1>3, <1>5 DEF Datagram
<1>7. j % FragModulus = j
  BY <1>1, <1>6, ModSmall DEF Short
<1> QED
  BY <1>5, <1>6, <1>7

(* What a datagram leaves in the slot of its id.                           *)
LEMMA FilledHolds ==
  ASSUME IInv, NEW c \in Chunks, Receive(c),
         NEW m \in Data, m = Datagram(c).id, Short(m)
  PROVE  LET s == Filled(c)
         IN /\ \A i : HeldChunk(m, i) => HeldIn(s, m, i)
            /\ \A i : HeldIn(s, m, i) => HeldChunk(m, i) \/ c = <<m, i>>
            /\ \A i \in 0 .. chunks[m] - 1 :
                 c = <<m, i>> /\ ~Collides(m)' => HeldIn(s, m, i)
<1> DEFINE s == Filled(c)
           d == Datagram(c)
<1>1. chunks \in [Data -> ChunkCounts]
  BY DEF IInv, TypeOK
<1>2. m \in Open => SlotOf(d) = slots[m] /\ SlotOK(m, slots[m]) /\ Counted(slots[m])
  BY DEF SlotOf, IInv, TypeOK, SlotOK, Counted
<1>3. ASSUME NEW i, HeldChunk(m, i) PROVE HeldIn(s, m, i)
  <2>1. \A k \in Held(slots[m]) : k \in Held(s) /\ s.frags[k] = slots[m].frags[k]
    BY <1>1, <1>2, <1>3, FillKeeps DEF Filled, HeldChunk
  <2> QED
    BY <1>3, <2>1 DEF HeldChunk, HeldIn
<1>4. ASSUME NEW i, HeldIn(s, m, i) PROVE HeldChunk(m, i) \/ c = <<m, i>>
  <2>1. CASE m \in Open
    <3>1. Counted(slots[m]) /\ s = Fill(slots[m], d)
      BY <1>2, <2>1 DEF Filled
    <3>2. \A k \in Held(s) : \/ k \in Held(slots[m]) /\ s.frags[k] = slots[m].frags[k]
                             \/ k = d.index /\ s.frags[k] = c
      BY <1>1, <3>1, FillCounted
    <3> QED
      BY <1>4, <2>1, <3>2 DEF HeldIn, HeldChunk
  <2>2. CASE m \notin Open
    <3>1. SlotOf(d) = NewSlot(d) /\ Counted(NewSlot(d)) /\ Held(NewSlot(d)) = {}
      BY <1>1, <2>2, NewSlotCounted DEF SlotOf
    <3>2. s.frags[i] = c
      BY <1>1, <1>4, <3>1, FillCounted DEF Filled, HeldIn
    <3> QED
      BY <1>4, <3>2 DEF HeldIn
  <2> QED
    BY <2>1, <2>2
<1>5. ASSUME NEW i \in 0 .. chunks[m] - 1, c = <<m, i>>, ~Collides(m)'
      PROVE  HeldIn(s, m, i)
  <2>1. CASE m \notin Open
    BY <1>1, <1>5, <2>1, FreshFilled
  <2>2. CASE m \in Open
    <3>1. chunks[m] \in Nat /\ c # Sentinel
      BY <1>1, <1>5, ChunkFacts
    <3>2. d.index = i /\ slots[m].total = chunks[m]
      <4>1. i % FragModulus = i /\ chunks[m] % FragModulus = chunks[m]
        BY <3>1, ModSmall DEF Short
      <4> QED
        BY <1>2, <1>5, <2>2, <3>1, <4>1 DEF Datagram, SlotOK
    <3>3. i \in Held(s)
      BY <1>1, <1>2, <2>2, <3>1, <3>2, FillCounted DEF Filled
    <3> QED
      BY <1>5, <3>3, OwnOnly DEF HeldIn
  <2> QED
    BY <2>1, <2>2
<1> QED
  BY <1>3, <1>4, <1>5

(* A slot that completes without the sentinel hands up its message.        *)
LEMMA CompleteDelivers ==
  ASSUME IInv, NEW c \in Chunks, Receive(c), Complete(Filled(c)),
         NEW m \in Data, m = Datagram(c).id, Short(m), ~Collides(m)'
  PROVE  delivered'[m] = delivered[m] + 1
<1> DEFINE s == Filled(c)
           w == Joined(s)
<1>1. /\ chunks[m] \in Nat \ {0} /\ delivered \in [Wires -> Nat]
      /\ arrived \in [Chunks -> 0 .. MaxCopies]
  BY ChunkFacts DEF IInv, TypeOK
<1>2. OnWire(w) /\ arrived' = [arrived EXCEPT ![c] = @ + 1]
  BY DEF Receive, FinishSlot, Filled
<1>3. Counted(s) /\ s.total = chunks[m]
  <2>1. c # Sentinel
    <3> SUFFICES ASSUME c = Sentinel PROVE FALSE
      OBVIOUS
    <3>1. m = Last /\ arrived'[Sentinel] > 0
      BY <1>1, <1>2 DEF Datagram
    <3> QED
      BY <3>1 DEF Collides
  <2>2. chunks[m] % FragModulus = chunks[m]
    BY <1>1, ModSmall DEF Short
  <2> QED
    BY <2>1, <2>2, FilledSlot
<1>4. Held(s) = 0 .. s.total - 1
  BY <1>1, <1>3, HeldFinite DEF Complete, Counted
<1>5. w = [i \in 1 .. s.total |-> s.frags[i - 1]]
  BY DEF Joined
<1>6. Len(w) = s.total /\ w # <<>> /\ w[1] = s.frags[0]
  BY <1>1, <1>3, <1>5, LenJoined
<1>7. w[1] = <<m, 0>>
  BY <1>1, <1>3, <1>4, <1>6, OwnOnly
<1>8. w[1] # Sentinel
  BY <1>1, <1>7, ChunkFacts DEF IInv, TypeOK
<1>9. w[1][1] = m /\ w[1][2] = 0
  BY <1>7
<1>10. Len(w) >= chunks[w[1][1]]
  BY <1>1, <1>3, <1>6, <1>9
<1>11. IsData(w) /\ ~IsSentinel(w)
  BY <1>6, <1>8, <1>9, <1>10 DEF IsData, IsSentinel, StartsData
<1>12. delivered' = [delivered EXCEPT ![m] = @ + 1]
  BY <1>2, <1>9, <1>11 DEF OnWire
<1> QED
  BY <1>1, <1>12 DEF Wires

-----------------------------------------------------------------------------
(* Every step keeps what is known of the slots' contents.                  *)

LEMMA SlotContentsInit == Init => SlotContents
<1> SUFFICES ASSUME Init PROVE SlotContents
  OBVIOUS
<1>1. \A m \in Data : \A i \in 0 .. chunks[m] - 1 : arrived[<<m, i>>] = 0
  BY ChunkFacts DEF Init
<1>2. \A m \in Data : delivered[m] = 0
  BY DEF Init, Wires
<1> QED
  BY <1>1, <1>2
     DEF Init, SlotContents, Gathered, OwnFragment, SweptWasted, OnlyShort, Open

(* The parts of the state the slots' contents are about.                   *)
LEMMA SlotContentsKept ==
  ASSUME SlotContents, UNCHANGED <<chunks, arrived, slots, swept, delivered>>
  PROVE  SlotContents'
BY DEF SlotContents, Gathered, OwnFragment, SweptWasted, OnlyShort, Short, Collides,
       HeldChunk, HeldIn, Held, Wasted, Open

LEMMA ArrivalGrows ==
  ASSUME IInv, NEW c \in Chunks, Receive(c)
  PROVE  /\ chunks' = chunks
         /\ \A m \in Data : \A i \in 0 .. chunks[m] - 1 :
              /\ arrived[<<m, i>>] \in Nat /\ arrived'[<<m, i>>] \in Nat
              /\ arrived[<<m, i>>] <= arrived'[<<m, i>>]
              /\ c = <<m, i>> => arrived'[<<m, i>>] = arrived[<<m, i>>] + 1
              /\ c # <<m, i>> => arrived'[<<m, i>>] = arrived[<<m, i>>]
              /\ c = <<m, i>> => m = Datagram(c).id
         /\ \A m \in Data : Collides(m) => Collides(m)'
         /\ \A m \in Data : delivered[m] \in Nat
<1>1. arrived \in [Chunks -> 0 .. MaxCopies] /\ arrived' = [arrived EXCEPT ![c] = @ + 1]
  BY DEF IInv, TypeOK, Receive
<1>2. \A m \in Data : \A i \in 0 .. chunks[m] - 1 : <<m, i>> \in Chunks /\ <<m, i>> # Sentinel
  BY ChunkFacts DEF IInv, TypeOK
<1>3. \A f \in Chunks : /\ arrived[f] \in Nat /\ arrived'[f] \in Nat /\ arrived[f] <= arrived'[f]
                        /\ f = c => arrived'[f] = arrived[f] + 1
                        /\ f # c => arrived'[f] = arrived[f]
  BY <1>1
<1>4. Sentinel \in Chunks
  BY DEF Chunks
<1>5. \A m \in Data : Collides(m) => Collides(m)'
  BY <1>3, <1>4 DEF Collides
<1>6. \A m \in Data : \A i \in 0 .. chunks[m] - 1 : c = <<m, i>> => m = Datagram(c).id
  BY <1>2 DEF Datagram
<1>7. \A m \in Data : delivered[m] \in Nat
  BY DEF IInv, TypeOK, Wires
<1> QED
  BY <1>2, <1>3, <1>5, <1>6, <1>7 DEF Receive, senderVars

LEMMA SlotContentsKeep ==
  ASSUME IInv, SlotContents, NEW c \in Chunks, Receive(c), ~Complete(Filled(c))
  PROVE  SlotContents'
<1> DEFINE s == Filled(c)
<1>0. PICK id \in Data : id = Datagram(c).id
  BY DatagramType DEF IInv, TypeOK
<1>1. /\ UNCHANGED <<swept, delivered>>
      /\ slots' = [x \in Open \cup {id} |-> IF x = id THEN s ELSE slots[x]]
  BY <1>0 DEF Receive, KeepSlot, Filled
<1>2. /\ chunks' = chunks
      /\ \A m \in Data : \A i \in 0 .. chunks[m] - 1 :
           /\ arrived[<<m, i>>] \in Nat /\ arrived'[<<m, i>>] \in Nat
           /\ arrived[<<m, i>>] <= arrived'[<<m, i>>]
           /\ c = <<m, i>> => arrived'[<<m, i>>] = arrived[<<m, i>>] + 1
           /\ c # <<m, i>> => arrived'[<<m, i>>] = arrived[<<m, i>>]
           /\ c = <<m, i>> => m = id
      /\ \A m \in Data : Collides(m) => Collides(m)'
      /\ \A m \in Data : delivered[m] \in Nat
  BY <1>0, ArrivalGrows
<1>3. Open' = Open \cup {id} /\ \A m \in Data : Short(m)' = Short(m)
  BY <1>1, <1>2 DEF Open, Short
<1>4. \A m, i : m # id => (HeldChunk(m, i)' <=> HeldChunk(m, i))
  BY <1>1, <1>3 DEF HeldChunk, HeldIn, Held
<1>5. \A i : HeldChunk(id, i)' <=> HeldIn(s, id, i)
  <2>1. slots'[id] = s
    BY <1>1
  <2> QED
    BY <1>3, <2>1 DEF HeldChunk, HeldIn, Held
<1>6. /\ Short(id) => \A i : HeldChunk(id, i) => HeldIn(s, id, i)
      /\ Short(id) => \A i : HeldIn(s, id, i) => HeldChunk(id, i) \/ c = <<id, i>>
      /\ Short(id) => \A i \in 0 .. chunks[id] - 1 :
           c = <<id, i>> /\ ~Collides(id)' => HeldIn(s, id, i)
  BY <1>0, FilledHolds
<1> HIDE DEF s
<1>7. Gathered'
  <2> SUFFICES ASSUME NEW m \in Data, m \notin swept, Short(m), ~Collides(m)',
                      delivered[m] = 0, NEW i \in 0 .. chunks[m] - 1, arrived'[<<m, i>>] > 0
               PROVE  HeldChunk(m, i)'
    BY <1>1, <1>2, <1>3 DEF Gathered
  <2>1. CASE c = <<m, i>>
    BY <1>2, <1>5, <1>6, <2>1
  <2>2. CASE c # <<m, i>>
    <3>1. HeldChunk(m, i)
      BY <1>2, <2>2 DEF SlotContents, Gathered
    <3> QED
      BY <1>4, <1>5, <1>6, <3>1
  <2> QED
    BY <2>1, <2>2
<1>8. OwnFragment'
  <2> SUFFICES ASSUME NEW m \in Data, m \in Open', Short(m)
               PROVE  \E i \in 0 .. chunks[m] - 1 : HeldChunk(m, i)'
    BY <1>2, <1>3 DEF OwnFragment
  <2>1. CASE m \in Open
    <3>1. PICK i \in 0 .. chunks[m] - 1 : HeldChunk(m, i)
      BY <2>1 DEF SlotContents, OwnFragment
    <3> QED
      BY <1>4, <1>5, <1>6, <3>1
  <2>2. CASE m \notin Open
    <3>1. m = id /\ chunks \in [Data -> ChunkCounts]
      BY <1>3, <2>2 DEF IInv, TypeOK
    <3>2. c # Sentinel
      BY <1>0, <2>2, <3>1, FreshFilled
    <3>3. PICK n \in Data : \E k \in 0 .. chunks[n] - 1 : c = <<n, k>>
      BY <3>1, <3>2, ChunkFacts
    <3>4. PICK k \in 0 .. chunks[n] - 1 : c = <<n, k>>
      BY <3>3
    <3>5. n = m
      BY <1>2, <3>1, <3>4
    <3>6. HeldIn(s, m, k)
      BY <1>0, <2>2, <3>1, <3>4, <3>5, FreshFilled DEF s
    <3> QED
      BY <1>5, <3>1, <3>4, <3>5, <3>6
  <2> QED
    BY <2>1, <2>2
<1>9. SweptWasted'
  <2> SUFFICES ASSUME NEW m \in swept, Short(m)
               PROVE  \E i \in 0 .. chunks[m] - 1 : Wasted(m, i)'
    BY <1>1, <1>2, <1>3, IInv DEF SweptWasted, Short
  <2>0. m \in Data
    BY DEF IInv, TypeOK
  <2>1. PICK i \in 0 .. chunks[m] - 1 : Wasted(m, i)
    BY DEF SlotContents, SweptWasted
  <2>2. CASE HeldChunk(m, i)' /\ ~HeldChunk(m, i)
    <3>1. c = <<m, i>>
      BY <1>4, <1>5, <1>6, <2>2
    <3> QED
      BY <1>1, <1>2, <2>0, <2>1, <3>1 DEF Wasted
  <2>3. CASE HeldChunk(m, i)' => HeldChunk(m, i)
    BY <1>1, <1>2, <2>0, <2>1, <2>3 DEF Wasted
  <2> QED
    BY <2>2, <2>3
<1>10. OnlyShort'
  BY <1>1, <1>3 DEF SlotContents, OnlyShort
<1> QED
  BY <1>7, <1>8, <1>9, <1>10 DEF SlotContents

LEMMA SlotContentsFinish ==
  ASSUME IInv, SlotContents, NEW c \in Chunks, Receive(c), Complete(Filled(c))
  PROVE  SlotContents'
<1> DEFINE s == Filled(c)
<1>0. PICK id \in Data : id = Datagram(c).id
  BY DatagramType DEF IInv, TypeOK
<1>1. /\ slots' = Without(slots, {id} \cup Expired(id))
      /\ swept' = swept \cup Expired(id)
  BY <1>0 DEF Receive, FinishSlot, Filled
<1>2. /\ chunks' = chunks
      /\ \A m \in Data : \A i \in 0 .. chunks[m] - 1 :
           /\ arrived[<<m, i>>] \in Nat /\ arrived'[<<m, i>>] \in Nat
           /\ arrived[<<m, i>>] <= arrived'[<<m, i>>]
           /\ c = <<m, i>> => arrived'[<<m, i>>] = arrived[<<m, i>>] + 1
           /\ c # <<m, i>> => arrived'[<<m, i>>] = arrived[<<m, i>>]
           /\ c = <<m, i>> => m = id
      /\ \A m \in Data : Collides(m) => Collides(m)'
      /\ \A m \in Data : delivered[m] \in Nat
  BY <1>0, ArrivalGrows
<1>3. /\ Open' = Open \ ({id} \cup Expired(id))
      /\ \A x \in Open' : slots'[x] = slots[x]
      /\ \A m \in Data : Short(m)' = Short(m)
  BY <1>1, <1>2 DEF Open, Without, Short
<1>4. \A m, i : HeldChunk(m, i)' <=> m \in Open' /\ HeldChunk(m, i)
  BY <1>3 DEF HeldChunk, HeldIn, Held
<1>5. \A i : Short(id) /\ HeldIn(s, id, i) => HeldChunk(id, i) \/ c = <<id, i>>
  BY <1>0, FilledHolds
<1>6. Short(id) /\ ~Collides(id)' => delivered'[id] = delivered[id] + 1
  BY <1>0, CompleteDelivers
<1>7. NothingNew \/ SentinelNew(id, s) \/ MessageNew(id, s)
  BY <1>0, WireOfSlot DEF Receive, FinishSlot, Filled
<1> HIDE DEF s
<1>8. /\ \A m \in Data : delivered'[m] = delivered[m]
                         \/ (m = id /\ MessageNew(id, s) /\ delivered'[m] = delivered[m] + 1)
  <2>1. delivered \in [Wires -> Nat] /\ \A m \in Data : m \in Wires /\ m # Sentinel
    BY DEF IInv, TypeOK, Wires, Data
  <2> QED
    BY <1>7, <2>1 DEF NothingNew, SentinelNew, MessageNew
<1>9. Gathered'
  <2> SUFFICES ASSUME NEW m \in Data, m \notin swept', Short(m), ~Collides(m)',
                      delivered'[m] = 0, NEW i \in 0 .. chunks[m] - 1, arrived'[<<m, i>>] > 0
               PROVE  HeldChunk(m, i)'
    BY <1>2, <1>3 DEF Gathered
  <2>1. m # id
    BY <1>2, <1>6
  <2>2. delivered[m] = 0 /\ arrived[<<m, i>>] > 0 /\ ~Collides(m) /\ m \notin swept
    BY <1>1, <1>2, <1>8, <2>1
  <2>3. HeldChunk(m, i)
    BY <2>2 DEF SlotContents, Gathered
  <2>4. m \in Open'
    BY <1>1, <1>3, <2>1, <2>3 DEF HeldChunk
  <2> QED
    BY <1>4, <2>3, <2>4
<1>10. OwnFragment'
  <2> SUFFICES ASSUME NEW m \in Data, m \in Open', Short(m)
               PROVE  \E i \in 0 .. chunks[m] - 1 : HeldChunk(m, i)'
    BY <1>2, <1>3 DEF OwnFragment
  <2>1. PICK i \in 0 .. chunks[m] - 1 : HeldChunk(m, i)
    BY <1>3 DEF SlotContents, OwnFragment
  <2> QED
    BY <1>4, <2>1
<1>11. SweptWasted'
  <2> SUFFICES ASSUME NEW m \in swept', Short(m)
               PROVE  \E i \in 0 .. chunks[m] - 1 : Wasted(m, i)'
    BY <1>2 DEF SweptWasted, Short
  <2>0. m \in Data
    BY <1>1 DEF IInv, TypeOK, Expired
  <2>1. CASE m \in swept /\ delivered'[m] = delivered[m]
    <3>1. PICK i \in 0 .. chunks[m] - 1 : Wasted(m, i)
      BY <2>1 DEF SlotContents, SweptWasted
    <3> QED
      BY <1>2, <1>4, <2>0, <2>1, <3>1 DEF Wasted
  <2>2. CASE m \in swept /\ delivered'[m] # delivered[m]
    <3>1. m = id /\ MessageNew(id, s) /\ delivered'[m] = delivered[m] + 1
      BY <1>8, <2>0, <2>2
    <3>2. PICK i \in 0 .. chunks[m] - 1 : Wasted(m, i)
      BY <2>2 DEF SlotContents, SweptWasted
    <3>3. HeldChunk(m, i) \/ c = <<m, i>>
      BY <1>5, <3>1 DEF MessageNew, HeldIn
    <3>4. ~HeldChunk(m, i)'
      BY <1>3, <1>4, <3>1
    <3> QED
      BY <1>2, <2>0, <3>1, <3>2, <3>3, <3>4 DEF Wasted
  <2>3. CASE m \notin swept
    <3>1. m \in Expired(id) /\ m \in Open /\ m # id /\ m \notin Open'
      BY <1>1, <1>3, <2>3 DEF Expired
    <3>2. PICK i \in 0 .. chunks[m] - 1 : HeldChunk(m, i)
      BY <2>0, <3>1 DEF SlotContents, OwnFragment
    <3>3. Uses(<<m, i>>) < arrived[<<m, i>>]
      BY <3>1, <3>2 DEF IInv, SlotsInv, Unspent, HeldChunk, HeldIn
    <3>4. Uses(<<m, i>>) = delivered[m]
      BY <2>0, ChunkFacts DEF IInv, TypeOK, Uses
    <3>5. delivered'[m] = delivered[m]
      BY <1>8, <2>0, <3>1
    <3> QED
      BY <1>2, <1>4, <2>0, <3>1, <3>3, <3>4, <3>5 DEF Wasted
  <2> QED
    BY <2>1, <2>2, <2>3
<1>12. OnlyShort'
  <2> SUFFICES ASSUME NEW m \in Data, ~Short(m) PROVE delivered'[m] = 0
    BY <1>3 DEF OnlyShort
  <2>1. ~MessageNew(m, s)
    <3> SUFFICES ASSUME MessageNew(m, s) PROVE FALSE
      OBVIOUS
    <3>1. chunks[m] \in Nat \ {0} /\ s.total \in 0 .. FragModulus - 1
      BY ChunkFacts, FilledSlot DEF IInv, TypeOK, Counted, s
    <3>2. chunks[m] - 1 \in Held(s)
      BY <3>1 DEF MessageNew
    <3> QED
      BY <3>1, <3>2 DEF Held, Short
  <2> QED
    BY <1>8, <2>1 DEF SlotContents, OnlyShort
<1> QED
  BY <1>9, <1>10, <1>11, <1>12 DEF SlotContents

LEMMA SlotContentsStep == IInv /\ SlotContents /\ [Next]_vars => SlotContents'
<1> SUFFICES ASSUME IInv, SlotContents, [Next]_vars PROVE SlotContents'
  OBVIOUS
<1>1. CASE UNCHANGED vars
  BY <1>1, SlotContentsKept DEF vars, senderVars, receiverVars
<1>2. CASE Sending
  BY <1>2, SlotContentsKept DEF Sending, SendChunk, SendFails, SendSentinel, receiverVars
<1>3. ASSUME NEW c \in Chunks, Receive(c) PROVE SlotContents'
  BY <1>3, SlotContentsKeep, SlotContentsFinish
<1>4. CASE Tick
  BY <1>4, SlotContentsKept DEF Tick, senderVars
<1> QED
  BY <1>1, <1>2, <1>3, <1>4 DEF Next

LEMMA SlotContentsAlways == Spec => [](IInv /\ SlotContents)
<1>1. IInv /\ SlotContents /\ [Next]_vars => IInv' /\ SlotContents'
  BY IInvStep, SlotContentsStep
<1> QED
  BY <1>1, IInvInit, SlotContentsInit, PTL DEF Spec

-----------------------------------------------------------------------------
(* The theorems                                                            *)

(* Every variable keeps its type, and an open slot counts what it holds.   *)
THEOREM UdpTypeCorrect == Spec => []TypeOK
<1>1. IInv => TypeOK
  BY DEF IInv
<1> QED
  BY <1>1, IInvAlways, PTL

(* parse_wire accepts only whole messages, chunk by chunk as they were cut.*)
THEOREM DeliveredIntactAlways == Spec => []DeliveredIntact
<1>1. IInv => DeliveredIntact
  <2> SUFFICES ASSUME IInv, NEW w \in accepted
               PROVE  w = [i \in 1 .. chunks[w[1][1]] |-> <<w[1][1], i - 1>>]
    BY DEF DeliveredIntact
  <2>1. PICK m \in Data : w = Whole(m)
    BY DEF IInv, AcceptedInv
  <2>2. chunks[m] \in Nat \ {0}
    BY ChunkFacts DEF IInv, TypeOK
  <2>3. w[1] = <<m, 0>>
    BY <2>1, <2>2 DEF Whole
  <2>4. w[1][1] = m
    BY <2>3
  <2> QED
    BY <2>1, <2>4 DEF Whole
<1> QED
  BY <1>1, IInvAlways, PTL

(* No message is delivered more often than each of its fragments arrived.  *)
THEOREM DeliveredOncePerCopyAlways == Spec => []DeliveredOncePerCopy
<1>1. IInv => DeliveredOncePerCopy
  <2> SUFFICES ASSUME IInv PROVE DeliveredOncePerCopy
    OBVIOUS
  <2>1. \A c \in Chunks : Uses(c) <= arrived[c]
    BY DEF IInv, Budget
  <2>2. delivered[Sentinel] <= arrived[Sentinel]
    BY <2>1, ChunkFacts DEF IInv, TypeOK, Uses
  <2>3. ASSUME NEW m \in Data, NEW c \in ChunksOf(m) PROVE delivered[m] <= arrived[c]
    <3>1. PICK i \in 0 .. chunks[m] - 1 : c = <<m, i>>
      BY DEF ChunksOf
    <3>2. c \in Chunks /\ c # Sentinel
      BY <3>1, ChunkFacts DEF IInv, TypeOK
    <3> QED
      BY <2>1, <3>1, <3>2 DEF Uses
  <2> QED
    BY <2>2, <2>3 DEF DeliveredOncePerCopy
<1> QED
  BY <1>1, IInvAlways, PTL

(* A message that can be numbered and all of whose fragments arrived was   *)
(* delivered, in whatever order and among whatever other messages they     *)
(* came, unless a sweep took its slot or the sentinel of its id got in.    *)
THEOREM CompleteArrivalsAreDeliveredAlways == Spec => []CompleteArrivalsAreDelivered
<1>1. IInv /\ SlotContents => CompleteArrivalsAreDelivered
  <2> SUFFICES ASSUME IInv, SlotContents, NEW m \in Data, m \notin swept, Short(m),
                      ~Collides(m), \A f \in ChunksOf(m) : arrived[f] > 0
               PROVE  delivered[m] > 0
    BY DEF CompleteArrivalsAreDelivered, Short
  <2>0. delivered[m] \in Nat
    BY DEF IInv, TypeOK, Wires
  <2> SUFFICES ASSUME delivered[m] = 0 PROVE FALSE
    BY <2>0
  <2>1. chunks[m] \in Nat \ {0}
    BY ChunkFacts DEF IInv, TypeOK
  <2>2. \A i \in 0 .. chunks[m] - 1 : HeldChunk(m, i)
    BY DEF SlotContents, Gathered, ChunksOf
  <2>3. m \in Open /\ \A i \in 0 .. chunks[m] - 1 : i \in Held(slots[m])
    <3>1. 0 \in 0 .. chunks[m] - 1
      BY <2>1
    <3> QED
      BY <2>2, <3>1 DEF HeldChunk, HeldIn
  <2>4. SlotOK(m, slots[m]) /\ chunks[m] % FragModulus = chunks[m]
    BY <2>1, <2>3, ModSmall DEF IInv, TypeOK, Short
  <2>5. Held(slots[m]) = 0 .. chunks[m] - 1
    BY <2>3, <2>4 DEF Held, SlotOK
  <2>6. Cardinality(0 .. chunks[m] - 1) = chunks[m]
    <3>1. 0 \in Int /\ chunks[m] - 1 \in Int
      BY <2>1
    <3>2. Cardinality(0 .. chunks[m] - 1)
            = IF 0 > chunks[m] - 1 THEN 0 ELSE (chunks[m] - 1) - 0 + 1
      BY <3>1, FS_Interval
    <3> QED
      BY <2>1, <3>2
  <2> QED
    BY <2>1, <2>4, <2>5, <2>6 DEF SlotOK
<1> QED
  BY <1>1, SlotContentsAlways, PTL

(* A message counted as timed out is not also counted as received, unless  *)
(* a datagram of it was repeated.                                          *)
THEOREM TimedOutIsNotReceivedAlways == Spec => []TimedOutIsNotReceived
<1>1. IInv /\ SlotContents => TimedOutIsNotReceived
  <2> SUFFICES ASSUME IInv, SlotContents, NEW m \in swept,
                      \A f \in ChunksOf(m) : arrived[f] <= 1
               PROVE  delivered[m] = 0
    BY DEF TimedOutIsNotReceived
  <2>1. m \in Data
    BY DEF IInv, TypeOK
  <2>2. CASE ~Short(m)
    BY <2>1, <2>2 DEF SlotContents, OnlyShort
  <2>3. CASE Short(m)
    <3>1. PICK i \in 0 .. chunks[m] - 1 : Wasted(m, i)
      BY <2>3 DEF SlotContents, SweptWasted
    <3>2. delivered[m] < arrived[<<m, i>>] /\ arrived[<<m, i>>] <= 1
      BY <3>1 DEF Wasted, ChunksOf
    <3>3. delivered[m] \in Nat /\ arrived[<<m, i>>] \in Nat
      <4>1. <<m, i>> \in Chunks
        BY <2>1, ChunkFacts DEF IInv, TypeOK
      <4> QED
        BY <2>1, <4>1 DEF IInv, TypeOK, Wires
    <3> QED
      BY <3>2, <3>3
  <2> QED
    BY <2>2, <2>3
<1> QED
  BY <1>1, SlotContentsAlways, PTL

LEMMA ChannelInit == Init => Channel!Init
<1> SUFFICES ASSUME Init PROVE Channel!Init
  OBVIOUS
<1>1. \A m \in Data : ChunksOf(m) # {}
  <2> SUFFICES ASSUME NEW m \in Data PROVE <<m, 0>> \in ChunksOf(m)
    OBVIOUS
  <2>1. chunks[m] \in Nat \ {0}
    BY ChunkFacts DEF Init
  <2> QED
    BY <2>1 DEF ChunksOf
<1>2. SentWhole = {}
  BY <1>1 DEF Init, SentWhole
<1> QED
  BY <1>2 DEF Init, Channel!Init

LEMMA ChannelSend ==
  ASSUME IInv, Sending
  PROVE  [Channel!Next]_<<SentWhole, delivered>>
<1>1. chunks' = chunks /\ delivered' = delivered
  BY DEF Sending, SendChunk, SendFails, SendSentinel, receiverVars
<1>2. \A m : ChunksOf(m)' = ChunksOf(m)
  BY <1>1 DEF ChunksOf
<1>3. Sentinel \in Wires /\ Data \subseteq Wires
  BY DEF Wires
<1>4. CASE SendChunk
  <2>1. \A m \in Data : Sentinel # <<cur, offset>> /\ (m # cur => <<cur, offset>> \notin ChunksOf(m))
    <3>1. offset \in Nat /\ cur \in Nat
      BY <1>4 DEF IInv, TypeOK, SendChunk, Data
    <3> QED
      BY <3>1 DEF ChunksOf
  <2>2. cur \in Data /\ sent' = sent \cup {<<cur, offset>>}
    BY <1>4 DEF SendChunk
  <2>3. SentWhole' = SentWhole \/ SentWhole' = SentWhole \cup {cur}
    BY <1>2, <2>1, <2>2 DEF SentWhole
  <2> QED
    BY <1>1, <1>3, <2>2, <2>3 DEF Channel!Next, Channel!Send
<1>5. CASE SendFails
  BY <1>1, <1>2, <1>5 DEF SendFails, SentWhole
<1>6. CASE SendSentinel
  <2>1. \A m \in Data : Sentinel \notin ChunksOf(m)
    <3> SUFFICES ASSUME NEW m \in Data, NEW i \in 0 .. chunks[m] - 1 PROVE Sentinel # <<m, i>>
      BY DEF ChunksOf
    <3> QED
      BY ChunkFacts DEF IInv, TypeOK
  <2>2. SentWhole' = SentWhole \cup {Sentinel}
    BY <1>2, <1>6, <2>1 DEF SendSentinel, SentWhole
  <2> QED
    BY <1>1, <1>3, <2>2 DEF Channel!Next, Channel!Send
<1> QED
  BY <1>4, <1>5, <1>6 DEF Sending

LEMMA ChannelReceive ==
  ASSUME IInv, NEW c \in Chunks, Receive(c)
  PROVE  [Channel!Next]_<<SentWhole, delivered>>
<1> DEFINE id == Datagram(c).id
           s == Filled(c)
<1>1. sent' = sent /\ chunks' = chunks /\ SentWhole' = SentWhole
  BY DEF Receive, senderVars, SentWhole, ChunksOf
<1>2. CASE ~Complete(s)
  BY <1>1, <1>2 DEF Receive, KeepSlot, Filled
<1>3. CASE Complete(s)
  <2>1. NothingNew \/ SentinelNew(id, s) \/ MessageNew(id, s)
    BY <1>3, WireOfSlot DEF Receive, FinishSlot, Filled
  <2>2. \A f \in Chunks : Uses(f)' <= arrived'[f] /\ arrived'[f] \in 0 .. MaxCopies
                         /\ Uses(f) \in Nat /\ (arrived'[f] > 0 => f \in sent)
    <3>1. IInv'
      BY <1>3, FinishedStep
    <3>2. Chunks' = Chunks
      BY <1>1 DEF Chunks, ChunksOf
    <3>3. \A f \in Chunks : Uses(f) \in Nat
      BY ChunkFacts DEF IInv, TypeOK, Uses, Wires
    <3> QED
      BY <1>1, <3>1, <3>2, <3>3 DEF IInv, TypeOK, Budget, ArrivedWasSent
  <2>3. delivered \in [Wires -> Nat] /\ id \in Data /\ chunks \in [Data -> ChunkCounts]
    BY DatagramType DEF IInv, TypeOK
  <2>4. CASE NothingNew
    BY <1>1, <2>4 DEF NothingNew
  <2>5. CASE SentinelNew(id, s)
    <3>1. Sentinel \in Chunks /\ Sentinel \in Wires
      BY DEF Chunks, Wires
    <3>2. delivered'[Sentinel] = delivered[Sentinel] + 1 /\ delivered[Sentinel] \in Nat
      BY <2>3, <2>5, <3>1 DEF SentinelNew
    <3>3. Uses(Sentinel)' = delivered'[Sentinel]
      BY DEF Uses
    <3>4. delivered[Sentinel] < MaxCopies /\ Sentinel \in sent
      BY <2>2, <3>1, <3>2, <3>3
    <3>5. Channel!Deliver(Sentinel)
      BY <1>1, <2>5, <3>4 DEF Channel!Deliver, SentinelNew, SentWhole
    <3> QED
      BY <3>1, <3>5 DEF Channel!Next
  <2>6. CASE MessageNew(id, s)
    <3>0. PICK m \in Data : m = id
      BY <2>3
    <3>1. m \in Wires /\ delivered'[m] = delivered[m] + 1 /\ delivered[m] \in Nat
      BY <2>3, <2>6, <3>0 DEF MessageNew, Wires
    <3>2. chunks[m] \in Nat \ {0}
      BY <2>3, ChunkFacts
    <3>3. ASSUME NEW k \in 0 .. chunks[m] - 1
          PROVE  delivered[m] < MaxCopies /\ <<m, k>> \in sent
      <4>0. <<m, k>> \in Chunks /\ <<m, k>> # Sentinel
        <5>1. \A n \in Data : \A i \in 0 .. chunks[n] - 1 :
                <<n, i>> \in Chunks /\ <<n, i>> # Sentinel
          BY <2>3, ChunkFacts
        <5> QED
          BY <5>1
      <4>1. PICK f : f \in Chunks /\ f = <<m, k>> /\ f # Sentinel
        BY <4>0
      <4>2. Uses(f)' = delivered'[m]
        BY <4>1 DEF Uses
      <4> QED
        BY <2>2, <3>1, <4>1, <4>2
    <3>4. delivered[m] < MaxCopies /\ m \in SentWhole
      <4>1. 0 \in 0 .. chunks[m] - 1
        BY <3>2
      <4> QED
        BY <3>3, <4>1 DEF SentWhole, ChunksOf
    <3>5. Channel!Deliver(m)
      BY <1>1, <2>6, <3>0, <3>4 DEF Channel!Deliver, MessageNew
    <3> QED
      BY <3>1, <3>5 DEF Channel!Next
  <2> QED
    BY <2>1, <2>4, <2>5, <2>6
<1> QED
  BY <1>2, <1>3

(* UDP with fragmentation is a channel of whole wire messages that may be  *)
(* lost, repeated and reordered, never torn or made up.                    *)
THEOREM UdpImplementsChannel == Spec => ImplementsChannel
<1>1. IInv /\ [Next]_vars => [Channel!Next]_<<SentWhole, delivered>>
  <2> SUFFICES ASSUME IInv, [Next]_vars PROVE [Channel!Next]_<<SentWhole, delivered>>
    OBVIOUS
  <2>1. CASE UNCHANGED vars
    BY <2>1 DEF vars, senderVars, receiverVars, SentWhole, ChunksOf
  <2>2. CASE Sending
    BY <2>2, ChannelSend
  <2>3. ASSUME NEW c \in Chunks, Receive(c) PROVE [Channel!Next]_<<SentWhole, delivered>>
    BY <2>3, ChannelReceive
  <2>4. CASE Tick
    BY <2>4 DEF Tick, senderVars, SentWhole, ChunksOf
  <2> QED
    BY <2>1, <2>2, <2>3, <2>4 DEF Next
<1> QED
  BY <1>1, ChannelInit, IInvAlways, PTL DEF Spec, ImplementsChannel, Channel!Spec
===============================================================================
