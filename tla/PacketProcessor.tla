---------------------------- MODULE PacketProcessor ----------------------------
(***************************************************************************)
(* What the processing thread makes of the packets it pops                 *)
(* (PacketProcessor::compute and process_loop): a row of packets.csv each, *)
(* the counters of summary.json, the accumulators and the reservoir.  The  *)
(* thread alone touches all of this, so an iteration of the loop is one    *)
(* step; how it meets the other threads is in ReceiverPipeline.            *)
(*                                                                         *)
(* A packet is its sequence id, what becomes of its payload, and the delay *)
(* its timestamps and clock offsets give.  Delays are integers.            *)
(***************************************************************************)
EXTENDS Integers, Sequences, FiniteSets, Functions

CONSTANTS MaxId,          \* bound: the highest sequence id
          WarmupCount,    \* the ids below it carry the warmup flag
          Delays,         \* ts_received - ts_sent + the offsets of the clocks
          ReservoirCap,   \* kReservoirCap
          MaxPackets      \* bound: packets popped

ASSUME ProcessorAssumption ==
  /\ MaxId \in Nat /\ WarmupCount \in Nat
  /\ Delays \subseteq Int
  /\ ReservoirCap \in Nat \ {0} /\ MaxPackets \in Nat

Ids == 0 .. MaxId
Fates == {"decoded", "corrupt", "undecodable"}
Packets == [seq : Ids, fate : Fates, delay : Delays]
IsWarmup(p) == p.seq < WarmupCount

VARIABLES
  rows,            \* packets.csv, each row with its packet (history)
  firstPacket,     \* first_packet_
  lastSeq,         \* last_seq_id_
  outOfOrder, duplicates, totalGap,
  lastDelay,       \* last_e2e_delay_us_
  received, crcErrors,
  acc,             \* e2e_acc_ and jitter_acc_: the count and the two sums
  reservoir,       \* reservoir_e2e_us_, each value with its row (history)
  reservoirCount,
  firstSeq,        \* history: the first id that was tracked
  seen             \* history: the ids that were tracked

orderVars == <<firstPacket, lastSeq, outOfOrder, duplicates, totalGap, firstSeq, seen>>
statVars == <<acc, reservoir, reservoirCount>>
vars == <<rows, lastDelay, received, crcErrors, orderVars, statVars>>

Abs(n) == IF n < 0 THEN -n ELSE n

Init ==
  /\ rows = <<>>
  /\ firstPacket = TRUE /\ lastSeq = 0
  /\ outOfOrder = 0 /\ duplicates = 0 /\ totalGap = 0
  /\ lastDelay = 0
  /\ received = 0 /\ crcErrors = 0
  /\ acc = [n |-> 0, e2e |-> 0, jitter |-> 0]
  /\ reservoir = <<>> /\ reservoirCount = 0
  /\ firstSeq = 0 /\ seen = {}

-----------------------------------------------------------------------------
(* Sequence tracking                                                       *)

(* How an id compares with the highest one so far.                         *)
Late(s) == ~firstPacket /\ s < lastSeq
Repeat(s) == ~firstPacket /\ s = lastSeq
Gap(s) == IF ~firstPacket /\ s > lastSeq THEN s - lastSeq - 1 ELSE 0

One(b) == IF b THEN 1 ELSE 0

Note(s) ==
  /\ outOfOrder' = outOfOrder + One(Late(s))
  /\ duplicates' = duplicates + One(Repeat(s))
  /\ totalGap' = totalGap + Gap(s)
  /\ firstPacket' = FALSE
  /\ firstSeq' = IF firstPacket THEN s ELSE firstSeq
  /\ seen' = seen \cup {s}

(* Mutant: a late packet moves last_seq_id_ back.                          *)
TrackLatest(s) == Note(s) /\ lastSeq' = s

(* Mutant: the gap is not taken again when the next packet is later.       *)
TrackFromFirst(s) ==
  /\ Note(s)
  /\ lastSeq' = IF firstPacket THEN s ELSE lastSeq

Track(s) ==
  /\ Note(s)
  /\ lastSeq' = IF firstPacket \/ s > lastSeq THEN s ELSE lastSeq

-----------------------------------------------------------------------------
(* Statistics                                                              *)

Sample(v) == [row |-> Len(rows) + 1, us |-> v]

(* Mutant: the new value is kept as well as the one it replaces.           *)
PutAppending(v) ==
  \E j \in 1 .. reservoirCount' :
    reservoir' = IF j <= ReservoirCap THEN Append(reservoir, Sample(v)) ELSE reservoir

(* Algorithm R: random replacement once the reservoir is full.             *)
Put(v) ==
  IF Len(reservoir) < ReservoirCap
  THEN reservoir' = Append(reservoir, Sample(v))
  ELSE \E j \in 1 .. reservoirCount' :
         reservoir' = IF j <= ReservoirCap
                      THEN [reservoir EXCEPT ![j] = Sample(v)] ELSE reservoir

(* Mutant: the warmup counts.                                              *)
MeasureAll(p, e2e, jitter) ==
  /\ acc' = [n |-> acc.n + 1, e2e |-> acc.e2e + e2e, jitter |-> acc.jitter + jitter]
  /\ reservoirCount' = reservoirCount + 1
  /\ Put(e2e)

Measure(p, e2e, jitter) ==
  IF IsWarmup(p) THEN UNCHANGED statVars
  ELSE /\ acc' = [n |-> acc.n + 1, e2e |-> acc.e2e + e2e, jitter |-> acc.jitter + jitter]
       /\ reservoirCount' = reservoirCount + 1
       /\ Put(e2e)

WriteRow(p, late, repeat, gap, e2e, jitter) ==
  /\ rows' = Append(rows, [packet |-> p, late |-> late, repeat |-> repeat,
                           gap |-> gap, e2e |-> e2e, jitter |-> jitter])
  /\ received' = received + 1

-----------------------------------------------------------------------------
(* One iteration of process_loop                                           *)

(* The CRC does not match: a row of zeros, and nothing is measured.        *)
Corrupt(p) ==
  /\ p.fate = "corrupt"
  /\ crcErrors' = crcErrors + 1
  /\ WriteRow(p, FALSE, FALSE, 0, 0, 0)
  /\ UNCHANGED <<lastDelay, orderVars, statVars>>

(* Decompression or deserialisation fails: compute returns zeros with      *)
(* crc_ok set, and process_loop measures them.                             *)
Undecodable(p) ==
  /\ p.fate = "undecodable"
  /\ WriteRow(p, FALSE, FALSE, 0, 0, 0)
  /\ Measure(p, 0, 0)
  /\ UNCHANGED <<lastDelay, crcErrors, orderVars>>

JitterOf(p) == IF IsWarmup(p) THEN 0 ELSE Abs(p.delay - lastDelay)

(* Mutant: the baseline is left where it was.                              *)
BaselineOfFirst(p) == IF IsWarmup(p) \/ lastDelay # 0 THEN lastDelay ELSE p.delay

Baseline(p) == IF IsWarmup(p) THEN lastDelay ELSE p.delay

Decoded(p) ==
  /\ p.fate = "decoded"
  /\ Track(p.seq)
  /\ lastDelay' = Baseline(p)
  /\ WriteRow(p, Late(p.seq), Repeat(p.seq), Gap(p.seq), p.delay, JitterOf(p))
  /\ Measure(p, p.delay, JitterOf(p))
  /\ UNCHANGED crcErrors

Process(p) == Corrupt(p) \/ Undecodable(p) \/ Decoded(p)

Next ==
  /\ Len(rows) < MaxPackets
  /\ \E p \in Packets : Process(p)

Spec == Init /\ [][Next]_vars

-----------------------------------------------------------------------------
(* Properties                                                              *)

Row == [packet : Packets, late : BOOLEAN, repeat : BOOLEAN, gap : Nat, e2e : Int, jitter : Nat]

(* Every variable keeps its type and the reservoir its capacity.           *)
TypeOK ==
  /\ rows \in Seq(Row)
  /\ firstPacket \in BOOLEAN /\ lastSeq \in Ids
  /\ outOfOrder \in Nat /\ duplicates \in Nat /\ totalGap \in Nat
  /\ lastDelay \in Int
  /\ received \in Nat /\ crcErrors \in Nat
  /\ acc \in [n : Nat, e2e : Int, jitter : Nat]
  /\ reservoir \in Seq([row : Nat \ {0}, us : Int]) /\ Len(reservoir) <= ReservoirCap
  /\ reservoirCount \in Nat
  /\ firstSeq \in Ids /\ seen \subseteq Ids

IsDecoded(k) == rows[k].packet.fate = "decoded"

(* No repetition goes unnoticed: of two decoded packets with the same id   *)
(* the later one is a duplicate or out of order, however many packets,     *)
(* corrupt ones among them, came in between.                               *)
RepeatsAreFlagged ==
  \A i, k \in DOMAIN rows :
    i < k /\ IsDecoded(i) /\ IsDecoded(k) /\ rows[i].packet.seq = rows[k].packet.seq
      => rows[k].late \/ rows[k].repeat

(* total_seq_gap balances with the other counters over the range of ids:   *)
(* each id up to the highest was skipped by a gap or was a step forward.   *)
GapsBalance ==
  ~firstPacket =>
    LET decoded == Cardinality({k \in DOMAIN rows : IsDecoded(k)})
    IN lastSeq - firstSeq = totalGap + (decoded - 1 - outOfOrder - duplicates)

(* The ids that are missing were counted as gaps; in excess of them are    *)
(* only ids that came late.                                                *)
Missing == {s \in Ids : firstSeq <= s /\ s <= lastSeq} \ seen

GapsCoverMissing ==
  ~firstPacket =>
    /\ Cardinality(Missing) <= totalGap
    /\ totalGap <= Cardinality(Missing) + outOfOrder

(* The reservoir holds the values of different measured rows, as many of   *)
(* them as there are or as fit: the percentiles are over a real sample.    *)
Measured(k) == ~IsWarmup(rows[k].packet) /\ rows[k].packet.fate # "corrupt"

ReservoirIsASample ==
  /\ Len(reservoir) = IF reservoirCount < ReservoirCap THEN reservoirCount ELSE ReservoirCap
  /\ \A i \in DOMAIN reservoir :
       LET k == reservoir[i].row
       IN /\ k \in DOMAIN rows /\ Measured(k) /\ rows[k].e2e = reservoir[i].us
          /\ \A j \in DOMAIN reservoir : i # j => reservoir[j].row # k

(* The accumulators can be recomputed from packets.csv: they are over its  *)
(* rows with crc_ok and without the warmup, of which the counter that sets *)
(* the odds of the reservoir counts as many.                               *)
AccumulatorsMatchRows ==
  LET measured == {k \in DOMAIN rows : Measured(k)}
  IN /\ acc.n = Cardinality(measured) /\ reservoirCount = acc.n
     /\ acc.e2e = SumFunctionOnSet([k \in DOMAIN rows |-> rows[k].e2e], measured)
     /\ acc.jitter = SumFunctionOnSet([k \in DOMAIN rows |-> rows[k].jitter], measured)

(* The jitter of a packet is against the measured packet decoded last      *)
(* before it, whatever else came in between.                               *)
JitterBase == {k \in DOMAIN rows : IsDecoded(k) /\ ~IsWarmup(rows[k].packet)}

JitterAgainstPrevious ==
  \A i, k \in JitterBase :
    i < k /\ (\A x \in JitterBase : x <= i \/ k <= x)
      => rows[k].jitter = Abs(rows[k].e2e - rows[i].e2e)
===============================================================================
