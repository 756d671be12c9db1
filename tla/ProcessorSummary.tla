--------------------------- MODULE ProcessorSummary ---------------------------
(***************************************************************************)
(* PacketProcessor::finalize: summary.json from what process_loop left     *)
(* behind.  main calls it when the processing thread has ended, after any  *)
(* packet that is the last, so every state of PacketProcessor is one it    *)
(* may be called in.                                                       *)
(***************************************************************************)
EXTENDS PacketProcessor, Statistics

CONSTANT Unknown    \* the count of the sender without a sentinel

ASSUME SummaryAssumption == \A n \in 1 .. ReservoirCap : Scale % n = 0

(* In percent of a message; below zero when more came than were sent.      *)
LossPct(sent) ==
  IF sent = Unknown \/ sent = 0 THEN [of |-> 1, lost |-> 0]
  ELSE [of |-> sent, lost |-> 100 * (sent - received)]

Finalize(sent, overflow, timeouts) ==
  [msgs_sent |-> sent, msgs_received |-> received,
   out_of_order_count |-> outOfOrder, duplicate_count |-> duplicates,
   crc_error_count |-> crcErrors, total_seq_gap |-> totalGap,
   overflow_count |-> overflow, fragment_timeout_count |-> timeouts,
   packet_loss_pct |-> LossPct(sent),
   e2e |-> Compute([i \in 1 .. Len(reservoir) |-> reservoir[i].us])]

(* The end-to-end statistics of summary.json are what the analyzer finds   *)
(* when it computes them again from packets.csv: over all rows with crc_ok *)
(* and without the warmup while these fit the reservoir, within the range  *)
(* of these rows beyond, and the mean is the one the accumulator kept      *)
(* beside the reservoir says.                                              *)
SummaryIsOfMeasuredRows ==
  LET ks == SetToSeq({k \in DOMAIN rows : Measured(k)})
      whole == Compute([i \in DOMAIN ks |-> rows[ks[i]].e2e])
      e2e == Finalize(Unknown, 0, 0).e2e
  IN /\ Len(ks) <= ReservoirCap => e2e = whole /\ e2e.mean * acc.n = Scale * acc.e2e
     /\ whole.min <= e2e.min /\ e2e.max <= whole.max
     /\ 1000 * e2e.min <= e2e.p50 /\ e2e.p999 <= 1000 * e2e.max

(* As the glossary defines jitter, the one in summary.json is over the     *)
(* differences of consecutive messages in sequence order: where the rows   *)
(* are in that order and the reservoir holds them all, over their jitter   *)
(* column without its first value, which has no message before it.         *)
InSequence == \A i, k \in DOMAIN rows : i < k => rows[i].packet.seq < rows[k].packet.seq

JitterIsOfConsecutive ==
  LET n == Len(rows)
  IN /\ n \in 2 .. ReservoirCap /\ InSequence
     /\ \A k \in 1 .. n : Measured(k) /\ IsDecoded(k)
     => Finalize(Unknown, 0, 0).e2e.jitter =
          [sum |-> SumFunctionOnSet([k \in 1 .. n |-> rows[k].jitter], 2 .. n),
           steps |-> n - 1]
===============================================================================
