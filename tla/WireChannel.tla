----------------------------- MODULE WireChannel -----------------------------
(***************************************************************************)
(* What the receiver may rely on of a transport: a wire message it is      *)
(* handed was sent whole, and no more often than the network can copy it.  *)
(* Messages may be lost and may come in any order.                         *)
(***************************************************************************)
EXTENDS Naturals

CONSTANTS Wires,    \* the wire messages, the sentinel among them
          Copies    \* how often the network may deliver one

VARIABLES sent,       \* the messages do_send completed
          delivered   \* how often each was handed to on_wire_bytes

Init == sent = {} /\ delivered = [w \in Wires |-> 0]

Send(w) == sent' = sent \cup {w} /\ UNCHANGED delivered

Deliver(w) ==
  /\ w \in sent
  /\ delivered[w] < Copies
  /\ delivered' = [delivered EXCEPT ![w] = @ + 1]
  /\ UNCHANGED sent

Next == \E w \in Wires : Send(w) \/ Deliver(w)

Spec == Init /\ [][Next]_<<sent, delivered>>
===============================================================================
