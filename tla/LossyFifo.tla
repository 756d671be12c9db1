------------------------------ MODULE LossyFifo ------------------------------
(***************************************************************************)
(* What BoundedBlockingQueue promises to the receiver's threads            *)
(* (include/pbt/core/BoundedBlockingQueue.hpp 9-11 and 17-51): a bounded   *)
(* FIFO channel that may refuse an item, that delivers each accepted item  *)
(* to exactly one pop in the order of acceptance, and that lets a consumer *)
(* finish only when the channel is closed AND drained.  No mutex, no       *)
(* condition variable.                                                     *)
(***************************************************************************)
EXTENDS Naturals, Sequences

CONSTANTS Items,      \* what producers may offer
          Consumers,  \* the threads that pop
          Capacity    \* constructor argument (main.cpp 286)

VARIABLES chan,    \* accepted and not yet taken, oldest first
          closed,  \* stop() was called and not undone by reset()
          taken,   \* taken[c] : the items pop returned to c, in order
          ended    \* the consumers whose pop returned nullopt

fifoVars == <<chan, closed, taken, ended>>

Init ==
  /\ chan = <<>>
  /\ closed = FALSE
  /\ taken = [c \in Consumers |-> <<>>]
  /\ ended = {}

(* try_push returned true: nothing forbids it once the channel is closed.  *)
(* A refused item leaves the channel as it is, a stuttering step here.     *)
Accept(i) ==
  /\ Len(chan) < Capacity
  /\ chan' = Append(chan, i)
  /\ UNCHANGED <<closed, taken, ended>>

(* pop returned an item.                                                   *)
Take(c) ==
  /\ c \notin ended
  /\ chan # <<>>
  /\ taken' = [taken EXCEPT ![c] = Append(@, Head(chan))]
  /\ chan' = Tail(chan)
  /\ UNCHANGED <<closed, ended>>

(* Mutant: a closed channel ends a consumer, drained or not.               *)
FinishUndrained(c) ==
  /\ c \notin ended
  /\ closed
  /\ ended' = ended \cup {c}
  /\ UNCHANGED <<chan, closed, taken>>

(* pop returned nullopt: only a closed and drained channel ends a consumer *)
Finish(c) ==
  /\ c \notin ended
  /\ closed
  /\ chan = <<>>
  /\ ended' = ended \cup {c}
  /\ UNCHANGED <<chan, closed, taken>>

Close ==
  /\ closed' = TRUE
  /\ UNCHANGED <<chan, taken, ended>>

(* reset(): the items still queued are discarded and the channel reopens.  *)
Clear ==
  /\ chan' = <<>>
  /\ closed' = FALSE
  /\ UNCHANGED <<taken, ended>>

Next ==
  \/ \E i \in Items : Accept(i)
  \/ \E c \in Consumers : Take(c) \/ Finish(c)
  \/ Close
  \/ Clear

Spec == Init /\ [][Next]_fifoVars
=============================================================================
