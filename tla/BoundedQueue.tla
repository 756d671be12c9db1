----------------------------- MODULE BoundedQueue -----------------------------
(***************************************************************************)
(* BoundedBlockingQueue<T> (include/pbt/core/BoundedBlockingQueue.hpp) at  *)
(* the grain of its mutex and its condition variable.                      *)
(*                                                                         *)
(* Producers call try_push, which only TRIES the lock: it gives up when    *)
(* any other thread is inside the queue, full or not.  Consumers call pop  *)
(* in a loop until it returns nullopt, as PacketProcessor::process_loop    *)
(* does.  Controllers call stop, reset and size/empty.  What happens       *)
(* between lock and unlock is one step, taken while mu names the thread,   *)
(* so that the moments at which a try_lock can fail are kept.              *)
(***************************************************************************)
EXTENDS Naturals, Sequences, FiniteSets

CONSTANTS Producers, Consumers, Controllers,  \* threads, by what they call
          Nobody,    \* the owner of an unlocked mutex
          Capacity,  \* capacity_
          MaxCalls   \* bound: calls made by each producer and controller

Threads == Producers \cup Consumers \cup Controllers

ASSUME CapacityAssumption == Capacity \in Nat /\ MaxCalls \in Nat
ASSUME ThreadsAssumption ==
  /\ IsFiniteSet(Consumers)
  /\ Producers \cap Consumers = {}
  /\ Producers \cap Controllers = {}
  /\ Consumers \cap Controllers = {}
  /\ Nobody \notin Threads

VARIABLES buf,       \* buf_
          stopped,   \* stopped_
          mu,        \* owner of mu_
          pc,        \* what each thread is doing
          calls,     \* calls made so far by each producer and controller
          accepted,  \* history: items for which try_push returned true
          removed,   \* history: items that left buf, by pop or by reset
          taken      \* history: the items pop returned, per consumer

vars == <<buf, stopped, mu, pc, calls, accepted, removed, taken>>

Callers == Producers \cup Controllers
Items == Producers \X (1 .. MaxCalls)

(* A thread at one of these points owns mu_.                               *)
Holding == {"pushing", "checking", "stopping", "resetting", "sizing"}

Points == Holding \cup {"idle", "waiting", "woken", "done", "notifying"}

(* Consumers asleep in cv_.wait, and consumers inside pop that will look   *)
(* (again) at the predicate.                                               *)
Waiting == {c \in Consumers : pc[c] = "waiting"}
Looking == {c \in Consumers : pc[c] \in {"woken", "checking"}}

Init ==
  /\ buf = <<>>
  /\ stopped = FALSE
  /\ mu = Nobody
  /\ pc = [t \in Threads |-> "idle"]
  /\ calls = [t \in Callers |-> 0]
  /\ accepted = <<>>
  /\ removed = <<>>
  /\ taken = [c \in Consumers |-> <<>>]

-----------------------------------------------------------------------------
(* Lock and unlock                                                         *)

Acquire(t, from, at) ==
  /\ pc[t] = from
  /\ mu = Nobody
  /\ mu' = t
  /\ pc' = [pc EXCEPT ![t] = at]

Release(t, to) ==
  /\ mu' = Nobody
  /\ pc' = [pc EXCEPT ![t] = to]

Count(t) ==
  /\ calls[t] < MaxCalls
  /\ calls' = [calls EXCEPT ![t] = @ + 1]

(* Mutant: notify only when the queue was empty, a common "optimisation".  *)
WakeOneIfWasEmpty(p) ==
  /\ mu' = Nobody
  /\ \/ /\ Waiting = {} \/ buf # <<>>
        /\ pc' = [pc EXCEPT ![p] = "idle"]
     \/ /\ buf = <<>>
        /\ \E c \in Waiting : pc' = [pc EXCEPT ![p] = "idle", ![c] = "woken"]

(* cv_.notify_one under the lock, then the unlock at the end of try_push.  *)
WakeOneAndRelease(p) ==
  /\ mu' = Nobody
  /\ \/ /\ Waiting = {}
        /\ pc' = [pc EXCEPT ![p] = "idle"]
     \/ \E c \in Waiting : pc' = [pc EXCEPT ![p] = "idle", ![c] = "woken"]

-----------------------------------------------------------------------------
(* try_push                                                                *)

(* The try_to_lock fails: the item is dropped although there may be room.  *)
PushContended(p) ==
  /\ pc[p] = "idle"
  /\ mu # Nobody
  /\ Count(p)
  /\ UNCHANGED <<buf, stopped, mu, pc, accepted, removed, taken>>

PushLock(p) ==
  /\ Acquire(p, "idle", "pushing")
  /\ Count(p)
  /\ UNCHANGED <<buf, stopped, accepted, removed, taken>>

PushFull(p) ==
  /\ pc[p] = "pushing"
  /\ Len(buf) >= Capacity
  /\ Release(p, "idle")
  /\ UNCHANGED <<buf, stopped, calls, accepted, removed, taken>>

PushItem(p) ==
  /\ pc[p] = "pushing"
  /\ Len(buf) < Capacity
  /\ buf' = Append(buf, <<p, calls[p]>>)
  /\ accepted' = Append(accepted, <<p, calls[p]>>)
  /\ WakeOneAndRelease(p)
  /\ UNCHANGED <<stopped, calls, removed, taken>>

-----------------------------------------------------------------------------
(* pop                                                                     *)

PopLock(c) ==
  /\ Acquire(c, "idle", "checking")
  /\ UNCHANGED <<buf, stopped, calls, accepted, removed, taken>>

(* cv_.wait gives the mutex up and sleeps, in one step.                    *)
PopWait(c) ==
  /\ pc[c] = "checking"
  /\ buf = <<>>
  /\ ~stopped
  /\ Release(c, "waiting")
  /\ UNCHANGED <<buf, stopped, calls, accepted, removed, taken>>

SpuriousWakeup(c) ==
  /\ pc[c] = "waiting"
  /\ pc' = [pc EXCEPT ![c] = "woken"]
  /\ UNCHANGED <<buf, stopped, mu, calls, accepted, removed, taken>>

PopRelock(c) ==
  /\ Acquire(c, "woken", "checking")
  /\ UNCHANGED <<buf, stopped, calls, accepted, removed, taken>>

PopItem(c) ==
  /\ pc[c] = "checking"
  /\ buf # <<>>
  /\ buf' = Tail(buf)
  /\ removed' = Append(removed, Head(buf))
  /\ taken' = [taken EXCEPT ![c] = Append(@, Head(buf))]
  /\ Release(c, "idle")
  /\ UNCHANGED <<stopped, calls, accepted>>

(* Mutant: stopped_ is tested before the queue is drained.                 *)
PopEndUndrained(c) ==
  /\ pc[c] = "checking"
  /\ stopped
  /\ Release(c, "done")
  /\ UNCHANGED <<buf, stopped, calls, accepted, removed, taken>>

(* nullopt: the consumer's loop breaks and never pops again.               *)
PopEnd(c) ==
  /\ pc[c] = "checking"
  /\ buf = <<>>
  /\ stopped
  /\ Release(c, "done")
  /\ UNCHANGED <<buf, stopped, calls, accepted, removed, taken>>

-----------------------------------------------------------------------------
(* stop, reset, size and empty                                             *)

StopLock(t) ==
  /\ Acquire(t, "idle", "stopping")
  /\ Count(t)
  /\ UNCHANGED <<buf, stopped, accepted, removed, taken>>

StopSet(t) ==
  /\ pc[t] = "stopping"
  /\ stopped' = TRUE
  /\ Release(t, "notifying")
  /\ UNCHANGED <<buf, calls, accepted, removed, taken>>

(* Mutant: notify_one for notify_all.                                      *)
StopNotifyOne(t) ==
  /\ pc[t] = "notifying"
  /\ \/ Waiting = {} /\ pc' = [pc EXCEPT ![t] = "idle"]
     \/ \E c \in Waiting : pc' = [pc EXCEPT ![t] = "idle", ![c] = "woken"]
  /\ UNCHANGED <<buf, stopped, mu, calls, accepted, removed, taken>>

(* notify_all comes after the lock_guard's scope: others may run between.  *)
StopNotify(t) ==
  /\ pc[t] = "notifying"
  /\ pc' = [u \in Threads |-> IF u = t THEN "idle"
                              ELSE IF u \in Waiting THEN "woken" ELSE pc[u]]
  /\ UNCHANGED <<buf, stopped, mu, calls, accepted, removed, taken>>

ResetLock(t) ==
  /\ Acquire(t, "idle", "resetting")
  /\ Count(t)
  /\ UNCHANGED <<buf, stopped, accepted, removed, taken>>

ResetClear(t) ==
  /\ pc[t] = "resetting"
  /\ buf' = <<>>
  /\ removed' = removed \o buf
  /\ stopped' = FALSE
  /\ Release(t, "idle")
  /\ UNCHANGED <<calls, accepted, taken>>

(* size and empty change nothing, but a try_push that meets them fails.    *)
SizeLock(t) ==
  /\ Acquire(t, "idle", "sizing")
  /\ Count(t)
  /\ UNCHANGED <<buf, stopped, accepted, removed, taken>>

SizeReturn(t) ==
  /\ pc[t] = "sizing"
  /\ Release(t, "idle")
  /\ UNCHANGED <<buf, stopped, calls, accepted, removed, taken>>

-----------------------------------------------------------------------------
Produce(p) == PushContended(p) \/ PushLock(p) \/ PushFull(p) \/ PushItem(p)

Consume(c) == PopLock(c) \/ PopWait(c) \/ PopRelock(c) \/ PopItem(c) \/ PopEnd(c)

Control(t) ==
  \/ StopLock(t)
  \/ StopSet(t)
  \/ StopNotify(t)
  \/ ResetLock(t)
  \/ ResetClear(t)
  \/ SizeLock(t)
  \/ SizeReturn(t)

Next ==
  \/ \E p \in Producers : Produce(p)
  \/ \E c \in Consumers : Consume(c) \/ SpuriousWakeup(c)
  \/ \E t \in Controllers : Control(t)

Spec == Init /\ [][Next]_vars

(* A thread that owns the mutex or still has to notify runs on, and the    *)
(* processing thread calls pop again for as long as it gets items.  Nobody *)
(* is obliged to start a try_push, a stop or a reset, and std::mutex       *)
(* promises no more than WF to a thread that blocks on it.                 *)
Fairness ==
  /\ \A p \in Producers : WF_vars(PushFull(p) \/ PushItem(p))
  /\ \A c \in Consumers : WF_vars(Consume(c))
  /\ \A t \in Controllers : WF_vars(StopSet(t) \/ StopNotify(t) \/ ResetClear(t) \/ SizeReturn(t))

FairSpec == Spec /\ Fairness

-----------------------------------------------------------------------------
(* Properties                                                              *)

(* Every variable stays in its type and the deque never exceeds capacity_. *)
TypeOK ==
  /\ buf \in Seq(Items) /\ Len(buf) <= Capacity
  /\ stopped \in BOOLEAN
  /\ mu \in Threads \cup {Nobody}
  /\ pc \in [Threads -> Points]
  /\ calls \in [Callers -> 0 .. MaxCalls]
  /\ accepted \in Seq(Items)
  /\ removed \in Seq(Items)
  /\ taken \in [Consumers -> Seq(Items)]

(* The items that left and the items still queued are, in this order, the  *)
(* items try_push accepted: none is lost, repeated or overtaken.           *)
FifoOrder == accepted = removed \o buf

(* No lost wakeup: while a consumer sleeps, every queued item has a        *)
(* consumer of its own that is about to look at the queue.  notify_one is  *)
(* called once per push and is wasted when nobody waits, so this relates   *)
(* pushes, sleepers and consumers that overtake a woken one.               *)
NoLostWakeup == Waiting # {} => Len(buf) <= Cardinality(Looking)

(* stop() sets the flag under the lock and notifies after it: a consumer   *)
(* asleep on a stopped queue still has that notify_all coming.             *)
StopReachesSleepers ==
  stopped /\ Waiting # {} => \E t \in Controllers : pc[t] = "notifying"

(* The queue with its mutex and condition variable is a lossy FIFO.        *)
Fifo == INSTANCE LossyFifo WITH
          chan <- buf, closed <- stopped,
          ended <- {c \in Consumers : pc[c] = "done"}

ImplementsFifo == Fifo!Spec

(* After a stop (that no reset undoes) each consumer drains what is left   *)
(* and its pop returns nullopt: the join in ~PacketProcessor ends.         *)
StopEndsConsumers ==
  \A c \in Consumers : stopped ~> (pc[c] = "done" \/ ~stopped)
=============================================================================
