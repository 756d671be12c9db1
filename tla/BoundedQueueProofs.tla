-------------------------- MODULE BoundedQueueProofs --------------------------
(***************************************************************************)
(* The properties of BoundedQueue for every number of producers, consumers *)
(* and controllers, every capacity and every bound on the calls.           *)
(***************************************************************************)
EXTENDS BoundedQueue, FiniteSetTheorems, SequenceTheorems, TLAPS

USE DEF Threads, Callers, Items

(* A producer inside try_push has been counted, so its item is an Item.    *)
PushCounted ==
  \A p \in Producers : pc[p] = "pushing" => calls[p] \in 1 .. MaxCalls

TypeInv == TypeOK /\ PushCounted

(* TypeInv is inductive.                                                   *)
LEMMA TypeInvInit == Init => TypeInv
<1> SUFFICES ASSUME Init PROVE TypeInv
  OBVIOUS
<1>1. <<>> \in Seq(Items) /\ Len(<<>>) = 0
  OBVIOUS
<1>2. buf \in Seq(Items) /\ Len(buf) <= Capacity
  BY <1>1, CapacityAssumption DEF Init
<1>3. /\ accepted \in Seq(Items)
      /\ removed \in Seq(Items)
      /\ taken \in [Consumers -> Seq(Items)]
  BY <1>1 DEF Init
<1>4. calls \in [Callers -> 0 .. MaxCalls]
  BY CapacityAssumption DEF Init
<1>5. pc \in [Threads -> Points] /\ PushCounted
  BY DEF Init, Points, PushCounted
<1> QED
  BY <1>2, <1>3, <1>4, <1>5 DEF Init, TypeInv, TypeOK

LEMMA TypeInvStep == TypeInv /\ [Next]_vars => TypeInv'
<1> SUFFICES ASSUME TypeInv, [Next]_vars PROVE TypeInv'
  OBVIOUS
<1> USE CapacityAssumption, ThreadsAssumption
    DEF TypeInv, TypeOK, PushCounted, Holding, Points
<1>1. CASE UNCHANGED vars
  BY <1>1 DEF vars
<1>2. ASSUME NEW p \in Producers, Produce(p) PROVE TypeInv'
  <2>1. CASE PushContended(p)
    <3>1. calls' \in [Callers -> 0 .. MaxCalls]
      BY <2>1 DEF PushContended, Count
    <3>2. \A q \in Producers : q # p => calls'[q] = calls[q]
      BY <2>1 DEF PushContended, Count
    <3>3. PushCounted'
      BY <2>1, <3>2 DEF PushContended
    <3> QED
      BY <2>1, <3>1, <3>3 DEF PushContended
  <2>2. CASE PushLock(p)
    <3>1. calls[p] \in 0 .. MaxCalls /\ calls[p] < MaxCalls
      BY <2>2 DEF PushLock, Count
    <3>2. calls' \in [Callers -> 0 .. MaxCalls] /\ calls'[p] \in 1 .. MaxCalls
      BY <2>2, <3>1 DEF PushLock, Count
    <3>3. \A q \in Producers : q # p => pc'[q] = pc[q] /\ calls'[q] = calls[q]
      BY <2>2 DEF PushLock, Acquire, Count
    <3>4. PushCounted'
      BY <3>2, <3>3
    <3> QED
      BY <2>2, <3>2, <3>4 DEF PushLock, Acquire
  <2>3. CASE PushFull(p)
    BY <2>3 DEF PushFull, Release
  <2>4. CASE PushItem(p)
    <3>1. <<p, calls[p]>> \in Items
      BY <2>4 DEF PushItem
    <3>2. buf' \in Seq(Items) /\ Len(buf') <= Capacity /\ accepted' \in Seq(Items)
      BY <2>4, <3>1, AppendProperties DEF PushItem
    <3>3. /\ mu' = Nobody
          /\ pc' \in [Threads -> Points]
          /\ \A q \in Producers : pc'[q] = "pushing" => pc[q] = "pushing"
      <4>1. CASE Waiting = {} /\ pc' = [pc EXCEPT ![p] = "idle"]
        BY <2>4, <4>1 DEF PushItem, WakeOneAndRelease
      <4>2. CASE \E c \in Waiting : pc' = [pc EXCEPT ![p] = "idle", ![c] = "woken"]
        BY <2>4, <4>2 DEF PushItem, WakeOneAndRelease, Waiting
      <4> QED
        BY <2>4, <4>1, <4>2 DEF PushItem, WakeOneAndRelease
    <3> QED
      BY <2>4, <3>2, <3>3 DEF PushItem
  <2> QED
    BY <1>2, <2>1, <2>2, <2>3, <2>4 DEF Produce
<1>3. ASSUME NEW c \in Consumers, Consume(c) \/ SpuriousWakeup(c) PROVE TypeInv'
  <2>1. CASE PopLock(c)
    BY <2>1 DEF PopLock, Acquire
  <2>2. CASE PopWait(c)
    BY <2>2 DEF PopWait, Release
  <2>3. CASE PopRelock(c)
    BY <2>3 DEF PopRelock, Acquire
  <2>4. CASE PopItem(c)
    <3>1. Head(buf) \in Items /\ Tail(buf) \in Seq(Items) /\ Len(Tail(buf)) <= Capacity
      BY SMTT(30), <2>4, HeadTailProperties DEF PopItem
    <3>2. removed' \in Seq(Items) /\ taken' \in [Consumers -> Seq(Items)]
      BY <2>4, <3>1, AppendProperties DEF PopItem
    <3> QED
      BY <2>4, <3>1, <3>2 DEF PopItem, Release
  <2>5. CASE PopEnd(c)
    BY <2>5 DEF PopEnd, Release
  <2>6. CASE SpuriousWakeup(c)
    BY <2>6 DEF SpuriousWakeup
  <2> QED
    BY <1>3, <2>1, <2>2, <2>3, <2>4, <2>5, <2>6 DEF Consume
<1>4. ASSUME NEW t \in Controllers, Control(t) PROVE TypeInv'
  <2>1. CASE StopLock(t)
    BY <2>1 DEF StopLock, Acquire, Count
  <2>2. CASE StopSet(t)
    BY <2>2 DEF StopSet, Release
  <2>3. CASE StopNotify(t)
    BY <2>3 DEF StopNotify, Waiting
  <2>4. CASE ResetLock(t)
    BY <2>4 DEF ResetLock, Acquire, Count
  <2>5. CASE ResetClear(t)
    <3>1. removed' \in Seq(Items)
      BY <2>5, ConcatProperties DEF ResetClear
    <3>2. <<>> \in Seq(Items) /\ Len(<<>>) <= Capacity
      OBVIOUS
    <3> QED
      BY <2>5, <3>1, <3>2 DEF ResetClear, Release
  <2>6. CASE SizeLock(t)
    BY <2>6 DEF SizeLock, Acquire, Count
  <2>7. CASE SizeReturn(t)
    BY <2>7 DEF SizeReturn, Release
  <2> QED
    BY <1>4, <2>1, <2>2, <2>3, <2>4, <2>5, <2>6, <2>7 DEF Control
<1> QED
  BY <1>1, <1>2, <1>3, <1>4 DEF Next

(* Every reachable state is well typed and within the queue's capacity.    *)
THEOREM TypeCorrect == Spec => []TypeOK
<1>1. TypeInv => TypeOK
  BY DEF TypeInv
<1> QED
  BY TypeInvInit, TypeInvStep, <1>1, PTL DEF Spec

LEMMA TypeInvAlways == Spec => []TypeInv
BY TypeInvInit, TypeInvStep, PTL DEF Spec

-----------------------------------------------------------------------------
(* First in, first out                                                     *)

LEMMA HeadMovesOver ==
  ASSUME NEW S, NEW s \in Seq(S), NEW t \in Seq(S), t # <<>>
  PROVE  Append(s, Head(t)) \o Tail(t) = s \o t
<1>1. Head(t) \in S /\ Tail(t) \in Seq(S) /\ <<Head(t)>> \in Seq(S)
  BY HeadTailProperties
<1>2. <<Head(t)>> \o Tail(t) = t
  <2>1. <<Head(t)>> \o Tail(t) \in Seq(S)
    BY <1>1, ConcatProperties
  <2>2. Len(<<Head(t)>> \o Tail(t)) = Len(t)
    BY <1>1, ConcatProperties, HeadTailProperties
  <2>3. \A i \in 1 .. Len(t) : (<<Head(t)>> \o Tail(t))[i] = t[i]
    BY <1>1
  <2> QED
    BY <2>1, <2>2, <2>3, SeqEqual
<1>3. Append(s, Head(t)) = s \o <<Head(t)>>
  BY <1>1, AppendIsConcat
<1> QED
  BY SMTT(30), <1>1, <1>2, <1>3, ConcatAssociative

LEMMA FifoInit == Init => FifoOrder
BY ConcatEmptySeq DEF Init, FifoOrder

LEMMA FifoStep == TypeInv /\ FifoOrder /\ [Next]_vars => FifoOrder'
<1> SUFFICES ASSUME TypeInv, FifoOrder, [Next]_vars PROVE FifoOrder'
  OBVIOUS
<1>1. buf \in Seq(Items) /\ removed \in Seq(Items)
  BY DEF TypeInv, TypeOK
<1>2. CASE UNCHANGED <<buf, accepted, removed>>
  BY <1>2 DEF FifoOrder
<1>3. ASSUME NEW p \in Producers, PushItem(p) PROVE FifoOrder'
  <2> DEFINE i == <<p, calls[p]>>
  <2>1. i \in Items
    BY <1>3 DEF PushItem, TypeInv, PushCounted
  <2>2. accepted = removed \o buf /\ accepted' = Append(accepted, i)
        /\ removed' = removed /\ buf' = Append(buf, i)
    BY <1>3 DEF PushItem, FifoOrder
  <2>3. Append(removed \o buf, i) = removed \o Append(buf, i)
    <3> HIDE DEF i, Items
    <3>1. removed \o buf \in Seq(Items) /\ <<i>> \in Seq(Items)
      BY <1>1, <2>1, ConcatProperties
    <3>2. Append(removed \o buf, i) = (removed \o buf) \o <<i>>
      BY <2>1, <3>1, AppendIsConcat
    <3>3. Append(buf, i) = buf \o <<i>>
      BY <1>1, <2>1, AppendIsConcat
    <3> QED
      BY <1>1, <3>1, <3>2, <3>3, ConcatAssociative
  <2> QED
    BY <2>2, <2>3 DEF FifoOrder
<1>4. ASSUME NEW c \in Consumers, PopItem(c) PROVE FifoOrder'
  <2>1. Append(removed, Head(buf)) \o Tail(buf) = removed \o buf
    BY <1>1, <1>4, HeadMovesOver DEF PopItem
  <2> QED
    BY <1>4, <2>1 DEF PopItem, FifoOrder
<1>5. ASSUME NEW t \in Controllers, ResetClear(t) PROVE FifoOrder'
  <2>1. (removed \o buf) \o <<>> = removed \o buf
    BY <1>1, ConcatProperties, ConcatEmptySeq
  <2> QED
    BY <1>5, <2>1 DEF ResetClear, FifoOrder
<1>6. CASE \E p \in Producers : Produce(p)
  BY <1>2, <1>3, <1>6 DEF Produce, PushContended, PushLock, PushFull
<1>7. CASE \E c \in Consumers : Consume(c) \/ SpuriousWakeup(c)
  BY <1>2, <1>4, <1>7 DEF Consume, PopLock, PopWait, PopRelock, PopEnd, SpuriousWakeup
<1>8. CASE \E t \in Controllers : Control(t)
  BY <1>2, <1>5, <1>8
     DEF Control, StopLock, StopSet, StopNotify, ResetLock, SizeLock, SizeReturn
<1>9. CASE UNCHANGED vars
  BY <1>2, <1>9 DEF vars
<1> QED
  BY <1>6, <1>7, <1>8, <1>9 DEF Next

(* Whatever the interleaving of pushes, pops, stops and resets, the items  *)
(* accepted by try_push leave the queue in that order, each once.          *)
THEOREM FifoCorrect == Spec => []FifoOrder
BY FifoInit, FifoStep, TypeInvAlways, PTL DEF Spec

-----------------------------------------------------------------------------
(* A stop reaches the sleepers                                             *)

LEMMA StopInit == Init => StopReachesSleepers
BY DEF Init, StopReachesSleepers

LEMMA StopStep ==
  TypeInv /\ StopReachesSleepers /\ [Next]_vars => StopReachesSleepers'
<1> SUFFICES ASSUME TypeInv, StopReachesSleepers, [Next]_vars
             PROVE  StopReachesSleepers'
  OBVIOUS
<1> USE ThreadsAssumption DEF StopReachesSleepers, Waiting
<1>t. pc \in [Threads -> Points]
  BY DEF TypeInv, TypeOK
<1>1. CASE UNCHANGED vars
  BY <1>1 DEF vars
<1>2. ASSUME NEW p \in Producers, Produce(p) PROVE StopReachesSleepers'
  <2>1. CASE PushItem(p)
    <3>1. CASE Waiting = {} /\ pc' = [pc EXCEPT ![p] = "idle"]
      <4>1. Waiting' = {}
        BY <1>t, <3>1
      <4> QED
        BY <4>1
    <3>2. ASSUME NEW c \in Waiting, pc' = [pc EXCEPT ![p] = "idle", ![c] = "woken"]
          PROVE  StopReachesSleepers'
      <4>1. c \in Consumers /\ pc[c] = "waiting"
        OBVIOUS
      <4>2. stopped' = stopped /\ Waiting' \subseteq Waiting
        BY <1>t, <2>1, <3>2, <4>1 DEF PushItem
      <4>3. \A t \in Controllers : pc'[t] = pc[t]
        BY <1>t, <3>2, <4>1
      <4> QED
        BY <4>2, <4>3
    <3> QED
      BY <2>1, <3>1, <3>2 DEF PushItem, WakeOneAndRelease
  <2>2. CASE ~PushItem(p)
    <3>1. stopped' = stopped /\ Waiting' \subseteq Waiting
      BY <1>t, <1>2, <2>2 DEF Produce, PushContended, PushLock, PushFull, Acquire, Release
    <3>2. \A t \in Controllers : pc'[t] = pc[t]
      BY <1>t, <1>2, <2>2 DEF Produce, PushContended, PushLock, PushFull, Acquire, Release
    <3> QED
      BY <3>1, <3>2
  <2> QED
    BY <2>1, <2>2
<1>3. ASSUME NEW c \in Consumers, Consume(c) \/ SpuriousWakeup(c)
      PROVE  StopReachesSleepers'
  <2>1. stopped' = stopped /\ \A t \in Controllers : pc'[t] = pc[t]
    BY <1>t, <1>3 DEF Consume, PopLock, PopWait, PopRelock, PopItem, PopEnd,
                      SpuriousWakeup, Acquire, Release
  <2>2. CASE PopWait(c)
    BY <2>1, <2>2 DEF PopWait
  <2>3. CASE ~PopWait(c)
    <3>1. Waiting' \subseteq Waiting
      BY <1>t, <1>3, <2>3 DEF Consume, PopLock, PopRelock, PopItem, PopEnd,
                              SpuriousWakeup, Acquire, Release
    <3> QED
      BY <2>1, <3>1
  <2> QED
    BY <2>2, <2>3
<1>4. ASSUME NEW t \in Controllers, Control(t) PROVE StopReachesSleepers'
  <2>1. CASE StopSet(t)
    BY <1>t, <2>1 DEF StopSet, Release
  <2>2. CASE StopNotify(t)
    BY <1>t, <2>2 DEF StopNotify
  <2>3. CASE ResetClear(t)
    BY <2>3 DEF ResetClear
  <2>4. CASE StopLock(t) \/ ResetLock(t) \/ SizeLock(t) \/ SizeReturn(t)
    <3>1. /\ stopped' = stopped
          /\ \A u \in Threads \ {t} : pc'[u] = pc[u]
          /\ pc[t] # "notifying"
      BY <1>t, <2>4 DEF StopLock, ResetLock, SizeLock, SizeReturn, Acquire, Release
    <3> QED
      BY <3>1
  <2> QED
    BY <1>4, <2>1, <2>2, <2>3, <2>4 DEF Control
<1> QED
  BY <1>1, <1>2, <1>3, <1>4 DEF Next

(* A consumer is never left asleep on a stopped queue with no notify_all   *)
(* to come, although stop() notifies after it has given up the mutex.      *)
THEOREM StopReaches == Spec => []StopReachesSleepers
BY StopInit, StopStep, TypeInvAlways, PTL DEF Spec

-----------------------------------------------------------------------------
(* No lost wakeup                                                          *)

LEMMA LookingFinite ==
  /\ IsFiniteSet(Looking) /\ Cardinality(Looking) \in Nat
  /\ IsFiniteSet(Looking') /\ Cardinality(Looking') \in Nat
<1>1. Looking \subseteq Consumers /\ Looking' \subseteq Consumers
  BY DEF Looking
<1>2. IsFiniteSet(Looking) /\ IsFiniteSet(Looking')
  BY <1>1, ThreadsAssumption, FS_Subset
<1> QED
  BY <1>2, FS_CardinalityType

(* A step that queues nothing and puts nobody to sleep keeps the promise.  *)
LEMMA WakeupKept ==
  ASSUME NoLostWakeup, buf' = buf,
         Len(buf) \in Nat, Waiting' \subseteq Waiting, Looking \subseteq Looking'
  PROVE  NoLostWakeup'
<1>1. Cardinality(Looking) <= Cardinality(Looking')
  BY LookingFinite, FS_Subset
<1>2. Waiting' # {} => Len(buf') <= Cardinality(Looking)
  BY DEF NoLostWakeup
<1>3. Waiting' # {} => Len(buf') <= Cardinality(Looking')
  BY <1>1, <1>2, LookingFinite
<1> QED
  BY <1>3 DEF NoLostWakeup

LEMMA WakeupInit == Init => NoLostWakeup
BY ThreadsAssumption DEF Init, NoLostWakeup, Waiting

LEMMA WakeupStep == TypeInv /\ NoLostWakeup /\ [Next]_vars => NoLostWakeup'
<1> SUFFICES ASSUME TypeInv, NoLostWakeup, [Next]_vars PROVE NoLostWakeup'
  OBVIOUS
<1> USE ThreadsAssumption
<1>t. /\ pc \in [Threads -> Points]
      /\ buf \in Seq(Items) /\ Len(buf) \in Nat
  BY LenProperties DEF TypeInv, TypeOK
<1>1. CASE UNCHANGED vars
  BY <1>1, <1>t, WakeupKept DEF vars, Waiting, Looking
<1>2. ASSUME NEW p \in Producers, PushItem(p) PROVE NoLostWakeup'
  <2>1. CASE Waiting = {} /\ pc' = [pc EXCEPT ![p] = "idle"]
    <3>1. Waiting' = {}
      BY <1>t, <2>1 DEF Waiting
    <3> QED
      BY <3>1 DEF NoLostWakeup
  <2>2. ASSUME NEW c \in Waiting, pc' = [pc EXCEPT ![p] = "idle", ![c] = "woken"]
        PROVE  NoLostWakeup'
    <3>1. c \in Consumers /\ pc[c] = "waiting"
      BY DEF Waiting
    <3>2. Looking' = Looking \cup {c} /\ c \notin Looking
      BY <1>t, <2>2, <3>1 DEF Looking
    <3>3. Cardinality(Looking') = Cardinality(Looking) + 1
      BY <3>2, LookingFinite, FS_AddElement
    <3>4. Len(buf') = Len(buf) + 1
      <4>1. <<p, calls[p]>> \in Items
        BY <1>2 DEF PushItem, TypeInv, PushCounted
      <4> QED
        BY <1>t, <1>2, <4>1, AppendProperties DEF PushItem
    <3>5. Len(buf) <= Cardinality(Looking)
      BY <3>1 DEF NoLostWakeup, Waiting
    <3> QED
      BY <1>t, <3>3, <3>4, <3>5, LookingFinite DEF NoLostWakeup
  <2> QED
    BY <1>2, <2>1, <2>2 DEF PushItem, WakeOneAndRelease
<1>3. ASSUME NEW p \in Producers, PushContended(p) \/ PushLock(p) \/ PushFull(p)
      PROVE  NoLostWakeup'
  <2>1. buf' = buf /\ Waiting' \subseteq Waiting /\ Looking \subseteq Looking'
    BY <1>t, <1>3
       DEF PushContended, PushLock, PushFull, Acquire, Release, Waiting, Looking
  <2> QED
    BY <1>t, <2>1, WakeupKept
<1>4. ASSUME NEW c \in Consumers, PopLock(c) \/ PopRelock(c) \/ SpuriousWakeup(c)
      PROVE  NoLostWakeup'
  <2>1. buf' = buf /\ Waiting' \subseteq Waiting /\ Looking \subseteq Looking'
    BY <1>t, <1>4
       DEF PopLock, PopRelock, SpuriousWakeup, Acquire, Waiting, Looking
  <2> QED
    BY <1>t, <2>1, WakeupKept
<1>5. ASSUME NEW c \in Consumers, PopWait(c) \/ PopEnd(c) PROVE NoLostWakeup'
  <2>1. Len(buf') = 0
    BY <1>5 DEF PopWait, PopEnd
  <2> QED
    BY <2>1, LookingFinite DEF NoLostWakeup
<1>6. ASSUME NEW c \in Consumers, PopItem(c) PROVE NoLostWakeup'
  <2>1. Waiting' = Waiting
    BY <1>t, <1>6 DEF PopItem, Release, Waiting
  <2>2. Looking' = Looking \ {c} /\ c \in Looking
    BY <1>t, <1>6 DEF PopItem, Release, Looking
  <2>3. Cardinality(Looking') = Cardinality(Looking) - 1
    BY <2>2, LookingFinite, FS_RemoveElement
  <2>4. Len(buf') = Len(buf) - 1
    BY <1>t, <1>6, HeadTailProperties DEF PopItem
  <2> QED
    BY <1>t, <2>1, <2>3, <2>4, LookingFinite DEF NoLostWakeup
<1>7. ASSUME NEW t \in Controllers, StopNotify(t) PROVE NoLostWakeup'
  <2>1. Waiting' = {}
    BY <1>t, <1>7 DEF StopNotify, Waiting
  <2> QED
    BY <2>1 DEF NoLostWakeup
<1>8. ASSUME NEW t \in Controllers, ResetClear(t) PROVE NoLostWakeup'
  <2>1. Len(buf') = 0
    BY <1>8 DEF ResetClear
  <2> QED
    BY <2>1, LookingFinite DEF NoLostWakeup
<1>9. ASSUME NEW t \in Controllers,
             StopLock(t) \/ StopSet(t) \/ ResetLock(t) \/ SizeLock(t) \/ SizeReturn(t)
      PROVE  NoLostWakeup'
  <2>1. buf' = buf /\ Waiting' \subseteq Waiting /\ Looking \subseteq Looking'
    BY <1>t, <1>9
       DEF StopLock, StopSet, ResetLock, SizeLock, SizeReturn, Acquire, Release,
           Waiting, Looking
  <2> QED
    BY <1>t, <2>1, WakeupKept
<1> QED
  BY <1>1, <1>2, <1>3, <1>4, <1>5, <1>6, <1>7, <1>8, <1>9
     DEF Next, Produce, Consume, Control

(* For any number of consumers: a push that notifies nobody, a consumer    *)
(* that overtakes a woken one and a spurious wakeup never leave an item    *)
(* behind with everybody asleep.                                           *)
THEOREM WakeupsCorrect == Spec => []NoLostWakeup
BY WakeupInit, WakeupStep, TypeInvAlways, PTL DEF Spec

-----------------------------------------------------------------------------
(* BoundedQueue implements LossyFifo                                       *)

LEMMA FifoRefinesInit == Init => Fifo!Init
BY ThreadsAssumption DEF Init, Fifo!Init

LEMMA FifoRefinesStep == TypeInv /\ [Next]_vars => [Fifo!Next]_(Fifo!fifoVars)
<1> SUFFICES ASSUME TypeInv, [Next]_vars PROVE [Fifo!Next]_(Fifo!fifoVars)
  OBVIOUS
<1> DEFINE Ended == {c \in Consumers : pc[c] = "done"}
<1> USE ThreadsAssumption
<1>t. pc \in [Threads -> Points]
  BY DEF TypeInv, TypeOK
<1>1. CASE UNCHANGED vars
  BY <1>1 DEF vars, Fifo!fifoVars
<1>2. ASSUME NEW p \in Producers, Produce(p) PROVE [Fifo!Next]_(Fifo!fifoVars)
  <2>1. CASE PushItem(p)
    <3>1. Ended' = Ended
      BY <1>t, <2>1 DEF PushItem, WakeOneAndRelease, Waiting
    <3>2. <<p, calls[p]>> \in Items
      BY <2>1 DEF PushItem, TypeInv, PushCounted
    <3>3. Fifo!Accept(<<p, calls[p]>>)
      BY <2>1, <3>1 DEF PushItem, Fifo!Accept
    <3> QED
      BY <3>2, <3>3 DEF Fifo!Next
  <2>2. CASE PushContended(p)
    BY <2>2 DEF PushContended, Fifo!fifoVars
  <2>3. CASE PushLock(p) \/ PushFull(p)
    <3>1. Ended' = Ended /\ UNCHANGED <<buf, stopped, taken>>
      BY <1>t, <2>3 DEF PushLock, PushFull, Acquire, Release
    <3> QED
      BY <3>1 DEF Fifo!fifoVars
  <2> QED
    BY <1>2, <2>1, <2>2, <2>3 DEF Produce
<1>3. ASSUME NEW c \in Consumers, Consume(c) \/ SpuriousWakeup(c)
      PROVE  [Fifo!Next]_(Fifo!fifoVars)
  <2>1. CASE PopItem(c)
    <3>1. Ended' = Ended /\ c \notin Ended
      BY <1>t, <2>1 DEF PopItem, Release
    <3>2. Fifo!Take(c)
      BY <2>1, <3>1 DEF PopItem, Fifo!Take
    <3> QED
      BY <3>2 DEF Fifo!Next
  <2>2. CASE PopEnd(c)
    <3>1. Ended' = Ended \cup {c} /\ c \notin Ended
      BY <1>t, <2>2 DEF PopEnd, Release, Points, Holding
    <3>2. Fifo!Finish(c)
      BY <2>2, <3>1 DEF PopEnd, Fifo!Finish
    <3> QED
      BY <3>2 DEF Fifo!Next
  <2>3. CASE PopLock(c) \/ PopWait(c) \/ PopRelock(c) \/ SpuriousWakeup(c)
    <3>1. Ended' = Ended /\ UNCHANGED <<buf, stopped, taken>>
      BY <1>t, <2>3 DEF PopLock, PopWait, PopRelock, SpuriousWakeup, Acquire, Release
    <3> QED
      BY <3>1 DEF Fifo!fifoVars
  <2> QED
    BY <1>3, <2>1, <2>2, <2>3 DEF Consume
<1>4. ASSUME NEW t \in Controllers, Control(t) PROVE [Fifo!Next]_(Fifo!fifoVars)
  <2>1. Ended' = Ended
    <3>1. CASE StopNotify(t)
      BY <1>t, <3>1 DEF StopNotify, Waiting
    <3> QED
      BY <1>t, <1>4, <3>1 DEF Control, StopLock, StopSet, ResetLock, ResetClear,
                              SizeLock, SizeReturn, Acquire, Release
  <2>2. CASE StopSet(t)
    BY <2>1, <2>2 DEF StopSet, Fifo!Close, Fifo!Next
  <2>3. CASE ResetClear(t)
    BY <2>1, <2>3 DEF ResetClear, Fifo!Clear, Fifo!Next
  <2>4. CASE ~StopSet(t) /\ ~ResetClear(t)
    <3>1. UNCHANGED <<buf, stopped, taken>>
      BY <1>4, <2>4 DEF Control, StopLock, StopNotify, ResetLock, SizeLock, SizeReturn
    <3> QED
      BY <2>1, <3>1 DEF Fifo!fifoVars
  <2> QED
    BY <2>2, <2>3, <2>4
<1> QED
  BY <1>1, <1>2, <1>3, <1>4 DEF Next

(* Seen from outside, the deque with its mutex and condition variable is a *)
(* lossy bounded FIFO: pop returns each accepted item once and in order,   *)
(* and nullopt only when the queue is stopped and drained.                 *)
THEOREM QueueImplementsFifo == Spec => ImplementsFifo
BY FifoRefinesInit, FifoRefinesStep, TypeInvAlways, PTL
   DEF Spec, ImplementsFifo, Fifo!Spec
=============================================================================
