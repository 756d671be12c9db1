-------------------------- MODULE PacketProcessorProofs --------------------------
(***************************************************************************)
(* The statistics over any samples, the payloads that come through CBOR,   *)
(* and the properties of PacketProcessor for every range of ids, every     *)
(* delay, every capacity of the reservoir and any number of packets.       *)
(***************************************************************************)
EXTENDS ProcessorSummary, PureFunctions, FiniteSetTheorems, SequenceTheorems, TLAPS

-----------------------------------------------------------------------------
(* Induction over the natural numbers and sums over finite sets.  What the *)
(* provers cannot instantiate is a principle with a predicate as parameter;*)
(* with the set of the numbers that have the property it follows from the  *)
(* pigeonhole principle.                                                   *)

LEMMA Induction ==
  ASSUME NEW S, 0 \in S, \A n \in Nat : n \in S => n + 1 \in S
  PROVE  \A n \in Nat : n \in S
<1> SUFFICES ASSUME NEW n \in Nat, n \notin S PROVE FALSE
  OBVIOUS
<1> DEFINE M == {m \in 0 .. n : \A k \in 0 .. m : k \in S}
           f == [m \in M |-> m + 1]
<1>1. IsFiniteSet(M) /\ 0 \in M
  <2>1. IsFiniteSet(0 .. n)
    BY FS_Interval
  <2> QED
    BY <2>1, FS_Subset
<1>2. \A m \in M : m + 1 \in M \ {0}
  OBVIOUS
<1>3. /\ IsFiniteSet(M \ {0})
      /\ Cardinality(M \ {0}) < Cardinality(M)
  <2> HIDE DEF M
  <2>1. IsFiniteSet(M \ {0}) /\ Cardinality(M \ {0}) = Cardinality(M) - 1
    BY <1>1, FS_RemoveElement
  <2>2. Cardinality(M) \in Nat
    BY <1>1, FS_CardinalityType
  <2> QED
    BY <2>1, <2>2
<1>4. f \in [M -> M \ {0}]
  BY <1>2
<1>5. \E x, y \in M : x # y /\ f[x] = f[y]
  <2> HIDE DEF f, M
  <2> QED
    BY <1>1, <1>3, <1>4, FS_PigeonHole
<1> QED
  BY <1>5

LEMMA FirstFinite ==
  ASSUME NEW n \in Nat
  PROVE  IsFiniteSet(1 .. n) /\ Cardinality(1 .. n) = n
BY FS_Interval

Pick(s) == CHOOSE x \in s : TRUE

(* g adds up f over the subsets of S as SumFunctionOnSet does.             *)
Adds(g, f, S) ==
  g = [s \in SUBSET S |-> IF s = {} THEN 0 ELSE f[Pick(s)] + g[s \ {Pick(s)}]]

LEMMA SumDef ==
  ASSUME NEW f, NEW S
  PROVE  SumFunctionOnSet(f, S) = (CHOOSE g : Adds(g, f, S))[S]
BY DEF SumFunctionOnSet, FoldFunctionOnSet, MapThenFoldSet, Adds, Pick

LEMMA PickOne == ASSUME NEW s, s # {} PROVE Pick(s) \in s
BY DEF Pick

LEMMA AddsExists ==
  ASSUME NEW S, IsFiniteSet(S), NEW f, \A x \in S : f[x] \in Int
  PROVE  \E g : Adds(g, f, S)
<1> DEFINE Small(n) == {s \in SUBSET S : Cardinality(s) <= n}
           Val(g, s) == IF s = {} THEN 0 ELSE f[Pick(s)] + g[s \ {Pick(s)}]
           N == {n \in Nat : \E g : g = [s \in Small(n) |-> Val(g, s)]}
<1>0. \A s \in SUBSET S : IsFiniteSet(s) /\ Cardinality(s) \in Nat
                          /\ Cardinality(s) <= Cardinality(S)
  BY FS_Subset, FS_CardinalityType
<1>1. 0 \in N
  <2>1. \A s \in Small(0) : s = {}
    BY <1>0, FS_EmptySet
  <2> DEFINE g == [s \in Small(0) |-> 0]
  <2>2. \A s \in Small(0) : Val(g, s) = 0
    BY <2>1
  <2>3. g = [s \in Small(0) |-> Val(g, s)]
    BY <2>2
  <2> HIDE DEF g
  <2> QED
    BY <2>3
<1>2. ASSUME NEW n \in Nat, n \in N PROVE n + 1 \in N
  <2>1. PICK g : g = [s \in Small(n) |-> Val(g, s)]
    BY <1>2
  <2> DEFINE h == [s \in Small(n + 1) |-> Val(g, s)]
  <2>2. \A s \in Small(n + 1) : s # {} => s \ {Pick(s)} \in Small(n)
    <3> SUFFICES ASSUME NEW s \in Small(n + 1), s # {} PROVE s \ {Pick(s)} \in Small(n)
      OBVIOUS
    <3>1. Pick(s) \in s /\ IsFiniteSet(s) /\ Cardinality(s) \in Nat /\ Cardinality(s) <= n + 1
      BY <1>0, PickOne
    <3>2. Cardinality(s \ {Pick(s)}) = Cardinality(s) - 1
      BY <3>1, FS_RemoveElement
    <3> QED
      BY <3>1, <3>2
  <2>3. \A s \in Small(n) : s \in Small(n + 1) /\ h[s] = g[s]
    <3>1. \A s \in Small(n) : s \in Small(n + 1)
      BY <1>0
    <3>2. \A s \in Small(n) : g[s] = Val(g, s)
      <4> HIDE DEF Val, Small
      <4> QED
        BY <2>1
    <3> HIDE DEF Val, Small
    <3> QED
      BY <3>1, <3>2
  <2>4. \A s \in Small(n + 1) : Val(g, s) = Val(h, s)
    <3> HIDE DEF h, Small
    <3> QED
      BY <2>2, <2>3
  <2>5. h = [s \in Small(n + 1) |-> Val(h, s)]
    <3>1. \A s \in Small(n + 1) : h[s] = Val(h, s)
      <4> HIDE DEF Val, Small
      <4>1. \A s \in Small(n + 1) : h[s] = Val(g, s)
        OBVIOUS
      <4> HIDE DEF h
      <4> QED
        BY <2>4, <4>1
    <3>2. h = [s \in Small(n + 1) |-> h[s]]
      <4> HIDE DEF Val, Small
      <4> QED
        OBVIOUS
    <3> HIDE DEF h, Small, Val
    <3> QED
      BY <3>1, <3>2
  <2> HIDE DEF h, Val, Small
  <2> QED
    BY <2>5
<1>3. Cardinality(S) \in N
  <2>1. Cardinality(S) \in Nat
    BY <1>0
  <2> HIDE DEF N
  <2> QED
    BY <1>1, <1>2, <2>1, Induction
<1>4. Small(Cardinality(S)) = SUBSET S
  BY <1>0
<1> QED
  BY <1>3, <1>4 DEF Adds

AnyOrder(g, f, S) ==
  /\ g[{}] = 0
  /\ \A s \in SUBSET S : g[s] \in Int
  /\ \A s \in SUBSET S : \A x \in s : g[s] = f[x] + g[s \ {x}]

(* The order in which elements are picked makes no difference.             *)
LEMMA AddsAnyOrder ==
  ASSUME NEW S, IsFiniteSet(S), NEW f, \A x \in S : f[x] \in Int, NEW g, Adds(g, f, S)
  PROVE  AnyOrder(g, f, S)
<1> DEFINE Good(s) == g[s] \in Int /\ \A x \in s : g[s] = f[x] + g[s \ {x}]
           N == {n \in Nat : \A s \in SUBSET S : Cardinality(s) <= n => Good(s)}
<1>0. \A s \in SUBSET S : IsFiniteSet(s) /\ Cardinality(s) \in Nat
  BY FS_Subset, FS_CardinalityType
<1>1. \A s \in SUBSET S : g[s] = IF s = {} THEN 0 ELSE f[Pick(s)] + g[s \ {Pick(s)}]
  <2> DEFINE V(s) == IF s = {} THEN 0 ELSE f[Pick(s)] + g[s \ {Pick(s)}]
  <2>1. g = [s \in SUBSET S |-> V(s)]
    BY DEF Adds
  <2> HIDE DEF V
  <2>2. \A s \in SUBSET S : g[s] = V(s)
    BY <2>1
  <2> QED
    BY <2>2 DEF V
<1>a. Good({})
  <2>1. g[{}] = 0
    BY <1>1
  <2> QED
    BY <2>1
<1>2. 0 \in N
  <2>1. \A s \in SUBSET S : Cardinality(s) <= 0 => s = {}
    BY <1>0, FS_EmptySet
  <2> HIDE DEF Good
  <2> QED
    BY <1>a, <2>1
<1>3. ASSUME NEW n \in Nat, n \in N PROVE n + 1 \in N
  <2> SUFFICES ASSUME NEW s \in SUBSET S, Cardinality(s) <= n + 1, s # {}
               PROVE  Good(s)
    <3> HIDE DEF Good
    <3> QED
      BY <1>a
  <2>a. \A t \in SUBSET S : Cardinality(t) <= n => Good(t)
    <3> HIDE DEF Good
    <3> QED
      BY <1>3
  <2>1. Pick(s) \in s /\ Pick(s) \in S
    BY PickOne
  <2> DEFINE y == Pick(s)
  <2>2. \A x \in s : Good(s \ {x})
    <3> SUFFICES ASSUME NEW x \in s PROVE Good(s \ {x})
      OBVIOUS
    <3>1. Cardinality(s \ {x}) = Cardinality(s) - 1
      BY <1>0, FS_RemoveElement
    <3>2. Cardinality(s \ {x}) <= n /\ s \ {x} \in SUBSET S
      BY <1>0, <3>1
    <3> HIDE DEF Good
    <3> QED
      BY <2>a, <3>2
  <2>3. g[s] = f[y] + g[s \ {y}]
    BY <1>1
  <2>4. g[s] \in Int
    <3>1. Good(s \ {y})
      <4> HIDE DEF Good
      <4> QED
        BY <2>1, <2>2
    <3>2. g[s \ {y}] \in Int /\ f[y] \in Int
      BY <2>1, <3>1
    <3> HIDE DEF y
    <3> QED
      BY <2>3, <3>2
  <2>5. ASSUME NEW x \in s PROVE g[s] = f[x] + g[s \ {x}]
    <3>1. CASE x = y
      BY <2>3, <3>1
    <3>2. CASE x # y
      <4>1. x \in s \ {y} /\ y \in s \ {x} /\ (s \ {y}) \ {x} = (s \ {x}) \ {y}
        BY <2>1, <3>2
      <4>2. g[s \ {y}] = f[x] + g[(s \ {y}) \ {x}]
        BY <2>1, <2>2, <4>1
      <4>3. g[s \ {x}] = f[y] + g[(s \ {x}) \ {y}]
        BY <2>2, <4>1
      <4>4. PICK u \in Int : u = g[(s \ {x}) \ {y}]
        <5>1. (s \ {x}) \ {y} \in SUBSET S
          OBVIOUS
        <5>2. Cardinality((s \ {x}) \ {y}) = Cardinality(s) - 2
          <6>1. Cardinality(s \ {x}) = Cardinality(s) - 1 /\ IsFiniteSet(s \ {x})
            BY <1>0, FS_RemoveElement
          <6>2. Cardinality((s \ {x}) \ {y}) = Cardinality(s \ {x}) - 1
            BY <4>1, <6>1, FS_RemoveElement
          <6> QED
            BY <1>0, <6>1, <6>2
        <5>3. Good((s \ {x}) \ {y})
          <6>1. Cardinality((s \ {x}) \ {y}) <= n
            BY <1>0, <5>2
          <6> HIDE DEF Good
          <6> QED
            BY <2>a, <5>1, <6>1
        <5> QED
          BY <5>3
      <4>5. f[x] \in Int /\ f[y] \in Int
        BY <2>1
      <4>6. g[s] = f[y] + (f[x] + u) /\ g[s \ {x}] = f[y] + u
        BY <2>3, <4>1, <4>2, <4>3, <4>4
      <4> HIDE DEF y
      <4> QED
        BY <4>4, <4>5, <4>6
    <3> QED
      BY <3>1, <3>2
  <2> QED
    BY <2>4, <2>5
<1>4. \A n \in Nat : n \in N
  <2> HIDE DEF N
  <2> QED
    BY <1>2, <1>3, Induction
<1>5. \A s \in SUBSET S : Good(s)
  <2> HIDE DEF Good
  <2> QED
    BY <1>0, <1>4
<1> QED
  BY <1>1, <1>5 DEF AnyOrder

(* A sum over part of the set is the same wherever the set ends.           *)
LEMMA AddsAgree ==
  ASSUME NEW S, IsFiniteSet(S), NEW f, \A x \in S : f[x] \in Int, NEW g, Adds(g, f, S),
         NEW T, T \subseteq S, NEW e, \A x \in T : e[x] = f[x],
         NEW h, Adds(h, e, T)
  PROVE  h[T] = g[T]
<1> DEFINE N == {n \in Nat : \A s \in SUBSET T : Cardinality(s) <= n => h[s] = g[s]}
<1>0. /\ IsFiniteSet(T)
      /\ \A s \in SUBSET T : IsFiniteSet(s) /\ Cardinality(s) \in Nat /\ s \in SUBSET S
  BY FS_Subset, FS_CardinalityType
<1>1. /\ g[{}] = 0 /\ h[{}] = 0
      /\ \A s \in SUBSET T : \A x \in s : g[s] = f[x] + g[s \ {x}] /\ h[s] = e[x] + h[s \ {x}]
  <2>1. g[{}] = 0 /\ \A s \in SUBSET S : \A x \in s : g[s] = f[x] + g[s \ {x}]
    <3>1. AnyOrder(g, f, S)
      BY AddsAnyOrder
    <3> QED
      BY <3>1 DEF AnyOrder
  <2>2. h[{}] = 0 /\ \A s \in SUBSET T : \A x \in s : h[s] = e[x] + h[s \ {x}]
    <3>1. \A x \in T : e[x] \in Int
      OBVIOUS
    <3> QED
      BY <1>0, <3>1, AddsAnyOrder DEF AnyOrder
  <2> QED
    BY <1>0, <2>1, <2>2
<1>2. 0 \in N
  <2>1. \A s \in SUBSET T : Cardinality(s) <= 0 => s = {}
    BY <1>0, FS_EmptySet
  <2> QED
    BY <1>1, <2>1
<1>3. ASSUME NEW n \in Nat, n \in N PROVE n + 1 \in N
  <2> SUFFICES ASSUME NEW s \in SUBSET T, Cardinality(s) <= n + 1, s # {}
               PROVE  h[s] = g[s]
    <3>1. \A s \in SUBSET T : s = {} => h[s] = g[s]
      BY <1>1
    <3> QED
      BY <3>1
  <2>1. PICK x : x \in s
    OBVIOUS
  <2>2. Cardinality(s \ {x}) = Cardinality(s) - 1
    BY <1>0, <2>1, FS_RemoveElement
  <2>3. h[s \ {x}] = g[s \ {x}]
    BY <1>0, <1>3, <2>2
  <2> QED
    BY <1>1, <2>1, <2>3
<1>4. \A n \in Nat : n \in N
  <2> HIDE DEF N
  <2> QED
    BY <1>2, <1>3, Induction
<1> QED
  BY <1>0, <1>4

(* What SumFunctionOnSet computes.                                         *)
IntOn(f, S) == \A x \in S : f[x] \in Int
Agree(e, f, S) == \A x \in S : e[x] = f[x]

LEMMA SumEmpty == ASSUME NEW f PROVE SumFunctionOnSet(f, {}) = 0
<1>1. \A g : Adds(g, f, {}) <=> g = [s \in {{}} |-> 0]
  <2>1. SUBSET {} = {{}}
    OBVIOUS
  <2> QED
    BY <2>1 DEF Adds
<1>2. Adds(CHOOSE g : Adds(g, f, {}), f, {})
  BY <1>1
<1> QED
  BY <1>1, <1>2, SumDef

LEMMA SumAdd ==
  ASSUME NEW T, IsFiniteSet(T), NEW x, x \notin T,
         NEW f, IntOn(f, T \cup {x}), NEW e, Agree(e, f, T)
  PROVE  SumFunctionOnSet(f, T \cup {x}) = SumFunctionOnSet(e, T) + f[x]
<1>1. PICK S : S = T \cup {x}
  OBVIOUS
<1>2. IsFiniteSet(S) /\ T \subseteq S /\ S \ {x} = T /\ \A y \in S : f[y] \in Int
  BY <1>1, FS_AddElement DEF IntOn
<1>3. PICK g : g = (CHOOSE h : Adds(h, f, S)) /\ Adds(g, f, S)
  BY <1>2, AddsExists
<1>4. PICK h : h = (CHOOSE k : Adds(k, e, T)) /\ Adds(h, e, T)
  <2>1. \A y \in T : e[y] \in Int
    BY DEF IntOn, Agree
  <2> QED
    BY <2>1, AddsExists
<1>5. SumFunctionOnSet(f, S) = g[S] /\ SumFunctionOnSet(e, T) = h[T]
  BY <1>3, <1>4, SumDef
<1>6. h[T] = g[T]
  BY <1>2, <1>3, <1>4, AddsAgree DEF Agree
<1>7. g[S] = f[x] + g[T] /\ g[T] \in Int
  BY <1>1, <1>2, <1>3, AddsAnyOrder DEF AnyOrder
<1>8. f[x] \in Int
  BY DEF IntOn
<1> QED
  BY <1>1, <1>5, <1>6, <1>7, <1>8

LEMMA SumSame ==
  ASSUME NEW T, IsFiniteSet(T), NEW f, IntOn(f, T), NEW e, Agree(e, f, T)
  PROVE  SumFunctionOnSet(e, T) = SumFunctionOnSet(f, T)
<1>1. PICK g : g = (CHOOSE h : Adds(h, f, T)) /\ Adds(g, f, T)
  BY AddsExists DEF IntOn
<1>2. PICK h : h = (CHOOSE k : Adds(k, e, T)) /\ Adds(h, e, T)
  <2>1. \A y \in T : e[y] \in Int
    BY DEF IntOn, Agree
  <2> QED
    BY <2>1, AddsExists
<1>3. h[T] = g[T]
  BY <1>1, <1>2, AddsAgree DEF Agree, IntOn
<1> QED
  BY <1>1, <1>2, <1>3, SumDef

-----------------------------------------------------------------------------
(* Folds of sequences, step by step.                                       *)

(* The largest of a set of places, which is where FoldLeft goes on.        *)
LEMMA MaxOfPlaces ==
  ASSUME NEW k \in Nat, NEW t \in SUBSET (1 .. k), k \in t
  PROVE  Max(t) = k
<1>1. \A x \in t : (\A y \in t : x >= y) <=> x = k
  OBVIOUS
<1> QED
  BY <1>1 DEF Max

LEMMA MaxIsPlace ==
  ASSUME NEW n \in Nat, NEW t \in SUBSET (1 .. n), t # {}
  PROVE  Max(t) \in t
<1> DEFINE N == {k \in Nat : \A u \in SUBSET (1 .. k) : u # {} => Max(u) \in u}
<1>1. 0 \in N
  BY 1 .. 0 = {}
<1>2. ASSUME NEW k \in Nat, k \in N PROVE k + 1 \in N
  <2> SUFFICES ASSUME NEW u \in SUBSET (1 .. k + 1), u # {} PROVE Max(u) \in u
    OBVIOUS
  <2>1. CASE k + 1 \in u
    BY <2>1, MaxOfPlaces
  <2>2. CASE k + 1 \notin u
    <3>1. \A x \in u : x \in 1 .. k
      BY <2>2
    <3> QED
      BY <1>2, <3>1
  <2> QED
    BY <2>1, <2>2
<1> HIDE DEF N
<1>3. n \in N
  BY <1>1, <1>2, Induction
<1> QED
  BY <1>3 DEF N

(* A fold over the places of a sequence, as FoldLeft makes it, op being    *)
(* the table of its operator.                                              *)
FoldStep(g, t, base, op, s) ==
  IF t = {} THEN base ELSE op[<<g[t \ {Max(t)}], s[Max(t)]>>]

FoldFits(A, X, base, op, s, n) ==
  /\ n \in Nat /\ base \in A /\ op \in [A \X X -> A]
  /\ \A i \in 1 .. n : s[i] \in X

FoldOver(g, A, base, op, s, n) ==
  /\ g = [t \in SUBSET (1 .. n) |-> FoldStep(g, t, base, op, s)]
  /\ \A t \in SUBSET (1 .. n) : g[t] \in A

LEMMA FoldExists ==
  ASSUME NEW A, NEW X, NEW base, NEW op, NEW s, NEW n, FoldFits(A, X, base, op, s, n)
  PROVE  \E g : FoldOver(g, A, base, op, s, n)
<1>0. /\ n \in Nat /\ base \in A /\ op \in [A \X X -> A]
      /\ \A i \in 1 .. n : s[i] \in X
  BY DEF FoldFits
<1> DEFINE Good(g, k) == /\ g = [t \in SUBSET (1 .. k) |-> FoldStep(g, t, base, op, s)]
                         /\ \A t \in SUBSET (1 .. k) : g[t] \in A
           N == {k \in Nat : k <= n => \E g : Good(g, k)}
<1>1. 0 \in N
  <2> DEFINE g == [t \in SUBSET (1 .. 0) |-> base]
  <2>1. \A t \in SUBSET (1 .. 0) : FoldStep(g, t, base, op, s) = base
    BY DEF FoldStep
  <2>2. Good(g, 0)
    BY <1>0, <2>1
  <2> HIDE DEF g, Good
  <2> QED
    BY <2>2
<1>2. ASSUME NEW k \in Nat, k \in N PROVE k + 1 \in N
  <2> SUFFICES ASSUME k + 1 <= n PROVE \E g : Good(g, k + 1)
    <3> HIDE DEF Good
    <3> QED
      OBVIOUS
  <2>1. PICK g : Good(g, k)
    <3> HIDE DEF Good
    <3> QED
      BY <1>0, <1>2
  <2> DEFINE h == [t \in SUBSET (1 .. k + 1) |-> FoldStep(g, t, base, op, s)]
  <2>2. \A t \in SUBSET (1 .. k) : t \in SUBSET (1 .. k + 1) /\ h[t] = g[t]
    <3>1. \A t \in SUBSET (1 .. k) : g[t] = FoldStep(g, t, base, op, s)
      <4>1. PICK v : v = [t \in SUBSET (1 .. k) |-> FoldStep(g, t, base, op, s)]
        OBVIOUS
      <4>2. v = g /\ \A t \in SUBSET (1 .. k) : v[t] = FoldStep(g, t, base, op, s)
        BY <2>1, <4>1
      <4> QED
        BY <4>2
    <3>2. \A t \in SUBSET (1 .. k) : t \in SUBSET (1 .. k + 1)
      OBVIOUS
    <3> QED
      BY <3>1, <3>2
  <2>3. \A t \in SUBSET (1 .. k + 1) :
          t # {} => t \ {Max(t)} \in SUBSET (1 .. k)
    <3> SUFFICES ASSUME NEW t \in SUBSET (1 .. k + 1), t # {}
                 PROVE  t \ {Max(t)} \in SUBSET (1 .. k)
      OBVIOUS
    <3>1. CASE k + 1 \in t
      <4>1. Max(t) = k + 1
        BY <3>1, MaxOfPlaces
      <4> QED
        BY <4>1
    <3>2. CASE k + 1 \notin t
      <4>1. \A x \in t : x \in 1 .. k
        BY <3>2
      <4> QED
        BY <4>1
    <3> QED
      BY <3>1, <3>2
  <2>4. \A t \in SUBSET (1 .. k + 1) :
          FoldStep(h, t, base, op, s) = FoldStep(g, t, base, op, s)
    <3> HIDE DEF h
    <3> QED
      BY <2>2, <2>3 DEF FoldStep
  <2>5. h = [t \in SUBSET (1 .. k + 1) |-> FoldStep(h, t, base, op, s)]
    <3>1. \A t \in SUBSET (1 .. k + 1) : h[t] = FoldStep(g, t, base, op, s)
      OBVIOUS
    <3>2. h = [t \in SUBSET (1 .. k + 1) |-> h[t]]
      OBVIOUS
    <3> HIDE DEF h
    <3>3. \A t \in SUBSET (1 .. k + 1) : h[t] = FoldStep(h, t, base, op, s)
      BY <2>4, <3>1
    <3> QED
      BY <3>2, <3>3
  <2>6. ASSUME NEW t \in SUBSET (1 .. k + 1) PROVE h[t] \in A
    <3>1. h[t] = FoldStep(g, t, base, op, s)
      OBVIOUS
    <3>2. CASE t = {}
      BY <1>0, <3>1, <3>2 DEF FoldStep
    <3>3. CASE t # {}
      <4>1. g[t \ {Max(t)}] \in A
        BY <2>1, <2>3, <3>3
      <4> HIDE DEF h, Good
      <4>2. Max(t) \in t
        <5>1. k + 1 \in Nat
          OBVIOUS
        <5> QED
          BY Zenon, <3>3, <5>1, MaxIsPlace
      <4>3. s[Max(t)] \in X
        <5>1. 1 .. k + 1 \subseteq 1 .. n
          BY <1>0
        <5> QED
          BY <1>0, <4>2, <5>1
      <4> QED
        BY <1>0, <3>1, <3>3, <4>1, <4>3 DEF FoldStep
    <3> QED
      BY <3>2, <3>3
  <2> HIDE DEF h
  <2>7. Good(h, k + 1)
    BY <2>5, <2>6
  <2> HIDE DEF Good
  <2> QED
    BY <2>7
<1>3. n \in N
  <2> HIDE DEF N
  <2> QED
    BY <1>0, <1>1, <1>2, Induction
<1> HIDE DEF Good
<1>4. \E g : Good(g, n)
  BY <1>0, <1>3
<1> QED
  BY <1>4 DEF Good, FoldOver

LEMMA FirstPlaces ==
  ASSUME NEW n \in Nat
  PROVE  /\ 1 .. 0 = {} /\ {} \in SUBSET (1 .. n)
         /\ \A k \in 1 .. n : /\ 1 .. k \in SUBSET (1 .. n) /\ 1 .. k # {}
                              /\ Max(1 .. k) = k /\ (1 .. k) \ {k} = 1 .. k - 1
<1>1. ASSUME NEW k \in 1 .. n PROVE Max(1 .. k) = k
  <2>1. 1 .. k \in SUBSET (1 .. k) /\ k \in 1 .. k /\ k \in Nat
    OBVIOUS
  <2> QED
    BY Zenon, <2>1, MaxOfPlaces
<1>2. \A k \in 1 .. n : 1 .. k \in SUBSET (1 .. n) /\ 1 .. k # {} /\ (1 .. k) \ {k} = 1 .. k - 1
  OBVIOUS
<1>3. 1 .. 0 = {} /\ {} \in SUBSET (1 .. n)
  OBVIOUS
<1> QED
  BY Zenon, <1>1, <1>2, <1>3

(* A property that each step hands on.                                     *)
LEMMA StepByStep ==
  ASSUME NEW n \in Nat, NEW S, 0 \in S, \A k \in 1 .. n : k - 1 \in S => k \in S
  PROVE  \A k \in 0 .. n : k \in S
<1> DEFINE N == {k \in Nat : k <= n => k \in S}
<1>1. 0 \in N
  OBVIOUS
<1>2. ASSUME NEW k \in Nat, k \in N PROVE k + 1 \in N
  <2>1. k + 1 <= n => k + 1 \in 1 .. n /\ (k + 1) - 1 = k
    OBVIOUS
  <2> QED
    BY <1>2, <2>1
<1>3. \A k \in Nat : k \in N
  <2> HIDE DEF N
  <2> QED
    BY <1>1, <1>2, Induction
<1> QED
  BY <1>3

-----------------------------------------------------------------------------
(* Sums as FoldLeft makes them.                                            *)

Adding(g, f, n) ==
  g = [t \in SUBSET (1 .. n) |-> IF t = {} THEN 0 ELSE g[t \ {Max(t)}] + f[Max(t)]]

Running(u, f, n) ==
  /\ u \in [0 .. n -> Int] /\ u[0] = 0
  /\ \A k \in 1 .. n : u[k] = u[k - 1] + f[k]

LEMMA AddingExists ==
  ASSUME NEW n \in Nat, NEW f, \A i \in 1 .. n : f[i] \in Int
  PROVE  \E g : Adding(g, f, n)
<1> DEFINE op == [p \in Int \X Int |-> p[1] + p[2]]
<1>1. op \in [Int \X Int -> Int]
  OBVIOUS
<1>2. \A a, b \in Int : op[<<a, b>>] = a + b
  OBVIOUS
<1> HIDE DEF op
<1>3. PICK g : /\ g = [t \in SUBSET (1 .. n) |-> FoldStep(g, t, 0, op, f)]
               /\ \A t \in SUBSET (1 .. n) : g[t] \in Int
  <2>1. FoldFits(Int, Int, 0, op, f, n)
    BY <1>1 DEF FoldFits
  <2>2. \E h : FoldOver(h, Int, 0, op, f, n)
    BY Zenon, <2>1, FoldExists
  <2> QED
    BY <2>2 DEF FoldOver
<1>4. ASSUME NEW t \in SUBSET (1 .. n)
      PROVE  FoldStep(g, t, 0, op, f) = IF t = {} THEN 0 ELSE g[t \ {Max(t)}] + f[Max(t)]
  <2>1. CASE t = {}
    BY <2>1 DEF FoldStep
  <2>2. CASE t # {}
    <3>1. Max(t) \in 1 .. n
      BY <2>2, MaxIsPlace
    <3>2. g[t \ {Max(t)}] \in Int /\ f[Max(t)] \in Int
      BY <1>3, <3>1
    <3> QED
      BY <1>2, <2>2, <3>2 DEF FoldStep
  <2> QED
    BY <2>1, <2>2
<1> QED
  BY <1>3, <1>4 DEF Adding

LEMMA AddingRuns ==
  ASSUME NEW n \in Nat, NEW f, \A i \in 1 .. n : f[i] \in Int, NEW g, Adding(g, f, n)
  PROVE  \E u : Running(u, f, n) /\ g[1 .. n] = u[n]
<1> DEFINE Next1(t) == IF t = {} THEN 0 ELSE g[t \ {Max(t)}] + f[Max(t)]
           u == [k \in 0 .. n |-> g[1 .. k]]
<1>1. \A t \in SUBSET (1 .. n) : g[t] = Next1(t)
  <2>1. g = [t \in SUBSET (1 .. n) |-> Next1(t)]
    BY DEF Adding
  <2> HIDE DEF Next1
  <2> QED
    BY <2>1
<1>2. u[0] = 0
  <2>1. g[{}] = 0
    BY <1>1, FirstPlaces
  <2> QED
    BY <2>1, FirstPlaces
<1>3. \A k \in 1 .. n : u[k] = u[k - 1] + f[k]
  <2> SUFFICES ASSUME NEW k \in 1 .. n PROVE u[k] = u[k - 1] + f[k]
    OBVIOUS
  <2>1. g[1 .. k] = g[(1 .. k) \ {k}] + f[k]
    BY <1>1, FirstPlaces
  <2>2. u[k] = g[1 .. k] /\ u[k - 1] = g[1 .. k - 1]
    <3>1. k \in 0 .. n /\ k - 1 \in 0 .. n
      OBVIOUS
    <3> QED
      BY <3>1
  <2> QED
    BY <2>1, <2>2, FirstPlaces
<1>4. \A k \in 0 .. n : k \in {j \in 0 .. n : u[j] \in Int}
  <2> DEFINE S == {j \in 0 .. n : u[j] \in Int}
  <2> HIDE DEF u
  <2>1. 0 \in S
    BY <1>2
  <2>2. \A k \in 1 .. n : k - 1 \in S => k \in S
    BY <1>3
  <2> HIDE DEF S
  <2>3. \A k \in 0 .. n : k \in S
    BY <2>1, <2>2, StepByStep
  <2> QED
    BY <2>3 DEF S
<1>5. u \in [0 .. n -> Int]
  BY <1>4
<1>6. u[n] = g[1 .. n]
  OBVIOUS
<1> HIDE DEF u
<1> QED
  BY <1>2, <1>3, <1>5, <1>6 DEF Running

(* A run of additions over the places of f, in the form FoldLeft gives it. *)
Measuring(g, s) ==
  g = [t \in SUBSET DOMAIN s |->
         IF t = {} THEN NoSamples ELSE Update(g[t \ {Max(t)}], s[Max(t)])]

Measures(w, s) ==
  /\ w \in [0 .. Len(s) -> [n : Nat, mean : Int, m2 : Int, min : Int, max : Int]]
  /\ w[0] = NoSamples
  /\ \A k \in 1 .. Len(s) : w[k] = Update(w[k - 1], s[k])

LEMMA UpdateType ==
  ASSUME NEW tally \in [n : Nat, mean : Int, m2 : Int, min : Int, max : Int], NEW x \in Int
  PROVE  Update(tally, x) \in [n : Nat, mean : Int, m2 : Int, min : Int, max : Int]
<1> DEFINE n == tally.n + 1
           delta == Scale * x - tally.mean
           mean == tally.mean + delta \div n
<1>1. n \in Nat /\ n > 0 /\ delta \in Int /\ Scale \in Int
  BY StatisticsAssumption
<1>2. delta \div n \in Int
  <2> HIDE DEF n, delta
  <2> QED
    BY <1>1
<1>3. mean \in Int
  BY <1>2
<1>4. delta * (Scale * x - mean) \in Int
  <2> HIDE DEF delta, mean
  <2> QED
    BY <1>1, <1>3
<1>5. /\ (IF n = 1 THEN x ELSE Least(tally.min, x)) \in Int
      /\ (IF n = 1 THEN x ELSE Greatest(tally.max, x)) \in Int
  BY DEF Least, Greatest
<1>6. Update(tally, x) =
        [n |-> n, mean |-> mean, m2 |-> tally.m2 + delta * (Scale * x - mean),
         min |-> IF n = 1 THEN x ELSE Least(tally.min, x),
         max |-> IF n = 1 THEN x ELSE Greatest(tally.max, x)]
  BY DEF Update
<1>7. tally.m2 \in Int
  OBVIOUS
<1> HIDE DEF n, delta, mean
<1>8. tally.m2 + delta * (Scale * x - mean) \in Int
  BY <1>4, <1>7
<1> QED
  BY <1>1, <1>3, <1>5, <1>6, <1>8

LEMMA WelfordFolds ==
  ASSUME NEW s
  PROVE  Welford(s) = (CHOOSE g : Measuring(g, s))[DOMAIN s]
BY Zenon DEF Welford, FoldLeft, MapThenFoldSet, Measuring

LEMMA WelfordMeasures ==
  ASSUME NEW s \in Seq(Int)
  PROVE  \E w : Measures(w, s) /\ Welford(s) = w[Len(s)]
<1> DEFINE Acc == [n : Nat, mean : Int, m2 : Int, min : Int, max : Int]
           op == [p \in Acc \X Int |-> Update(p[1], p[2])]
           n == Len(s)
<1>0. DOMAIN s = 1 .. n /\ n \in Nat /\ \A i \in 1 .. n : s[i] \in Int
  OBVIOUS
<1>1. op \in [Acc \X Int -> Acc]
  BY UpdateType
<1>2. \A a \in Acc, x \in Int : op[<<a, x>>] = Update(a, x)
  OBVIOUS
<1>3. NoSamples \in Acc
  BY DEF NoSamples
<1> HIDE DEF op, Acc
<1>4. \E g : FoldOver(g, Acc, NoSamples, op, s, n)
  <2>1. FoldFits(Acc, Int, NoSamples, op, s, n)
    BY <1>0, <1>1, <1>3 DEF FoldFits
  <2> QED
    BY Zenon, <2>1, FoldExists
<1>5. PICK h : /\ h = [t \in SUBSET (1 .. n) |-> FoldStep(h, t, NoSamples, op, s)]
               /\ \A t \in SUBSET (1 .. n) : h[t] \in Acc
  BY <1>4 DEF FoldOver
<1>6. \E g : Measuring(g, s)
  <2>1. ASSUME NEW t \in SUBSET (1 .. n)
        PROVE  FoldStep(h, t, NoSamples, op, s)
                 = IF t = {} THEN NoSamples ELSE Update(h[t \ {Max(t)}], s[Max(t)])
    <3>1. CASE t = {}
      BY <3>1 DEF FoldStep
    <3>2. CASE t # {}
      <4>1. Max(t) \in 1 .. n
        BY <1>0, <3>2, MaxIsPlace
      <4>2. h[t \ {Max(t)}] \in Acc /\ s[Max(t)] \in Int
        BY <1>0, <1>5, <4>1
      <4> QED
        BY <1>2, <3>2, <4>2 DEF FoldStep
    <3> QED
      BY <3>1, <3>2
  <2>2. Measuring(h, s)
    BY <1>0, <1>5, <2>1 DEF Measuring
  <2> QED
    BY <2>2
<1>7. PICK g : Measuring(g, s) /\ Welford(s) = g[1 .. n]
  <2>1. Measuring((CHOOSE f : Measuring(f, s)), s)
    BY Zenon, <1>6
  <2> QED
    BY Zenon, <1>0, <2>1, WelfordFolds
<1> DEFINE Here(t) == IF t = {} THEN NoSamples ELSE Update(g[t \ {Max(t)}], s[Max(t)])
           w == [k \in 0 .. n |-> g[1 .. k]]
<1>8. \A t \in SUBSET (1 .. n) : g[t] = Here(t)
  <2>1. g = [t \in SUBSET (1 .. n) |-> Here(t)]
    BY <1>0, <1>7 DEF Measuring
  <2> HIDE DEF Here
  <2> QED
    BY <2>1
<1>9. w[0] = NoSamples
  <2>1. g[{}] = NoSamples
    BY <1>0, <1>8, FirstPlaces
  <2> QED
    BY <1>0, <2>1, FirstPlaces
<1>10. \A k \in 1 .. n : w[k] = Update(w[k - 1], s[k])
  <2> SUFFICES ASSUME NEW k \in 1 .. n PROVE w[k] = Update(w[k - 1], s[k])
    OBVIOUS
  <2>1. g[1 .. k] = Update(g[(1 .. k) \ {k}], s[k])
    BY <1>0, <1>8, FirstPlaces
  <2>2. w[k] = g[1 .. k] /\ w[k - 1] = g[1 .. k - 1]
    <3>1. k \in 0 .. n /\ k - 1 \in 0 .. n
      BY <1>0
    <3> QED
      BY <3>1
  <2>3. (1 .. k) \ {k} = 1 .. k - 1
    BY <1>0, FirstPlaces
  <2> QED
    BY <2>1, <2>2, <2>3
<1>11. \A k \in 0 .. n : w[k] \in Acc
  <2> DEFINE S == {j \in 0 .. n : w[j] \in Acc}
  <2> HIDE DEF w
  <2>1. 0 \in S
    BY <1>0, <1>3, <1>9
  <2>2. ASSUME NEW k \in 1 .. n, k - 1 \in S PROVE k \in S
    <3>1. k \in 0 .. n /\ w[k - 1] \in Acc /\ s[k] \in Int
      BY <1>0, <2>2
    <3>2. Update(w[k - 1], s[k]) \in Acc
      BY <3>1, UpdateType DEF Acc
    <3> QED
      BY <1>10, <3>1, <3>2
  <2> HIDE DEF S
  <2>3. \A k \in 0 .. n : k \in S
    BY <1>0, <2>1, <2>2, StepByStep
  <2> QED
    BY <2>3 DEF S
<1>12. w \in [0 .. n -> Acc]
  BY <1>11
<1>13. w[n] = g[1 .. n]
  BY <1>0
<1>14. Measures(w, s)
  <2> HIDE DEF w
  <2> QED
    BY <1>9, <1>10, <1>12 DEF Measures, Acc
<1> QED
  BY <1>7, <1>13, <1>14

-----------------------------------------------------------------------------
Summing(g, f) ==
  g = [t \in SUBSET DOMAIN f |-> IF t = {} THEN 0 ELSE g[t \ {Max(t)}] + f[Max(t)]]

LEMMA SumRuns ==
  ASSUME NEW s \in Seq(Int)
  PROVE  \E u : Running(u, s, Len(s)) /\ Sum(s) = u[Len(s)]
<1>1. DOMAIN s = 1 .. Len(s) /\ Len(s) \in Nat /\ \A i \in 1 .. Len(s) : s[i] \in Int
  OBVIOUS
<1>2. Sum(s) = (CHOOSE g : Summing(g, s))[DOMAIN s]
  BY Zenon DEF Sum, FoldLeft, MapThenFoldSet, Summing
<1>3. \A g : Summing(g, s) <=> Adding(g, s, Len(s))
  BY <1>1 DEF Summing, Adding
<1>4. \E g : Summing(g, s)
  BY <1>1, <1>3, AddingExists
<1>5. Summing((CHOOSE g : Summing(g, s)), s)
  BY Zenon, <1>4
<1>6. PICK g : Adding(g, s, Len(s)) /\ Sum(s) = g[1 .. Len(s)]
  BY Zenon, <1>1, <1>2, <1>3, <1>5
<1> QED
  BY <1>1, <1>6, AddingRuns

Squares(s, m) == [i \in 1 .. Len(s) |-> (Scale * s[i] - m) * (Scale * s[i] - m)]
Squaring(g, s, m) ==
  g = [t \in SUBSET DOMAIN s |-> IF t = {} THEN 0 ELSE
         g[t \ {Max(t)}] + (Scale * s[Max(t)] - m) * (Scale * s[Max(t)] - m)]

LEMMA DeviationsRun ==
  ASSUME NEW s \in Seq(Int), NEW m \in Int
  PROVE  \E d : Running(d, Squares(s, m), Len(s)) /\ SquaredDeviations(s, m) = d[Len(s)]
<1> DEFINE f == Squares(s, m)
<1>1. DOMAIN s = 1 .. Len(s) /\ Len(s) \in Nat
  OBVIOUS
<1>2. SquaredDeviations(s, m) = (CHOOSE g : Squaring(g, s, m))[DOMAIN s]
  BY Zenon DEF SquaredDeviations, FoldLeft, MapThenFoldSet, Squaring
<1>3. \A i \in 1 .. Len(s) : f[i] = (Scale * s[i] - m) * (Scale * s[i] - m) /\ f[i] \in Int
  BY StatisticsAssumption DEF Squares
<1> HIDE DEF f
<1>4. \A t \in SUBSET (1 .. Len(s)) : t # {} =>
        f[Max(t)] = (Scale * s[Max(t)] - m) * (Scale * s[Max(t)] - m)
  <2> SUFFICES ASSUME NEW t \in SUBSET (1 .. Len(s)), t # {}
               PROVE  f[Max(t)] = (Scale * s[Max(t)] - m) * (Scale * s[Max(t)] - m)
    OBVIOUS
  <2>1. Max(t) \in 1 .. Len(s)
    BY <1>1, MaxIsPlace
  <2> QED
    BY Zenon, <1>3, <2>1
<1>5. \A g : Squaring(g, s, m) <=> Adding(g, f, Len(s))
  <2> TAKE g
  <2>1. [t \in SUBSET (1 .. Len(s)) |-> IF t = {} THEN 0 ELSE
           g[t \ {Max(t)}] + (Scale * s[Max(t)] - m) * (Scale * s[Max(t)] - m)]
        = [t \in SUBSET (1 .. Len(s)) |-> IF t = {} THEN 0 ELSE g[t \ {Max(t)}] + f[Max(t)]]
    BY Zenon, <1>4
  <2> QED
    BY Zenon, <1>1, <2>1 DEF Squaring, Adding
<1>6. \E g : Squaring(g, s, m)
  BY <1>1, <1>3, <1>5, AddingExists
<1>7. Squaring((CHOOSE g : Squaring(g, s, m)), s, m)
  BY Zenon, <1>6
<1>8. PICK g : Adding(g, f, Len(s)) /\ SquaredDeviations(s, m) = g[1 .. Len(s)]
  BY Zenon, <1>1, <1>2, <1>5, <1>7
<1>9. \E d : Running(d, f, Len(s)) /\ g[1 .. Len(s)] = d[Len(s)]
  BY <1>1, <1>3, <1>8, AddingRuns
<1> QED
  BY <1>8, <1>9 DEF f

Places(s) == [k \in 1 .. Len(s) - 1 |-> k + 1]
Rises(s) == [k \in 1 .. Len(s) - 1 |-> AbsDiff(s[k + 1], s[k])]
Stepping(g, s) ==
  g = [t \in SUBSET DOMAIN Places(s) |-> IF t = {} THEN 0 ELSE
         g[t \ {Max(t)}] + AbsDiff(s[Places(s)[Max(t)]], s[Places(s)[Max(t)] - 1])]

LEMMA JitterRuns ==
  ASSUME NEW s \in Seq(Int), Len(s) > 0
  PROVE  \E j : Running(j, Rises(s), Len(s) - 1) /\ JitterSum(s) = j[Len(s) - 1]
<1> DEFINE n == Len(s) - 1
           f == Rises(s)
<1>1. DOMAIN Places(s) = 1 .. n /\ n \in Nat
  BY DEF Places
<1>2. JitterSum(s) = (CHOOSE g : Stepping(g, s))[DOMAIN Places(s)]
  BY Zenon DEF JitterSum, FoldLeft, MapThenFoldSet, Stepping, Places
<1>3. \A i \in 1 .. n : /\ f[i] = AbsDiff(s[Places(s)[i]], s[Places(s)[i] - 1])
                        /\ f[i] \in Int
  <2> SUFFICES ASSUME NEW i \in 1 .. n
               PROVE  f[i] = AbsDiff(s[Places(s)[i]], s[Places(s)[i] - 1]) /\ f[i] \in Int
    OBVIOUS
  <2>1. Places(s)[i] = i + 1 /\ f[i] = AbsDiff(s[i + 1], s[i])
    BY DEF Places, Rises
  <2>2. s[i + 1] \in Int /\ s[i] \in Int /\ (i + 1) - 1 = i
    OBVIOUS
  <2> QED
    BY <2>1, <2>2 DEF AbsDiff
<1> HIDE DEF f, n
<1>4. \A t \in SUBSET (1 .. n) : t # {} =>
        f[Max(t)] = AbsDiff(s[Places(s)[Max(t)]], s[Places(s)[Max(t)] - 1])
  <2> SUFFICES ASSUME NEW t \in SUBSET (1 .. n), t # {}
               PROVE  f[Max(t)] = AbsDiff(s[Places(s)[Max(t)]], s[Places(s)[Max(t)] - 1])
    OBVIOUS
  <2>1. Max(t) \in 1 .. n
    BY <1>1, MaxIsPlace
  <2> QED
    BY Zenon, <1>3, <2>1
<1>5. \A g : Stepping(g, s) <=> Adding(g, f, n)
  <2> TAKE g
  <2>1. [t \in SUBSET (1 .. n) |-> IF t = {} THEN 0 ELSE
           g[t \ {Max(t)}] + AbsDiff(s[Places(s)[Max(t)]], s[Places(s)[Max(t)] - 1])]
        = [t \in SUBSET (1 .. n) |-> IF t = {} THEN 0 ELSE g[t \ {Max(t)}] + f[Max(t)]]
    BY Zenon, <1>4
  <2> QED
    BY Zenon, <1>1, <2>1 DEF Stepping, Adding
<1>6. \E g : Stepping(g, s)
  BY <1>1, <1>3, <1>5, AddingExists
<1>7. Stepping((CHOOSE g : Stepping(g, s)), s)
  BY Zenon, <1>6
<1>8. PICK g : Adding(g, f, n) /\ JitterSum(s) = g[1 .. n]
  BY Zenon, <1>1, <1>2, <1>5, <1>7
<1>9. \E j : Running(j, f, n) /\ g[1 .. n] = j[n]
  BY <1>1, <1>3, <1>8, AddingRuns
<1> QED
  BY <1>8, <1>9 DEF f, n

(* n times the new mean is what the samples add up to.                     *)
Divisible(n) == \A k \in 1 .. n : Scale % k = 0

LEMMA Divides ==
  ASSUME NEW k \in Nat \ {0}, Scale % k = 0
  PROVE  \E a \in Int : Scale = k * a
<1>1. Scale \in Int
  BY StatisticsAssumption
<1>2. Scale = k * (Scale \div k) + (Scale % k) /\ Scale \div k \in Int
  BY <1>1
<1>3. Scale = k * (Scale \div k)
  <2>1. PICK q \in Int : q = Scale \div k
    BY <1>2
  <2>2. k * q \in Int
    OBVIOUS
  <2> QED
    BY <1>2, <2>1, <2>2
<1> QED
  BY Zenon, <1>2, <1>3

LEMMA NextMean ==
  ASSUME NEW k \in Nat \ {0}, NEW mean \in Int, NEW sum \in Int, NEW x \in Int,
         Scale % k = 0, Scale % (k + 1) = 0, k * mean = Scale * sum
  PROVE  (k + 1) * (mean + (Scale * x - mean) \div (k + 1)) = Scale * (sum + x)
<1>1. PICK a \in Int : Scale = k * a
  BY Divides
<1>2. PICK b \in Int : Scale = (k + 1) * b
  <2>1. k + 1 \in Nat \ {0}
    OBVIOUS
  <2> QED
    BY <2>1, Divides
<1> DEFINE c == a - b
<1>3. Scale = k * ((k + 1) * c)
  <2>1. k * ((k + 1) * c) = (k + 1) * (k * a) - k * ((k + 1) * b)
    OBVIOUS
  <2>2. k * ((k + 1) * c) = (k + 1) * Scale - k * Scale
    BY <1>1, <1>2, <2>1
  <2> QED
    BY <2>2, StatisticsAssumption
<1>4. c \in Int
  OBVIOUS
<1> HIDE DEF c
<1>5. mean = ((k + 1) * c) * sum
  <2> DEFINE e == (k + 1) * c
  <2>1. e \in Int
    BY <1>4
  <2>2. k * mean = (k * e) * sum
    BY <1>3
  <2> HIDE DEF e
  <2>3. k * mean = k * (e * sum)
    BY <2>1, <2>2
  <2>4. e * sum \in Int
    BY <2>1
  <2>5. mean = e * sum
    BY <2>3, <2>4
  <2> QED
    BY <2>5 DEF e
<1> DEFINE r == k * (c * x) - c * sum
<1>6. Scale * x - mean = (k + 1) * r
  <2>1. Scale * x = (k + 1) * (k * (c * x))
    BY <1>3, <1>4
  <2>2. mean = (k + 1) * (c * sum)
    BY <1>4, <1>5
  <2>3. k * (c * x) \in Int /\ c * sum \in Int
    BY <1>4
  <2> QED
    BY <2>1, <2>2, <2>3
<1>7. r \in Int
  BY <1>4
<1> HIDE DEF r
<1>8. ((k + 1) * r) \div (k + 1) = r
  BY <1>7
<1>9. (k + 1) * (mean + r) = (k + 1) * mean + (Scale * x - mean)
  BY <1>6, <1>7
<1>10. (k + 1) * mean + (Scale * x - mean) = k * mean + Scale * x
  BY StatisticsAssumption
<1>11. Scale * (sum + x) = Scale * sum + Scale * x
  BY StatisticsAssumption
<1>12. (Scale * x - mean) \div (k + 1) = r
  BY <1>6, <1>8
<1> QED
  BY <1>9, <1>10, <1>11, <1>12

LEMMA NextSquares ==
  ASSUME NEW k \in Int, NEW M \in Int, NEW N \in Int, NEW y \in Int,
         k * M + y = (k + 1) * N
  PROVE  (y - M) * (y - N) + (k + 1) * (N * N) = k * (M * M) + y * y
<1>1. y = (k + 1) * N - k * M
  OBVIOUS
<1> QED
  BY <1>1

LEMMA ShiftedSquares ==
  ASSUME NEW k \in Int, NEW M \in Int, NEW N \in Int, NEW y \in Int, NEW m \in Int,
         k * M + y = (k + 1) * N
  PROVE  (y - M) * (y - N) + (k + 1) * ((N - m) * (N - m))
           = k * ((M - m) * (M - m)) + (y - m) * (y - m)
<1> DEFINE A == M - m
           B == N - m
           z == y - m
<1>1. A \in Int /\ B \in Int /\ z \in Int
  OBVIOUS
<1>2. k * A + z = (k + 1) * B
  OBVIOUS
<1>3. y - M = z - A /\ y - N = z - B
  OBVIOUS
<1>4. (z - A) * (z - B) + (k + 1) * (B * B) = k * (A * A) + z * z
  <2> HIDE DEF A, B, z
  <2> QED
    BY <1>1, <1>2, NextSquares
<1> QED
  BY <1>3, <1>4

(* The state of Welford's pass over samples that add up to sum and whose   *)
(* squared distances to m add up to d.                                     *)
Balanced(tally, sum, d, m) ==
  /\ tally.n * tally.mean = Scale * sum
  /\ tally.n = 0 => tally = NoSamples
  /\ d = tally.m2 + tally.n * ((tally.mean - m) * (tally.mean - m))

LEMMA WelfordStep ==
  ASSUME NEW tally \in [n : Nat, mean : Int, m2 : Int, min : Int, max : Int], NEW x \in Int,
         NEW sum \in Int, NEW m \in Int, NEW d \in Int,
         Divisible(tally.n + 1), Balanced(tally, sum, d, m)
  PROVE  /\ Update(tally, x).n = tally.n + 1
         /\ Balanced(Update(tally, x), sum + x, d + (Scale * x - m) * (Scale * x - m), m)
<1> DEFINE k == tally.n
           M == tally.mean
           y == Scale * x
           N == M + (y - M) \div (k + 1)
           up == Update(tally, x)
<1>1. up.n = k + 1 /\ up.mean = N /\ up.m2 = tally.m2 + (y - M) * (y - N)
  BY DEF Update
<1>2. k \in Nat /\ M \in Int /\ y \in Int /\ tally.m2 \in Int
  BY StatisticsAssumption
<1>3. (y - M) \div (k + 1) \in Int
  <2>1. y - M \in Int /\ k + 1 \in Int /\ k + 1 > 0
    BY <1>2
  <2> HIDE DEF y, M, k
  <2> QED
    BY <2>1
<1>4. N \in Int
  BY <1>2, <1>3
<1>5. k * M = Scale * sum
  BY DEF Balanced
<1>6. (k + 1) * N = Scale * (sum + x)
  <2>1. CASE k = 0
    <3>1. M = 0
      BY <2>1 DEF NoSamples, Balanced
    <3>2. k + 1 = 1 /\ (y - M) = y
      BY <1>2, <2>1, <3>1
    <3> HIDE DEF k, M, y
    <3>3. y \div 1 = y
      BY <1>2
    <3>4. N = y /\ (k + 1) * N = y
      BY <1>2, <3>1, <3>2, <3>3
    <3>5. Scale * sum = 0
      BY <1>2, <1>5, <2>1
    <3>6. Scale * (sum + x) = Scale * sum + Scale * x
      BY StatisticsAssumption
    <3> QED
      BY <1>2, <3>4, <3>5, <3>6 DEF y
  <2>2. CASE k # 0
    <3>1. k \in 1 .. k + 1 /\ k + 1 \in 1 .. k + 1
      BY <1>2, <2>2
    <3>2. Scale % k = 0 /\ Scale % (k + 1) = 0 /\ k \in Nat \ {0}
      BY <2>2, <3>1 DEF Divisible
    <3> QED
      BY <1>2, <1>5, <3>2, NextMean
  <2> QED
    BY <2>1, <2>2
<1> HIDE DEF N
<1>7. k * M + y = (k + 1) * N
  <2>1. Scale * (sum + x) = Scale * sum + Scale * x
    BY StatisticsAssumption
  <2> QED
    BY <1>5, <1>6, <2>1
<1>8. (y - M) * (y - N) + (k + 1) * ((N - m) * (N - m))
        = k * ((M - m) * (M - m)) + (y - m) * (y - m)
  <2> HIDE DEF k, M, y
  <2> QED
    BY <1>2, <1>4, <1>7, ShiftedSquares
<1>9. d = tally.m2 + k * ((M - m) * (M - m))
  BY DEF Balanced
<1>10. d + (y - m) * (y - m)
         = (tally.m2 + (y - M) * (y - N)) + (k + 1) * ((N - m) * (N - m))
  <2> DEFINE p1 == (y - M) * (y - N)
             p2 == (k + 1) * ((N - m) * (N - m))
             p3 == k * ((M - m) * (M - m))
             p4 == (y - m) * (y - m)
             a == tally.m2
  <2>1. p1 \in Int /\ p2 \in Int /\ p3 \in Int /\ p4 \in Int /\ a \in Int /\ d \in Int
    <3> HIDE DEF k, M, y
    <3> QED
      BY <1>2, <1>4
  <2>2. d = a + p3 /\ p1 + p2 = p3 + p4
    BY <1>8, <1>9
  <2> HIDE DEF p1, p2, p3, p4, a
  <2>3. d + p4 = (a + p1) + p2
    BY <2>1, <2>2
  <2> QED
    BY <2>3 DEF p1, p2, p3, p4, a
<1> HIDE DEF up
<1>11. up.n * up.mean = Scale * (sum + x) /\ up.n = tally.n + 1
  BY <1>1, <1>6
<1>12. d + (Scale * x - m) * (Scale * x - m) = up.m2 + up.n * ((up.mean - m) * (up.mean - m))
  BY <1>1, <1>10
<1>13. up.n # 0
  BY <1>1, <1>2
<1> QED
  BY <1>11, <1>12, <1>13 DEF up, Balanced

LEMMA WelfordOverRun ==
  ASSUME NEW s \in Seq(Int), Divisible(Len(s)), NEW w, Measures(w, s),
         NEW u, Running(u, s, Len(s)),
         NEW m \in Int, NEW d, Running(d, Squares(s, m), Len(s)),
         NEW k \in 0 .. Len(s)
  PROVE  w[k].n = k /\ Balanced(w[k], u[k], d[k], m)
<1> DEFINE Acc == [n : Nat, mean : Int, m2 : Int, min : Int, max : Int]
           n == Len(s)
           S == {j \in 0 .. n : w[j].n = j /\ Balanced(w[j], u[j], d[j], m)}
<1>1. /\ n \in Nat /\ \A j \in 1 .. n : s[j] \in Int
      /\ \A j \in 0 .. n : w[j] \in Acc
      /\ \A j \in 0 .. n : u[j] \in Int
      /\ \A j \in 0 .. n : d[j] \in Int
  <2>1. w \in [0 .. n -> Acc]
    BY DEF Measures
  <2>2. u \in [0 .. n -> Int] /\ d \in [0 .. n -> Int]
    BY DEF Running
  <2> HIDE DEF Acc
  <2>3. n \in Nat /\ \A j \in 1 .. n : s[j] \in Int
    OBVIOUS
  <2> QED
    BY <2>1, <2>2, <2>3
<1>2. 0 \in S
  <2>1. w[0] = NoSamples /\ u[0] = 0 /\ d[0] = 0
    BY DEF Measures, Running
  <2>2. w[0].n = 0 /\ Balanced(w[0], u[0], d[0], m)
    BY <2>1, StatisticsAssumption DEF NoSamples, Balanced
  <2> QED
    BY <1>1, <2>2
<1>3. ASSUME NEW j \in 1 .. n, j - 1 \in S PROVE j \in S
  <2>1. /\ w[j] = Update(w[j - 1], s[j])
        /\ u[j] = u[j - 1] + s[j]
        /\ d[j] = d[j - 1] + (Scale * s[j] - m) * (Scale * s[j] - m)
    BY DEF Measures, Running, Squares
  <2>2. /\ j - 1 \in 0 .. n /\ j \in 0 .. n /\ s[j] \in Int
        /\ w[j - 1] \in [n : Nat, mean : Int, m2 : Int, min : Int, max : Int]
        /\ u[j - 1] \in Int /\ d[j - 1] \in Int
    <3>1. j - 1 \in 0 .. n /\ j \in 0 .. n
      BY <1>1
    <3> QED
      BY Zenon, <1>1, <3>1
  <2>3. w[j - 1].n = j - 1 /\ Balanced(w[j - 1], u[j - 1], d[j - 1], m)
    BY <1>3
  <2>4. Divisible(w[j - 1].n + 1)
    BY <1>1, <2>2, <2>3 DEF Divisible
  <2>5. w[j].n = w[j - 1].n + 1 /\ Balanced(w[j], u[j], d[j], m)
    <3>1. /\ Update(w[j - 1], s[j]).n = w[j - 1].n + 1
          /\ Balanced(Update(w[j - 1], s[j]), u[j - 1] + s[j],
                      d[j - 1] + (Scale * s[j] - m) * (Scale * s[j] - m), m)
      BY Zenon, <2>2, <2>3, <2>4, WelfordStep
    <3> QED
      BY Zenon, <2>1, <3>1
  <2>6. w[j].n = j
    BY <2>2, <2>3, <2>5
  <2> QED
    BY <2>2, <2>5, <2>6
<1> HIDE DEF S
<1>4. k \in S
  BY <1>1, <1>2, <1>3, StepByStep
<1> QED
  BY <1>4 DEF S

LEMMA WelfordTwice ==
  ASSUME NEW s \in Seq(Int), Divisible(Len(s))
  PROVE  /\ Welford(s).n = Len(s)
         /\ Welford(s).n * Welford(s).mean = Scale * Sum(s)
         /\ Welford(s).m2 = SquaredDeviations(s, Welford(s).mean)
<1> DEFINE n == Len(s)
           tally == Welford(s)
<1>1. PICK w : Measures(w, s) /\ tally = w[n]
  BY WelfordMeasures
<1>2. n \in Nat /\ n \in 0 .. n
  OBVIOUS
<1>3. tally \in [n : Nat, mean : Int, m2 : Int, min : Int, max : Int]
  BY <1>1, <1>2 DEF Measures
<1>4. PICK m \in Int : m = tally.mean
  BY <1>3
<1>5. PICK u : Running(u, s, n) /\ Sum(s) = u[n]
  BY SumRuns
<1>6. PICK d : Running(d, Squares(s, m), n) /\ SquaredDeviations(s, m) = d[n]
  BY DeviationsRun
<1>7. /\ tally.n = n
      /\ n * tally.mean = Scale * u[n]
      /\ d[n] = tally.m2 + n * ((tally.mean - m) * (tally.mean - m))
  <2>1. tally.n = n /\ Balanced(tally, u[n], d[n], m)
    BY <1>1, <1>2, <1>5, <1>6, WelfordOverRun
  <2> QED
    BY <2>1 DEF Balanced
<1> HIDE DEF tally, n
<1>8. (tally.mean - m) * (tally.mean - m) = 0 /\ n * 0 = 0 /\ tally.m2 + 0 = tally.m2
  BY <1>2, <1>3, <1>4
<1>9. d[n] = tally.m2
  BY <1>7, <1>8
<1>10. /\ tally.n = n /\ tally.n * tally.mean = Scale * Sum(s)
       /\ tally.m2 = SquaredDeviations(s, tally.mean)
  BY <1>4, <1>5, <1>6, <1>7, <1>9
<1> QED
  BY <1>10 DEF tally, n

(* Of finitely many places one holds the greatest of the samples there,    *)
(* and one the least.                                                      *)
LEMMA GreatestPlace ==
  ASSUME NEW n \in Nat, NEW s, \A i \in 1 .. n : s[i] \in Int,
         NEW t \in SUBSET (1 .. n), t # {}
  PROVE  \E i \in t : \A j \in t : s[j] <= s[i]
<1> DEFINE Top(r) == \E i \in r : \A j \in r : s[j] <= s[i]
           S == {k \in 0 .. n : \A r \in SUBSET (1 .. k) : r # {} => Top(r)}
<1>1. 0 \in S
  <2>1. 0 \in 0 .. n /\ \A r \in SUBSET (1 .. 0) : r = {}
    OBVIOUS
  <2> HIDE DEF Top
  <2> QED
    BY <2>1
<1>2. ASSUME NEW k \in 1 .. n, k - 1 \in S PROVE k \in S
  <2> SUFFICES ASSUME NEW r \in SUBSET (1 .. k), r # {} PROVE Top(r)
    OBVIOUS
  <2>1. \A j \in r : s[j] \in Int
    OBVIOUS
  <2> DEFINE q == r \ {k}
  <2>2. q \in SUBSET (1 .. k - 1)
    OBVIOUS
  <2>3. CASE q = {}
    <3>1. r = {k}
      BY <2>3
    <3> QED
      BY <2>1, <3>1
  <2>4. CASE q # {}
    <3>1. PICK i \in q : \A j \in q : s[j] <= s[i]
      BY <1>2, <2>2, <2>4
    <3>2. i \in r /\ s[i] \in Int
      BY <2>1
    <3>3. CASE k \notin r
      <4>1. q = r
        BY <3>3
      <4> QED
        BY <3>1, <4>1
    <3>4. CASE k \in r
      <4>1. \A j \in r : j = k \/ j \in q
        OBVIOUS
      <4> HIDE DEF q
      <4>2. CASE s[i] <= s[k]
        <5>1. ASSUME NEW j \in r PROVE s[j] <= s[k]
          BY <2>1, <3>1, <3>2, <3>4, <4>1, <4>2
        <5> QED
          BY <3>4, <5>1
      <4>3. CASE s[k] <= s[i]
        <5>1. ASSUME NEW j \in r PROVE s[j] <= s[i]
          BY <2>1, <3>1, <3>2, <4>1, <4>3
        <5> QED
          BY <3>2, <5>1
      <4> QED
        BY <2>1, <3>2, <3>4, <4>2, <4>3
    <3> QED
      BY <3>3, <3>4
  <2> QED
    BY <2>3, <2>4
<1> HIDE DEF S
<1>3. n \in S
  BY <1>1, <1>2, StepByStep
<1> QED
  BY <1>3 DEF S

LEMMA LeastPlace ==
  ASSUME NEW n \in Nat, NEW s, \A i \in 1 .. n : s[i] \in Int,
         NEW t \in SUBSET (1 .. n), t # {}
  PROVE  \E i \in t : \A j \in t : s[i] <= s[j]
<1> DEFINE r == [i \in 1 .. n |-> -s[i]]
<1>1. \A i \in 1 .. n : r[i] \in Int /\ r[i] = -s[i]
  OBVIOUS
<1> HIDE DEF r
<1>2. PICK i \in t : \A j \in t : r[j] <= r[i]
  BY <1>1, GreatestPlace
<1>3. \A j \in t : s[j] \in Int /\ r[j] = -s[j]
  BY <1>1
<1>4. \A j \in t : s[i] <= s[j]
  BY <1>2, <1>3
<1> QED
  BY <1>4

-----------------------------------------------------------------------------
(* Sorting                                                                 *)

LEMMA PlacesBelow ==
  ASSUME NEW s \in Seq(Int), NEW v \in Int
  PROVE  /\ IsFiniteSet(DOMAIN s) /\ Cardinality(DOMAIN s) = Len(s)
         /\ IsFiniteSet(Below(s, v)) /\ IsFiniteSet(UpTo(s, v))
         /\ Below(s, v) \subseteq UpTo(s, v) /\ UpTo(s, v) \subseteq DOMAIN s
         /\ Cardinality(Below(s, v)) \in Nat /\ Cardinality(UpTo(s, v)) \in Nat
         /\ Cardinality(UpTo(s, v)) <= Len(s)
<1>1. DOMAIN s = 1 .. Len(s) /\ Len(s) \in Nat /\ 1 \in Int
  OBVIOUS
<1>2. IsFiniteSet(1 .. Len(s)) /\ Cardinality(1 .. Len(s)) = Len(s)
  BY Zenon, <1>1, FirstFinite
<1>3. \A i \in DOMAIN s : s[i] \in Int
  OBVIOUS
<1>4. Below(s, v) \subseteq UpTo(s, v) /\ UpTo(s, v) \subseteq DOMAIN s
  BY <1>3 DEF Below, UpTo
<1>5. IsFiniteSet(UpTo(s, v)) /\ Cardinality(UpTo(s, v)) <= Len(s)
  BY <1>1, <1>2, <1>4, FS_Subset
<1>6. IsFiniteSet(Below(s, v))
  BY <1>4, <1>5, FS_Subset
<1> QED
  BY <1>1, <1>2, <1>4, <1>5, <1>6, FS_CardinalityType

(* The sample at place k of the sorted ones.                               *)
AtPlace(s, k, v) ==
  /\ v \in Range(s)
  /\ Cardinality(Below(s, v)) < k /\ k <= Cardinality(UpTo(s, v))

LEMMA PlaceIsTaken ==
  ASSUME NEW s \in Seq(Int), NEW k \in 1 .. Len(s)
  PROVE  \E v : AtPlace(s, k, v)
<1> DEFINE n == Len(s)
           V == {i \in 1 .. n : k <= Cardinality(UpTo(s, s[i]))}
<1>1. DOMAIN s = 1 .. n /\ n \in Nat /\ \A i \in 1 .. n : s[i] \in Int /\ s[i] \in Range(s)
  BY DEF Range
<1>2. V # {}
  <2>1. PICK i \in 1 .. n : \A j \in 1 .. n : s[j] <= s[i]
    <3>1. 1 .. n \in SUBSET (1 .. n) /\ 1 .. n # {}
      OBVIOUS
    <3> HIDE DEF n
    <3> QED
      BY <1>1, <3>1, GreatestPlace
  <2>2. UpTo(s, s[i]) = 1 .. n
    BY <1>1, <2>1 DEF UpTo
  <2>3. Cardinality(1 .. n) = n
    BY <1>1, PlacesBelow
  <2> QED
    BY <2>2, <2>3
<1>3. PICK i \in V : \A j \in V : s[i] <= s[j]
  <2>1. V \in SUBSET (1 .. n)
    OBVIOUS
  <2> HIDE DEF n, V
  <2> QED
    BY <1>1, <1>2, <2>1, LeastPlace
<1>4. i \in 1 .. n /\ k <= Cardinality(UpTo(s, s[i]))
  OBVIOUS
<1> DEFINE B == Below(s, s[i])
<1>5. B \in SUBSET (1 .. n) /\ \A j \in B : s[j] < s[i]
  BY <1>1 DEF Below
<1>6. Cardinality(B) < k
  <2>1. CASE B = {}
    BY <2>1, FS_EmptySet
  <2>2. CASE B # {}
    <3>1. PICK j \in B : \A l \in B : s[l] <= s[j]
      <4> HIDE DEF n, B
      <4> QED
        BY <1>1, <1>5, <2>2, GreatestPlace
    <3>2. j \in 1 .. n /\ s[j] < s[i]
      BY <1>5
    <3>3. UpTo(s, s[j]) = B
      <4>1. ASSUME NEW l \in 1 .. n PROVE s[l] <= s[j] <=> s[l] < s[i]
        <5>1. s[l] < s[i] => l \in B
          BY <1>1 DEF Below
        <5> HIDE DEF B
        <5>2. s[l] \in Int /\ s[j] \in Int /\ s[i] \in Int
          BY <1>1, <1>4, <3>2
        <5> QED
          BY <3>1, <3>2, <5>1, <5>2
      <4> QED
        BY <1>1, <4>1 DEF UpTo, Below
    <3>4. ~(k <= Cardinality(B))
      <4>1. s[j] \in Int /\ s[i] \in Int
        BY <1>1, <1>4, <3>2
      <4>2. j \notin V
        BY <1>3, <3>2, <4>1
      <4> QED
        BY <3>2, <3>3, <4>2
    <3>5. Cardinality(B) \in Nat
      BY <1>1, <1>4, PlacesBelow
    <3> QED
      BY <3>4, <3>5
  <2> QED
    BY <2>1, <2>2
<1>7. AtPlace(s, k, s[i])
  BY <1>1, <1>4, <1>6 DEF AtPlace
<1> QED
  BY <1>7

LEMMA SortedPlace ==
  ASSUME NEW s \in Seq(Int), NEW k \in 1 .. Len(s)
  PROVE  AtPlace(s, k, Sorted(s)[k]) /\ Sorted(s)[k] \in Int
<1>1. \E v : AtPlace(s, k, v)
  BY PlaceIsTaken
<1>2. Sorted(s)[k] = CHOOSE v \in Range(s) :
        Cardinality(Below(s, v)) < k /\ k <= Cardinality(UpTo(s, v))
  BY DEF Sorted
<1>3. \E v \in Range(s) : Cardinality(Below(s, v)) < k /\ k <= Cardinality(UpTo(s, v))
  BY Zenon, <1>1 DEF AtPlace
<1>4. AtPlace(s, k, Sorted(s)[k])
  BY Zenon, <1>2, <1>3 DEF AtPlace
<1>5. Range(s) \subseteq Int
  BY DEF Range
<1> QED
  BY <1>4, <1>5 DEF AtPlace

(* Non-decreasing.                                                         *)
Ordered(t) == \A j \in 1 .. Len(t) : \A k \in 1 .. Len(t) : j <= k => t[j] <= t[k]

LEMMA SortedIsOrdered ==
  ASSUME NEW s \in Seq(Int)
  PROVE  Sorted(s) \in Seq(Int) /\ Len(Sorted(s)) = Len(s) /\ Ordered(Sorted(s))
<1> DEFINE n == Len(s)
           t == Sorted(s)
<1>1. DOMAIN s = 1 .. n /\ n \in Nat
  OBVIOUS
<1>2. \A k \in 1 .. n : AtPlace(s, k, t[k]) /\ t[k] \in Int
  BY SortedPlace
<1>3. t = [k \in 1 .. n |-> t[k]]
  BY <1>1 DEF Sorted
<1> HIDE DEF t
<1>4. t \in [1 .. n -> Int]
  BY <1>2, <1>3
<1>5. t \in Seq(Int) /\ Len(t) = n /\ DOMAIN t = 1 .. n
  BY <1>1, <1>4
<1>6. ASSUME NEW j \in 1 .. n, NEW k \in 1 .. n, j <= k PROVE t[j] <= t[k]
  <2>1. t[j] \in Int /\ t[k] \in Int
    BY <1>2
  <2>2. ASSUME t[k] < t[j] PROVE FALSE
    <3>1. UpTo(s, t[k]) \subseteq Below(s, t[j])
      <4>1. \A i \in DOMAIN s : s[i] \in Int
        OBVIOUS
      <4> QED
        BY <2>1, <2>2, <4>1 DEF UpTo, Below
    <3>2. Cardinality(UpTo(s, t[k])) <= Cardinality(Below(s, t[j]))
      BY <2>1, <3>1, PlacesBelow, FS_Subset
    <3>3. k <= Cardinality(UpTo(s, t[k])) /\ Cardinality(Below(s, t[j])) < j
      BY <1>2 DEF AtPlace
    <3>4. Cardinality(UpTo(s, t[k])) \in Nat /\ Cardinality(Below(s, t[j])) \in Nat
      BY <2>1, PlacesBelow
    <3> QED
      BY <1>1, <1>6, <3>2, <3>3, <3>4
  <2> QED
    BY <2>1, <2>2
<1>7. Ordered(t)
  BY <1>5, <1>6 DEF Ordered
<1> QED
  BY <1>5, <1>7 DEF t

-----------------------------------------------------------------------------
(* The extremes and the jitter of samples in order                         *)

LEMMA ExtremesOfOrdered ==
  ASSUME NEW t \in Seq(Int), Ordered(t), Len(t) > 0
  PROVE  /\ Len(t) \in Nat \ {0} /\ t[1] \in Int /\ t[Len(t)] \in Int
         /\ Welford(t).min = t[1] /\ Welford(t).max = t[Len(t)]
<1> DEFINE n == Len(t)
<1>1. n \in Nat \ {0} /\ \A i \in 1 .. n : t[i] \in Int
  OBVIOUS
<1>2. PICK w : Measures(w, t) /\ Welford(t) = w[n]
  BY WelfordMeasures
<1> DEFINE S == {k \in 0 .. n : /\ w[k].n = k
                                /\ k > 0 => w[k].min = t[1] /\ w[k].max = t[k]}
<1>3. 0 \in S
  BY <1>1, <1>2 DEF Measures, NoSamples
<1>4. ASSUME NEW k \in 1 .. n, k - 1 \in S PROVE k \in S
  <2>1. w[k] = Update(w[k - 1], t[k]) /\ w[k - 1].n = k - 1
    BY <1>2, <1>4 DEF Measures
  <2>2. /\ w[k].n = w[k - 1].n + 1
        /\ w[k].min = IF w[k - 1].n + 1 = 1 THEN t[k] ELSE Least(w[k - 1].min, t[k])
        /\ w[k].max = IF w[k - 1].n + 1 = 1 THEN t[k] ELSE Greatest(w[k - 1].max, t[k])
    BY <2>1 DEF Update
  <2>3. w[k].n = k /\ k \in 0 .. n
    BY <1>1, <2>1, <2>2
  <2>4. CASE k = 1
    <3>1. w[k].min = t[1] /\ w[k].max = t[k]
      BY <2>1, <2>2, <2>4
    <3> QED
      BY <2>3, <3>1
  <2>5. CASE k # 1
    <3>1. k - 1 \in 1 .. n /\ 1 \in 1 .. n /\ w[k - 1].n + 1 # 1
      BY <1>1, <2>1, <2>5
    <3>2. w[k - 1].min = t[1] /\ w[k - 1].max = t[k - 1]
      BY <1>4, <3>1
    <3>3. t[1] <= t[k] /\ t[k - 1] <= t[k]
      BY <1>1, <3>1 DEF Ordered
    <3>4. t[1] \in Int /\ t[k] \in Int /\ t[k - 1] \in Int
      BY <1>1, <3>1
    <3>5. Least(t[1], t[k]) = t[1] /\ Greatest(t[k - 1], t[k]) = t[k]
      BY <3>3, <3>4 DEF Least, Greatest
    <3>6. w[k].min = t[1] /\ w[k].max = t[k]
      BY <2>2, <3>1, <3>2, <3>5
    <3> QED
      BY <2>3, <3>6
  <2> QED
    BY <2>4, <2>5
<1>5. n \in S
  <2> HIDE DEF S
  <2>1. n \in Nat /\ n \in 0 .. n
    BY <1>1
  <2> QED
    BY <1>3, <1>4, <2>1, StepByStep
<1>6. Welford(t).min = t[1] /\ Welford(t).max = t[n]
  BY <1>1, <1>2, <1>5
<1> QED
  BY <1>1, <1>6

LEMMA JitterOfOrdered ==
  ASSUME NEW t \in Seq(Int), Ordered(t), Len(t) > 1
  PROVE  Jitter(t) = [sum |-> t[Len(t)] - t[1], steps |-> Len(t) - 1]
<1> DEFINE n == Len(t)
<1>1. n \in Nat /\ n > 1 /\ \A i \in 1 .. n : t[i] \in Int
  OBVIOUS
<1>2. PICK j : Running(j, Rises(t), n - 1) /\ JitterSum(t) = j[n - 1]
  BY JitterRuns
<1> DEFINE S == {k \in 0 .. n - 1 : j[k] = t[k + 1] - t[1]}
<1>3. 0 \in S
  BY <1>1, <1>2 DEF Running
<1>4. ASSUME NEW k \in 1 .. n - 1, k - 1 \in S PROVE k \in S
  <2>1. j[k] = j[k - 1] + AbsDiff(t[k + 1], t[k])
    BY <1>2 DEF Running, Rises
  <2>2. k \in 1 .. n /\ k + 1 \in 1 .. n /\ 1 \in 1 .. n /\ (k - 1) + 1 = k
    BY <1>1
  <2>3. t[k] <= t[k + 1]
    BY <1>1, <2>2 DEF Ordered
  <2>4. t[k] \in Int /\ t[k + 1] \in Int /\ t[1] \in Int
    BY <1>1, <2>2
  <2>5. AbsDiff(t[k + 1], t[k]) = t[k + 1] - t[k]
    BY <2>3, <2>4 DEF AbsDiff
  <2>6. j[k - 1] = t[k] - t[1]
    BY <1>4, <2>2
  <2>7. j[k] = t[k + 1] - t[1]
    BY <2>1, <2>4, <2>5, <2>6
  <2> QED
    BY <2>2, <2>7
<1>5. n - 1 \in S
  <2> HIDE DEF S
  <2>1. n - 1 \in Nat /\ n - 1 \in 0 .. n - 1
    BY <1>1
  <2> HIDE DEF n
  <2> QED
    BY <1>3, <1>4, <2>1, StepByStep
<1>6. JitterSum(t) = t[n] - t[1]
  BY <1>1, <1>2, <1>5
<1> QED
  BY <1>1, <1>6 DEF Jitter

-----------------------------------------------------------------------------
(* Percentiles of samples in order                                         *)

Permille(p) == p \in Nat /\ p <= 1000
Rank(t, p) == p * (Len(t) - 1)
Lower(t, p) == Rank(t, p) \div 1000
Beyond(t, p) == Rank(t, p) % 1000

RankIs(t, p, lo, f) ==
  /\ lo \in 0 .. Len(t) - 1
  /\ f \in Nat /\ f < 1000
  /\ Rank(t, p) = 1000 * lo + f

LEMMA RankOfPlace ==
  ASSUME NEW t \in Seq(Int), Len(t) > 0, NEW p, Permille(p)
  PROVE  RankIs(t, p, Lower(t, p), Beyond(t, p))
<1>0. p \in Nat /\ p <= 1000
  BY DEF Permille
<1> DEFINE m == Len(t) - 1
           r == Rank(t, p)
<1>1. m \in Nat
  OBVIOUS
<1>2. r \in Nat /\ r <= 1000 * m
  <2> HIDE DEF m
  <2>1. p * m \in Nat /\ (1000 - p) * m \in Nat /\ p * m + (1000 - p) * m = 1000 * m
    BY <1>0, <1>1
  <2>2. r = p * m
    BY DEF Rank, m
  <2> HIDE DEF r
  <2> QED
    BY <2>1, <2>2
<1> HIDE DEF r, m
<1>3. /\ r \div 1000 \in Nat /\ r % 1000 \in Nat /\ r % 1000 < 1000
      /\ r = 1000 * (r \div 1000) + (r % 1000)
  BY <1>2
<1>4. r \div 1000 <= m
  BY <1>1, <1>2, <1>3
<1> QED
  BY <1>1, <1>2, <1>3, <1>4 DEF r, m, RankIs, Lower, Beyond

(* The percentile lies between the samples at the two places around its    *)
(* rank, and is the weighted mean of the two.                              *)
Around(t, v, lo, f) ==
  /\ v \in Int /\ lo + 1 \in 1 .. Len(t)
  /\ lo + 1 = Len(t) => v = 1000 * t[Len(t)]
  /\ lo + 1 # Len(t) =>
       /\ lo + 2 \in 1 .. Len(t) /\ t[lo + 1] <= t[lo + 2]
       /\ v = 1000 * t[lo + 1] + f * (t[lo + 2] - t[lo + 1])
       /\ 1000 * t[lo + 1] <= v /\ v <= 1000 * t[lo + 2]

LEMMA PercentileAround ==
  ASSUME NEW t \in Seq(Int), Len(t) > 0, Ordered(t), NEW p, Permille(p)
  PROVE  Around(t, Percentile(t, p), Lower(t, p), Beyond(t, p))
<1> DEFINE n == Len(t)
           lo == Lower(t, p)
           f == Beyond(t, p)
           v == Percentile(t, p)
<1>1. n \in Nat \ {0} /\ \A i \in 1 .. n : t[i] \in Int
  OBVIOUS
<1>2. lo \in 0 .. n - 1 /\ f \in Nat /\ f < 1000
  BY RankOfPlace DEF RankIs
<1>3. v = IF lo + 1 >= n THEN 1000 * t[n] ELSE (1000 - f) * t[lo + 1] + f * t[lo + 2]
  BY <1>1 DEF Percentile, Rank, Lower, Beyond
<1> HIDE DEF v, lo, f
<1>4. CASE lo + 1 = n
  <2>1. v = 1000 * t[n] /\ n \in 1 .. n
    BY <1>1, <1>3, <1>4
  <2>2. v \in Int
    BY <1>1, <2>1
  <2> QED
    BY <1>1, <1>4, <2>1, <2>2 DEF v, lo, f, Around
<1>5. CASE lo + 1 # n
  <2>1. ~(lo + 1 >= n) /\ lo + 1 \in 1 .. n /\ lo + 2 \in 1 .. n /\ lo + 1 <= lo + 2
    BY <1>1, <1>2, <1>5
  <2>2. t[lo + 1] <= t[lo + 2]
    BY <1>1, <2>1 DEF Ordered
  <2>3. PICK a \in Int, b \in Int : a = t[lo + 1] /\ b = t[lo + 2]
    BY <1>1, <2>1
  <2>4. v = (1000 - f) * a + f * b /\ a <= b
    BY <1>3, <2>1, <2>2, <2>3
  <2>5. f * (b - a) \in Nat /\ (1000 - f) * (b - a) \in Nat
    BY <1>2, <2>4
  <2>6. v = 1000 * a + f * (b - a) /\ v = 1000 * b - (1000 - f) * (b - a)
    BY <1>2, <2>4
  <2>7. v \in Int /\ 1000 * a <= v /\ v <= 1000 * b
    BY <2>5, <2>6
  <2> QED
    BY <1>5, <2>1, <2>2, <2>3, <2>6, <2>7 DEF v, lo, f, Around
<1> QED
  BY <1>4, <1>5

LEMMA HeavierWeight ==
  ASSUME NEW x \in Int, NEW f \in Nat, NEW g \in Nat, f <= g, NEW d \in Nat
  PROVE  x + f * d <= x + g * d
<1>1. PICK c \in Nat : g = f + c
  OBVIOUS
<1>2. g * d = f * d + c * d /\ f * d \in Nat /\ c * d \in Nat
  BY <1>1
<1> QED
  BY <1>2

LEMMA PercentilesRise ==
  ASSUME NEW t \in Seq(Int), Len(t) > 0, Ordered(t),
         NEW p, Permille(p), NEW q, Permille(q), p <= q
  PROVE  Percentile(t, p) <= Percentile(t, q)
<1> DEFINE n == Len(t)
<1>1. n \in Nat \ {0} /\ \A i \in 1 .. n : t[i] \in Int
  OBVIOUS
<1>2. PICK lo, f : lo = Lower(t, p) /\ f = Beyond(t, p)
  OBVIOUS
<1>3. PICK hi, g : hi = Lower(t, q) /\ g = Beyond(t, q)
  OBVIOUS
<1>4. Rank(t, p) <= Rank(t, q)
  <2>1. PICK m \in Nat : m = n - 1
    BY <1>1
  <2>2. p * m + (q - p) * m = q * m /\ (q - p) * m \in Nat /\ p * m \in Int
    BY DEF Permille
  <2> QED
    BY <2>1, <2>2 DEF Rank
<1>5. /\ lo \in 0 .. n - 1 /\ f \in Nat /\ f < 1000
      /\ hi \in 0 .. n - 1 /\ g \in Nat /\ g < 1000
      /\ Rank(t, p) = 1000 * lo + f /\ Rank(t, q) = 1000 * hi + g
  <2>1. RankIs(t, p, lo, f) /\ RankIs(t, q, hi, g)
    BY Zenon, <1>2, <1>3, RankOfPlace
  <2> QED
    BY <2>1 DEF RankIs
<1>6. lo <= hi /\ (lo = hi => f <= g)
  BY <1>1, <1>4, <1>5
<1> DEFINE v == Percentile(t, p)
           w == Percentile(t, q)
<1>7. /\ v \in Int /\ lo + 1 \in 1 .. n
      /\ lo + 1 = n => v = 1000 * t[n]
      /\ lo + 1 # n => /\ lo + 2 \in 1 .. n /\ t[lo + 1] <= t[lo + 2]
                       /\ v = 1000 * t[lo + 1] + f * (t[lo + 2] - t[lo + 1])
                       /\ v <= 1000 * t[lo + 2]
  <2>1. Around(t, v, lo, f)
    BY Zenon, <1>2, PercentileAround
  <2> QED
    BY <2>1 DEF Around
<1>8. /\ w \in Int /\ hi + 1 \in 1 .. n
      /\ hi + 1 = n => w = 1000 * t[n]
      /\ hi + 1 # n => /\ w = 1000 * t[hi + 1] + g * (t[hi + 2] - t[hi + 1])
                       /\ 1000 * t[hi + 1] <= w
  <2>1. Around(t, w, hi, g)
    BY Zenon, <1>3, PercentileAround
  <2> HIDE DEF w
  <2> QED
    BY ZenonT(30), <2>1 DEF Around
<1> HIDE DEF v, w
<1>9. ASSUME lo = hi PROVE v <= w
  <2>1. CASE lo + 1 = n
    BY <1>7, <1>8, <1>9, <2>1
  <2>2. CASE lo + 1 # n
    <3>0. lo + 1 \in 1 .. n /\ lo + 2 \in 1 .. n /\ t[lo + 1] <= t[lo + 2]
      BY SMTT(30), <1>7, <2>2
    <3>1. PICK a \in Int, b \in Int : a = t[lo + 1] /\ b = t[lo + 2] /\ a <= b
      BY <1>1, <3>0
    <3>2. v = 1000 * a + f * (b - a) /\ w = 1000 * a + g * (b - a)
      BY <1>7, <1>8, <1>9, <2>2, <3>1
    <3>3. f \in Nat /\ g \in Nat /\ f <= g
      BY ZenonT(30), <1>5, <1>6, <1>9
    <3>4. PICK d \in Nat, x \in Int : d = b - a /\ x = 1000 * a
      BY SMTT(30), <3>1
    <3>5. v = x + f * d /\ w = x + g * d
      BY <3>2, <3>4
    <3>6. x + f * d <= x + g * d
      BY <3>3, HeavierWeight
    <3> QED
      BY Zenon, <3>5, <3>6
  <2> QED
    BY <2>1, <2>2
<1>10. ASSUME lo < hi PROVE v <= w
  <2>1. lo + 1 # n /\ lo + 2 \in 1 .. n /\ hi + 1 \in 1 .. n /\ lo + 2 <= hi + 1
    BY <1>1, <1>5, <1>7, <1>8, <1>10
  <2>2. t[lo + 2] <= t[hi + 1]
    BY <1>1, <2>1 DEF Ordered
  <2>3. t[lo + 2] \in Int /\ t[hi + 1] \in Int
    BY <1>1, <2>1
  <2>4. v <= 1000 * t[lo + 2]
    BY <1>7, <2>1
  <2>5. 1000 * t[hi + 1] <= w
    BY <1>1, <1>8, <2>3
  <2> QED
    BY SMTT(30), <1>7, <1>8, <2>2, <2>3, <2>4, <2>5
<1> QED
  BY <1>1, <1>5, <1>6, <1>9, <1>10 DEF v, w

(* The middle is between the two middle samples.                           *)
Middle(t, v) ==
  \E h \in 1 .. Len(t), g \in 1 .. Len(t) :
    /\ 2 * h >= Len(t) /\ 2 * (g - 1) <= Len(t)
    /\ 1000 * t[h] <= v /\ v <= 1000 * t[g]

LEMMA MiddleOfOrdered ==
  ASSUME NEW t \in Seq(Int), Len(t) > 0, Ordered(t)
  PROVE  Middle(t, Percentile(t, 500))
<1> DEFINE n == Len(t)
           v == Percentile(t, 500)
<1>1. n \in Nat \ {0} /\ \A i \in 1 .. n : t[i] \in Int
  OBVIOUS
<1>0. PICK half : half = 500
  OBVIOUS
<1>2. PICK lo, f : lo = Lower(t, half) /\ f = Beyond(t, half)
  OBVIOUS
<1>10. Permille(half)
  BY <1>0 DEF Permille
<1>3. /\ lo \in 0 .. n - 1 /\ f \in Nat /\ f < 1000
      /\ 500 * (n - 1) = 1000 * lo + f
  <2>1. RankIs(t, half, lo, f)
    BY Zenon, <1>2, <1>10, RankOfPlace
  <2> QED
    BY <1>0, <2>1 DEF RankIs, Rank
<1>4. /\ v \in Int /\ lo + 1 \in 1 .. n
      /\ lo + 1 = n => v = 1000 * t[n]
      /\ lo + 1 # n => /\ lo + 2 \in 1 .. n /\ t[lo + 1] <= t[lo + 2]
                       /\ v = 1000 * t[lo + 1] + f * (t[lo + 2] - t[lo + 1])
                       /\ 1000 * t[lo + 1] <= v /\ v <= 1000 * t[lo + 2]
  <2>1. Around(t, Percentile(t, half), lo, f)
    BY Zenon, <1>2, <1>10, PercentileAround
  <2>2. Around(t, v, lo, f)
    BY <1>0, <2>1
  <2> QED
    BY <2>2 DEF Around
<1> HIDE DEF v
<1>5. t[lo + 1] \in Int
  BY <1>1, <1>4
<1>6. CASE lo + 1 = n \/ f = 0
  <2>1. v = 1000 * t[lo + 1]
    <3>1. CASE lo + 1 = n
      BY <1>4, <3>1
    <3>2. CASE lo + 1 # n
      <4>1. f = 0 /\ t[lo + 2] \in Int
        BY <1>1, <1>4, <1>6, <3>2
      <4> QED
        BY <1>4, <1>5, <3>2, <4>1
    <3> QED
      BY <3>1, <3>2
  <2>2. 2 * (lo + 1) >= n /\ 2 * lo <= n
    BY <1>1, <1>3, <1>6
  <2>3. 1000 * t[lo + 1] <= v /\ v <= 1000 * t[lo + 1]
    BY <1>4, <1>5, <2>1
  <2>4. 2 * ((lo + 1) - 1) <= n
    BY <1>3, <2>2
  <2> QED
    BY <1>4, <2>2, <2>3, <2>4 DEF v, Middle
<1>7. CASE lo + 1 # n /\ f # 0
  <2>1. 2 * (lo + 1) >= n /\ 2 * ((lo + 2) - 1) <= n
    BY <1>1, <1>3, <1>7
  <2>2. /\ lo + 1 \in 1 .. n /\ lo + 2 \in 1 .. n
        /\ 1000 * t[lo + 1] <= v /\ v <= 1000 * t[lo + 2]
    BY ZenonT(30), <1>4, <1>7
  <2> QED
    BY SMTT(30), <2>1, <2>2 DEF v, Middle
<1> QED
  BY <1>6, <1>7

-----------------------------------------------------------------------------
(* What a call is made with.                                               *)
CallIsTyped ==
  call.of = "compute" => call.samples \in Seq(Int) /\ Divisible(Len(call.samples))

LEMMA CallsAreTyped == FunctionsSpec => []CallIsTyped
<1>1. NoCall => CallIsTyped
  <2> SUFFICES ASSUME NoCall PROVE call.of # "compute"
    BY DEF CallIsTyped
  <2>1. call.of = "none"
    BY DEF NoCall
  <2> QED
    BY <2>1
<1>2. CallIsTyped /\ [CallFunction]_callVars => CallIsTyped'
  <2> SUFFICES ASSUME CallIsTyped, [CallFunction]_callVars PROVE CallIsTyped'
    OBVIOUS
  <2>1. CASE CallCompute
    <3>1. PICK s \in SeqOf(Samples, MaxSamples) : call' = [of |-> "compute", samples |-> s]
      BY <2>1 DEF CallCompute, Call
    <3>2. PICK m \in 0 .. MaxSamples : s \in [1 .. m -> Samples]
      BY <3>1 DEF SeqOf
    <3>3. s \in Seq(Int) /\ Len(s) = m
      <4>1. m \in Nat /\ Samples \subseteq Int
        BY FunctionsAssumption
      <4>2. s \in [1 .. m -> Int]
        BY <3>2, <4>1
      <4> QED
        BY <4>1, <4>2
    <3>4. Divisible(Len(s))
      BY <3>2, <3>3, FunctionsAssumption DEF Divisible
    <3> QED
      BY <3>1, <3>3, <3>4 DEF CallIsTyped
  <2>2. CASE CallConfigure
    <3>1. call'.of = "configure"
      BY <2>2 DEF CallConfigure, Call
    <3> QED
      BY <3>1 DEF CallIsTyped
  <2>3. CASE CallCodec
    <3>1. call'.of = "codec"
      BY <2>3 DEF CallCodec, Call
    <3> QED
      BY <3>1 DEF CallIsTyped
  <2>4. CASE UNCHANGED callVars
    BY <2>4 DEF CallIsTyped, callVars
  <2> QED
    BY <2>1, <2>2, <2>3, <2>4 DEF CallFunction
<1> QED
  BY <1>1, <1>2, PTL DEF FunctionsSpec

(* Whatever the samples and their order, Welford's single pass over them   *)
(* ends with the mean and the sum of squares that two passes would give,   *)
(* as long as every number of samples divides Scale.                       *)
THEOREM WelfordIsTwoPassAlways == FunctionsSpec => []WelfordIsTwoPass
<1>1. CallIsTyped => WelfordIsTwoPass
  BY WelfordTwice DEF CallIsTyped, WelfordIsTwoPass
<1> QED
  BY <1>1, CallsAreTyped, PTL

Within(t, v) == v \in Int /\ 1000 * t[1] <= v /\ v <= 1000 * t[Len(t)]

LEMMA PercentilesWithin ==
  ASSUME NEW t \in Seq(Int), Len(t) > 0, Ordered(t), NEW p, Permille(p)
  PROVE  Within(t, Percentile(t, p))
<1> DEFINE n == Len(t)
<1>1. n \in Nat \ {0} /\ \A i \in 1 .. n : t[i] \in Int
  OBVIOUS
<1>2. PICK v, lo, f : v = Percentile(t, p) /\ lo = Lower(t, p) /\ f = Beyond(t, p)
  OBVIOUS
<1>3. Around(t, v, lo, f)
  BY Zenon, <1>2, PercentileAround
<1>4. v \in Int /\ lo + 1 \in 1 .. n
  BY <1>3 DEF Around
<1>5. RankIs(t, p, lo, f)
  BY Zenon, <1>2, RankOfPlace
<1>6. lo \in 0 .. n - 1 /\ 1 \in 1 .. n /\ n \in 1 .. n
  BY <1>1, <1>5 DEF RankIs
<1>7. t[1] \in Int /\ t[n] \in Int /\ t[lo + 1] \in Int /\ t[1] <= t[lo + 1] /\ t[1] <= t[n]
  BY <1>1, <1>4, <1>6 DEF Ordered
<1>8. CASE lo + 1 = n
  <2>1. v = 1000 * t[n]
    BY Zenon, <1>3, <1>8 DEF Around
  <2> QED
    BY <1>2, <1>4, <1>7, <2>1 DEF Within
<1>9. CASE lo + 1 # n
  <2>1. /\ lo + 2 \in 1 .. n /\ 1000 * t[lo + 1] <= v /\ v <= 1000 * t[lo + 2]
    BY ZenonT(30), <1>3, <1>9 DEF Around
  <2>2. t[lo + 2] \in Int /\ t[lo + 2] <= t[n]
    BY <1>1, <1>6, <2>1 DEF Ordered
  <2> QED
    BY SMTT(30), <1>2, <1>4, <1>7, <2>1, <2>2 DEF Within
<1> QED
  BY <1>8, <1>9

(* What compute says of samples that are t in order.                       *)
Summary(c, t) ==
  /\ t \in Seq(Int) /\ Len(t) > 0 /\ Ordered(t)
  /\ c.min = t[1] /\ c.max = t[Len(t)]
  /\ c.p50 = Percentile(t, 500) /\ c.p95 = Percentile(t, 950)
  /\ c.p99 = Percentile(t, 990) /\ c.p999 = Percentile(t, 999)
  /\ c.jitter = Jitter(t)

LEMMA ComputeOfSome ==
  ASSUME NEW s \in Seq(Int), Len(s) > 0
  PROVE  Summary(Compute(s), Sorted(s)) /\ Len(Sorted(s)) = Len(s)
<1>1. PICK t : t = Sorted(s)
  OBVIOUS
<1>2. t \in Seq(Int) /\ Len(t) = Len(s) /\ Ordered(t) /\ Len(t) > 0
  BY <1>1, SortedIsOrdered
<1>3. Welford(t).min = t[1] /\ Welford(t).max = t[Len(t)]
  BY <1>2, ExtremesOfOrdered
<1>4. s # <<>>
  OBVIOUS
<1>5. /\ Compute(s).min = Welford(t).min /\ Compute(s).max = Welford(t).max
      /\ Compute(s).p50 = Percentile(t, 500)
      /\ Compute(s).p95 = Percentile(t, 950)
      /\ Compute(s).p99 = Percentile(t, 990)
      /\ Compute(s).p999 = Percentile(t, 999)
      /\ Compute(s).jitter = Jitter(t)
  BY <1>1, <1>4 DEF Compute
<1> QED
  BY <1>1, <1>2, <1>3, <1>5 DEF Summary

(* Why JitterIsOfConsecutive fails, for any samples in any order: compute  *)
(* sorts before it takes the jitter, so that only the spread is left of it.*)
THEOREM JitterOfComputeIsSpread ==
  ASSUME NEW s \in Seq(Int), Len(s) > 1
  PROVE  Compute(s).jitter =
           [sum |-> Compute(s).max - Compute(s).min, steps |-> Len(s) - 1]
<1>1. Len(s) > 0
  OBVIOUS
<1>2. PICK c, t : c = Compute(s) /\ Summary(c, t) /\ Len(t) = Len(s)
  BY Zenon, <1>1, ComputeOfSome
<1>3. Jitter(t) = [sum |-> t[Len(t)] - t[1], steps |-> Len(t) - 1]
  BY <1>2, JitterOfOrdered DEF Summary
<1>4. c.jitter = [sum |-> c.max - c.min, steps |-> Len(s) - 1]
  BY <1>2, <1>3 DEF Summary
<1> QED
  BY Zenon, <1>2, <1>4

(* The percentiles of stats::compute are in order between the extremes and *)
(* the median has half of the samples on either side, for any samples.     *)
THEOREM PercentilesInOrderAlways == FunctionsSpec => []PercentilesInOrder
<1>1. CallIsTyped => PercentilesInOrder
  <2> DEFINE Low(v) == {i \in DOMAIN call.samples : 1000 * call.samples[i] <= v}
             High(v) == {i \in DOMAIN call.samples : 1000 * call.samples[i] >= v}
             InOrder(c) ==
               /\ 1000 * c.min <= c.p50 /\ c.p50 <= c.p95 /\ c.p95 <= c.p99
               /\ c.p99 <= c.p999 /\ c.p999 <= 1000 * c.max
               /\ 2 * Cardinality(Low(c.p50)) >= Len(call.samples)
               /\ 2 * Cardinality(High(c.p50)) >= Len(call.samples)
  <2> SUFFICES ASSUME CallIsTyped, call.of = "compute", call.samples # <<>>
               PROVE  InOrder(Compute(call.samples))
    BY DEF PercentilesInOrder
  <2>1. PICK s : s = call.samples
    OBVIOUS
  <2>2. s \in Seq(Int) /\ s # <<>>
    BY <2>1 DEF CallIsTyped
  <2>3. Len(s) > 0 /\ Len(s) \in Nat
    BY <2>2
  <2>4. PICK c, t : c = Compute(s) /\ t = Sorted(s)
    OBVIOUS
  <2>5. Summary(c, t) /\ Len(t) = Len(s)
    BY Zenon, <2>2, <2>3, <2>4, ComputeOfSome
  <2>6. /\ t \in Seq(Int) /\ Len(t) > 0 /\ Ordered(t)
        /\ c.min = t[1] /\ c.max = t[Len(t)]
    BY <2>5 DEF Summary
  <2>7. PICK x, y, z, e : x = 500 /\ y = 950 /\ z = 990 /\ e = 999
    OBVIOUS
  <2>8. /\ Permille(x) /\ Permille(y) /\ Permille(z) /\ Permille(e)
        /\ x <= y /\ y <= z /\ z <= e
    BY <2>7 DEF Permille
  <2>9. /\ c.p50 = Percentile(t, x) /\ c.p95 = Percentile(t, y)
        /\ c.p99 = Percentile(t, z) /\ c.p999 = Percentile(t, e)
    BY <2>5, <2>7 DEF Summary
  <2>10. c.p50 <= c.p95 /\ c.p95 <= c.p99 /\ c.p99 <= c.p999
    BY Zenon, <2>6, <2>8, <2>9, PercentilesRise
  <2>11. Within(t, c.p50) /\ Within(t, c.p999)
    BY Zenon, <2>6, <2>8, <2>9, PercentilesWithin
  <2>12. 1000 * c.min <= c.p50 /\ c.p999 <= 1000 * c.max /\ c.p50 \in Int
    BY <2>6, <2>11 DEF Within
  <2>13. PICK h \in 1 .. Len(s), g \in 1 .. Len(s) :
           /\ 2 * h >= Len(s) /\ 2 * (g - 1) <= Len(s)
           /\ 1000 * t[h] <= c.p50 /\ c.p50 <= 1000 * t[g]
    <3>1. Middle(t, Percentile(t, 500))
      BY <2>6, MiddleOfOrdered
    <3>2. Middle(t, c.p50)
      BY <2>5, <3>1 DEF Summary
    <3> QED
      BY <2>5, <3>2 DEF Middle
  <2>14. /\ AtPlace(s, h, t[h]) /\ AtPlace(s, g, t[g]) /\ t[h] \in Int /\ t[g] \in Int
    BY <2>2, <2>4, <2>13, SortedPlace
  <2>15. PICK low : low = {i \in DOMAIN s : 1000 * s[i] <= c.p50}
    OBVIOUS
  <2>16. PICK high : high = {i \in DOMAIN s : 1000 * s[i] >= c.p50}
    OBVIOUS
  <2>17. 2 * Cardinality(low) >= Len(s)
    <3>1. UpTo(s, t[h]) \subseteq low /\ low \subseteq DOMAIN s
      BY SMTT(30), <2>2, <2>12, <2>13, <2>14, <2>15 DEF UpTo
    <3>2. IsFiniteSet(low) /\ Cardinality(UpTo(s, t[h])) <= Cardinality(low)
      BY <2>2, <2>14, <3>1, PlacesBelow, FS_Subset
    <3>3. h <= Cardinality(UpTo(s, t[h])) /\ Cardinality(UpTo(s, t[h])) \in Nat
      BY <2>2, <2>14, PlacesBelow DEF AtPlace
    <3>4. Cardinality(low) \in Nat
      BY <3>2, FS_CardinalityType
    <3> QED
      BY <2>3, <2>13, <3>2, <3>3, <3>4
  <2>18. 2 * Cardinality(high) >= Len(s)
    <3>1. (DOMAIN s) \ Below(s, t[g]) \subseteq high /\ high \subseteq DOMAIN s
      BY SMTT(30), <2>2, <2>12, <2>13, <2>14, <2>16 DEF Below
    <3>2. /\ IsFiniteSet(DOMAIN s) /\ Cardinality(DOMAIN s) = Len(s)
          /\ IsFiniteSet(Below(s, t[g])) /\ Below(s, t[g]) \subseteq DOMAIN s
          /\ Cardinality(Below(s, t[g])) \in Nat
      BY <2>2, <2>14, PlacesBelow
    <3>3. Cardinality((DOMAIN s) \ Below(s, t[g])) = Len(s) - Cardinality(Below(s, t[g]))
      <4>1. (DOMAIN s) \cap Below(s, t[g]) = Below(s, t[g])
        BY <3>2
      <4>2. Cardinality((DOMAIN s) \ Below(s, t[g]))
              = Cardinality(DOMAIN s) - Cardinality((DOMAIN s) \cap Below(s, t[g]))
        BY <3>2, FS_Difference
      <4> QED
        BY <3>2, <4>1, <4>2
    <3>4. /\ IsFiniteSet(high)
          /\ Cardinality((DOMAIN s) \ Below(s, t[g])) <= Cardinality(high)
      BY <3>1, <3>2, FS_Subset
    <3>5. Cardinality(high) \in Nat /\ Cardinality(Below(s, t[g])) < g
      BY <2>14, <3>4, FS_CardinalityType DEF AtPlace
    <3> QED
      BY <2>3, <2>13, <3>2, <3>3, <3>4, <3>5
  <2> QED
    BY <2>1, <2>4, <2>10, <2>12, <2>15, <2>16, <2>17, <2>18
<1> QED
  BY <1>1, CallsAreTyped, PTL

-----------------------------------------------------------------------------
(* A recursive function is what its definition chooses, so each of Codec   *)
(* needs one to choose.  What they have in common: the value at a depth is *)
(* made from the one below, and that at depth 0 from nothing.              *)

JsonOver(below, d) ==
  IF d = 0 THEN Scalars
  ELSE Scalars \cup [kind : {"array"}, items : Seq(below)]
         \cup [kind : {"object"}, members : Seq(STRING \X below)]

CborOver(below, d) ==
  IF d = 0 THEN Scalars
  ELSE Scalars \cup [kind : {"array", "map"}, items : Seq(below)]

EncodeOver(below, v) ==
  CASE v.kind = "array"  -> Array(EncodeItems(v.items, below))
    [] v.kind = "object" -> Map(EncodeMembers(v.members, below))
    [] v.kind = "number" -> Num(Signed(v.n))
    [] OTHER             -> v

DecodeOver(below, c) ==
  CASE c.kind = "array" -> Array(DecodeItems(c.items, below))
    [] c.kind = "map"   -> Object(DecodeMembers(c.items, below))
    [] OTHER            -> c

SurvivesOver(below, v) ==
  LET items == CASE v.kind = "array"  -> v.items
                 [] v.kind = "object" -> [i \in DOMAIN v.members |-> v.members[i][2]]
                 [] OTHER -> <<>>
  IN /\ \A i \in DOMAIN items :
          below[items[i]] /\ (IsContainer(items[i]) => i = Len(items))
     /\ v.kind = "number" => v.n < IntRange \div 2

Level(what, below, d) ==
  CASE what = "json"     -> JsonOver(below, d)
    [] what = "cbor"     -> CborOver(below, d)
    [] what = "encode"   -> [v \in Json[d] |-> EncodeOver(below, v)]
    [] what = "decode"   -> [c \in Cbor[d] |-> DecodeOver(below, c)]
    [] what = "survives" -> [v \in Json[d] |-> SurvivesOver(below, v)]

Layered(g, what) == g = [d \in 0 .. MaxDepth |-> Level(what, g[d - 1], d)]

Grounded(what) == \A x, y : Level(what, x, 0) = Level(what, y, 0)

LEMMA LayersExist ==
  ASSUME NEW what, Grounded(what)
  PROVE  \E g : Layered(g, what)
<1> DEFINE Good(g, k) == g = [d \in 0 .. k |-> Level(what, g[d - 1], d)]
           N == {k \in Nat : \E g : Good(g, k)}
<1>0. \A x, y : Level(what, x, 0) = Level(what, y, 0)
  BY DEF Grounded
<1>1. 0 \in N
  <2> DEFINE g == [d \in 0 .. 0 |-> Level(what, 0, d)]
  <2>1. \A d \in 0 .. 0 : Level(what, g[d - 1], d) = Level(what, 0, d)
    BY <1>0
  <2>2. Good(g, 0)
    BY <2>1
  <2> HIDE DEF g, Good
  <2> QED
    BY <2>2
<1>2. ASSUME NEW k \in Nat, k \in N PROVE k + 1 \in N
  <2>1. PICK g : Good(g, k)
    <3> HIDE DEF Good
    <3> QED
      BY <1>2
  <2> DEFINE h == [d \in 0 .. k + 1 |-> IF d <= k THEN g[d] ELSE Level(what, g[k], d)]
  <2>2. \A d \in 0 .. k : h[d] = g[d] /\ g[d] = Level(what, g[d - 1], d)
    <3>1. PICK u : u = [d \in 0 .. k |-> Level(what, g[d - 1], d)]
      OBVIOUS
    <3>2. u = g /\ \A d \in 0 .. k : u[d] = Level(what, g[d - 1], d)
      BY <2>1, <3>1
    <3> QED
      BY <3>2
  <2>3. ASSUME NEW d \in 0 .. k + 1 PROVE h[d] = Level(what, h[d - 1], d)
    <3>1. CASE d = 0
      BY <1>0, <2>2, <3>1
    <3>2. CASE d \in 1 .. k
      <4>1. d - 1 \in 0 .. k /\ d \in 0 .. k
        BY <3>2
      <4> QED
        BY <2>2, <4>1
    <3>3. CASE d = k + 1
      <4>1. h[d] = Level(what, g[k], d) /\ d - 1 = k
        BY <3>3
      <4> QED
        BY <2>2, <4>1
    <3> QED
      BY <3>1, <3>2, <3>3
  <2>4. h = [d \in 0 .. k + 1 |-> h[d]]
    OBVIOUS
  <2> HIDE DEF h
  <2>5. Good(h, k + 1)
    BY <2>3, <2>4
  <2> HIDE DEF Good
  <2> QED
    BY <2>5
<1>3. MaxDepth \in N
  <2> HIDE DEF N
  <2> QED
    BY <1>1, <1>2, Induction, CodecAssumption
<1> HIDE DEF Good
<1>4. \E g : Good(g, MaxDepth)
  BY <1>3
<1> QED
  BY <1>4 DEF Good, Layered

JsonLayers(g) ==
  g = [d \in 0 .. MaxDepth |->
         IF d = 0 THEN Scalars
         ELSE Scalars \cup [kind : {"array"}, items : Seq(g[d - 1])]
                \cup [kind : {"object"}, members : Seq(STRING \X g[d - 1])]]

LEMMA JsonDef == \A d \in 0 .. MaxDepth : Json[d] = JsonOver(Json[d - 1], d)
<1>1. Grounded("json")
  BY DEF Grounded, Level, JsonOver
<1>2. PICK g : Layered(g, "json")
  BY <1>1, LayersExist
<1>3. JsonLayers(g)
  <2>1. \A d \in 0 .. MaxDepth : Level("json", g[d - 1], d) = JsonOver(g[d - 1], d)
    BY DEF Level
  <2>2. g = [d \in 0 .. MaxDepth |-> JsonOver(g[d - 1], d)]
    BY <1>2, <2>1 DEF Layered
  <2> QED
    BY <2>2 DEF JsonLayers, JsonOver
<1>4. Json = CHOOSE f : JsonLayers(f)
  BY DEF Json, JsonLayers
<1>5. JsonLayers(Json)
  BY <1>3, <1>4
<1>6. Json = [d \in 0 .. MaxDepth |-> JsonOver(Json[d - 1], d)]
  BY <1>5 DEF JsonLayers, JsonOver
<1>7. PICK u : u = [d \in 0 .. MaxDepth |-> JsonOver(Json[d - 1], d)]
  OBVIOUS
<1>8. u = Json /\ \A d \in 0 .. MaxDepth : u[d] = JsonOver(Json[d - 1], d)
  BY <1>6, <1>7
<1> QED
  BY <1>8

CborLayers(g) ==
  g = [d \in 0 .. MaxDepth |->
         IF d = 0 THEN Scalars
         ELSE Scalars \cup [kind : {"array", "map"}, items : Seq(g[d - 1])]]

LEMMA CborDef == \A d \in 0 .. MaxDepth : Cbor[d] = CborOver(Cbor[d - 1], d)
<1>1. Grounded("cbor")
  BY DEF Grounded, Level, CborOver
<1>2. PICK g : Layered(g, "cbor")
  BY <1>1, LayersExist
<1>3. CborLayers(g)
  <2>1. \A d \in 0 .. MaxDepth : Level("cbor", g[d - 1], d) = CborOver(g[d - 1], d)
    BY DEF Level
  <2>2. g = [d \in 0 .. MaxDepth |-> CborOver(g[d - 1], d)]
    BY <1>2, <2>1 DEF Layered
  <2> QED
    BY <2>2 DEF CborLayers, CborOver
<1>4. Cbor = CHOOSE f : CborLayers(f)
  BY DEF Cbor, CborLayers
<1>5. CborLayers(Cbor)
  BY <1>3, <1>4
<1>6. Cbor = [d \in 0 .. MaxDepth |-> CborOver(Cbor[d - 1], d)]
  BY <1>5 DEF CborLayers, CborOver
<1>7. PICK u : u = [d \in 0 .. MaxDepth |-> CborOver(Cbor[d - 1], d)]
  OBVIOUS
<1>8. u = Cbor /\ \A d \in 0 .. MaxDepth : u[d] = CborOver(Cbor[d - 1], d)
  BY <1>6, <1>7
<1> QED
  BY <1>8

LEMMA ScalarKinds ==
  \A v \in Scalars : /\ v.kind \in {"null", "text", "number"}
                     /\ v.kind = "null" => v = Null
                     /\ v.kind = "text" => v = Text(v.text) /\ v.text \in STRING
                     /\ v.kind = "number" => v = Num(v.n) /\ v.n \in -(IntRange \div 2) .. IntRange - 1
BY DEF Scalars, Null, Text, Num

LEMMA GroundScalars == 0 \in 0 .. MaxDepth /\ Json[0] = Scalars /\ Cbor[0] = Scalars
<1>1. 0 \in 0 .. MaxDepth
  BY CodecAssumption
<1> QED
  BY <1>1, JsonDef, CborDef DEF JsonOver, CborOver

EncodeLayers(g) ==
  g = [d \in 0 .. MaxDepth |->
         [v \in Json[d] |->
            CASE v.kind = "array"  -> Array(EncodeItems(v.items, g[d - 1]))
              [] v.kind = "object" -> Map(EncodeMembers(v.members, g[d - 1]))
              [] v.kind = "number" -> Num(Signed(v.n))
              [] OTHER             -> v]]

LEMMA EncodeDef ==
  \A d \in 0 .. MaxDepth :
    EncodeValue[d] = [v \in Json[d] |-> EncodeOver(EncodeValue[d - 1], v)]
<1>1. Grounded("encode")
  <2>1. \A x, y : \A v \in Json[0] : EncodeOver(x, v) = EncodeOver(y, v)
    BY GroundScalars, ScalarKinds DEF EncodeOver
  <2>2. \A x, y : [v \in Json[0] |-> EncodeOver(x, v)] = [v \in Json[0] |-> EncodeOver(y, v)]
    BY <2>1
  <2> QED
    BY <2>2 DEF Grounded, Level
<1>2. PICK g : Layered(g, "encode")
  BY <1>1, LayersExist
<1>3. EncodeLayers(g)
  <2>1. \A d \in 0 .. MaxDepth :
          Level("encode", g[d - 1], d) = [v \in Json[d] |-> EncodeOver(g[d - 1], v)]
    BY DEF Level
  <2>2. g = [d \in 0 .. MaxDepth |-> [v \in Json[d] |-> EncodeOver(g[d - 1], v)]]
    BY <1>2, <2>1 DEF Layered
  <2> QED
    BY Zenon, <2>2 DEF EncodeLayers, EncodeOver
<1>4. EncodeValue = CHOOSE f : EncodeLayers(f)
  BY DEF EncodeValue, EncodeLayers
<1>5. EncodeLayers(EncodeValue)
  BY Zenon, <1>3, <1>4
<1>6. EncodeValue = [d \in 0 .. MaxDepth |-> [v \in Json[d] |-> EncodeOver(EncodeValue[d - 1], v)]]
  BY Zenon, <1>5 DEF EncodeLayers, EncodeOver
<1>7. PICK u : u = [d \in 0 .. MaxDepth |-> [v \in Json[d] |-> EncodeOver(EncodeValue[d - 1], v)]]
  OBVIOUS
<1>8. u = EncodeValue
      /\ \A d \in 0 .. MaxDepth : u[d] = [v \in Json[d] |-> EncodeOver(EncodeValue[d - 1], v)]
  BY <1>6, <1>7
<1> QED
  BY <1>8

DecodeLayers(g) ==
  g = [d \in 0 .. MaxDepth |->
         [c \in Cbor[d] |->
            CASE c.kind = "array" -> Array(DecodeItems(c.items, g[d - 1]))
              [] c.kind = "map"   -> Object(DecodeMembers(c.items, g[d - 1]))
              [] OTHER            -> c]]

LEMMA DecodeDef ==
  \A d \in 0 .. MaxDepth :
    DecodeValue[d] = [c \in Cbor[d] |-> DecodeOver(DecodeValue[d - 1], c)]
<1>1. Grounded("decode")
  <2>1. \A x, y : \A c \in Cbor[0] : DecodeOver(x, c) = DecodeOver(y, c)
    BY GroundScalars, ScalarKinds DEF DecodeOver
  <2>2. \A x, y : [c \in Cbor[0] |-> DecodeOver(x, c)] = [c \in Cbor[0] |-> DecodeOver(y, c)]
    BY <2>1
  <2> QED
    BY <2>2 DEF Grounded, Level
<1>2. PICK g : Layered(g, "decode")
  BY <1>1, LayersExist
<1>3. DecodeLayers(g)
  <2>1. \A d \in 0 .. MaxDepth :
          Level("decode", g[d - 1], d) = [c \in Cbor[d] |-> DecodeOver(g[d - 1], c)]
    BY DEF Level
  <2>2. g = [d \in 0 .. MaxDepth |-> [c \in Cbor[d] |-> DecodeOver(g[d - 1], c)]]
    BY <1>2, <2>1 DEF Layered
  <2> QED
    BY Zenon, <2>2 DEF DecodeLayers, DecodeOver
<1>4. DecodeValue = CHOOSE f : DecodeLayers(f)
  BY DEF DecodeValue, DecodeLayers
<1>5. DecodeLayers(DecodeValue)
  BY Zenon, <1>3, <1>4
<1>6. DecodeValue = [d \in 0 .. MaxDepth |-> [c \in Cbor[d] |-> DecodeOver(DecodeValue[d - 1], c)]]
  BY Zenon, <1>5 DEF DecodeLayers, DecodeOver
<1>7. PICK u : u = [d \in 0 .. MaxDepth |-> [c \in Cbor[d] |-> DecodeOver(DecodeValue[d - 1], c)]]
  OBVIOUS
<1>8. u = DecodeValue
      /\ \A d \in 0 .. MaxDepth : u[d] = [c \in Cbor[d] |-> DecodeOver(DecodeValue[d - 1], c)]
  BY <1>6, <1>7
<1> QED
  BY <1>8

SurvivesLayers(g) ==
  g = [d \in 0 .. MaxDepth |->
         [v \in Json[d] |->
            LET items == CASE v.kind = "array"  -> v.items
                           [] v.kind = "object" -> [i \in DOMAIN v.members |-> v.members[i][2]]
                           [] OTHER -> <<>>
            IN /\ \A i \in DOMAIN items :
                    g[d - 1][items[i]] /\ (IsContainer(items[i]) => i = Len(items))
               /\ v.kind = "number" => v.n < IntRange \div 2]]

LEMMA SurvivesDef ==
  \A d \in 0 .. MaxDepth :
    Survives[d] = [v \in Json[d] |-> SurvivesOver(Survives[d - 1], v)]
<1>1. Grounded("survives")
  <2>1. \A x, y : \A v \in Json[0] : SurvivesOver(x, v) = SurvivesOver(y, v)
    BY GroundScalars, ScalarKinds DEF SurvivesOver
  <2>2. \A x, y : [v \in Json[0] |-> SurvivesOver(x, v)] = [v \in Json[0] |-> SurvivesOver(y, v)]
    BY <2>1
  <2> QED
    BY <2>2 DEF Grounded, Level
<1>2. PICK g : Layered(g, "survives")
  BY <1>1, LayersExist
<1>3. SurvivesLayers(g)
  <2>1. \A d \in 0 .. MaxDepth :
          Level("survives", g[d - 1], d) = [v \in Json[d] |-> SurvivesOver(g[d - 1], v)]
    BY DEF Level
  <2>2. g = [d \in 0 .. MaxDepth |-> [v \in Json[d] |-> SurvivesOver(g[d - 1], v)]]
    BY <1>2, <2>1 DEF Layered
  <2> QED
    BY Zenon, <2>2 DEF SurvivesLayers, SurvivesOver
<1>4. Survives = CHOOSE f : SurvivesLayers(f)
  BY DEF Survives, SurvivesLayers
<1>5. SurvivesLayers(Survives)
  BY Zenon, <1>3, <1>4
<1>6. Survives = [d \in 0 .. MaxDepth |-> [v \in Json[d] |-> SurvivesOver(Survives[d - 1], v)]]
  BY Zenon, <1>5 DEF SurvivesLayers, SurvivesOver
<1>7. PICK u : u = [d \in 0 .. MaxDepth |-> [v \in Json[d] |-> SurvivesOver(Survives[d - 1], v)]]
  OBVIOUS
<1>8. u = Survives
      /\ \A d \in 0 .. MaxDepth : u[d] = [v \in Json[d] |-> SurvivesOver(Survives[d - 1], v)]
  BY <1>6, <1>7
<1> QED
  BY <1>8

-----------------------------------------------------------------------------
(* The walk of a cursor over n items: at each it takes e[i] and goes on at *)
(* nx[i], which is further on.                                             *)

Walk(w, n, e, nx) ==
  w = [i \in 1 .. n + 2 |-> IF i > n THEN <<>> ELSE <<e[i]>> \o w[nx[i]]]

Forward(n, nx) == n \in Nat /\ \A i \in 1 .. n : nx[i] \in i + 1 .. n + 2

LEMMA WalkExists ==
  ASSUME NEW n, NEW e, NEW nx, Forward(n, nx)
  PROVE  \E w : Walk(w, n, e, nx)
<1>0. n \in Nat /\ \A i \in 1 .. n : nx[i] \in i + 1 .. n + 2
  BY DEF Forward
<1> DEFINE At(w, i) == IF i > n THEN <<>> ELSE <<e[i]>> \o w[nx[i]]
           Good(w, m) == w = [i \in m .. n + 2 |-> At(w, i)]
           N == {k \in Nat : k <= n + 1 => \E w : Good(w, n + 2 - k)}
<1>1. 0 \in N
  <2> DEFINE w == [i \in n + 2 .. n + 2 |-> <<>>]
  <2>1. n + 2 - 0 = n + 2 /\ \A i \in n + 2 .. n + 2 : At(w, i) = <<>>
    BY <1>0
  <2> HIDE DEF At
  <2>2. Good(w, n + 2 - 0)
    BY <2>1
  <2> HIDE DEF w, Good
  <2> QED
    BY <2>2
<1>2. ASSUME NEW k \in Nat, k \in N PROVE k + 1 \in N
  <2> SUFFICES ASSUME k + 1 <= n + 1 PROVE \E w : Good(w, n + 2 - (k + 1))
    <3> HIDE DEF Good
    <3> QED
      OBVIOUS
  <2>1. PICK w : Good(w, n + 2 - k)
    <3> HIDE DEF Good
    <3> QED
      BY <1>0, <1>2
  <2> DEFINE m == n + 2 - (k + 1)
             h == [i \in m .. n + 2 |-> IF i = m THEN At(w, m) ELSE w[i]]
  <2>2. m \in 1 .. n + 1 /\ n + 2 - k = m + 1
    BY <1>0
  <2> HIDE DEF m
  <2>3. \A i \in m + 1 .. n + 2 : h[i] = w[i] /\ w[i] = At(w, i)
    <3>1. PICK u : u = [i \in m + 1 .. n + 2 |-> At(w, i)]
      OBVIOUS
    <3>2. u = w /\ \A i \in m + 1 .. n + 2 : u[i] = At(w, i)
      <4> HIDE DEF At
      <4> QED
        BY <2>1, <2>2, <3>1
    <3> QED
      BY <1>0, <2>2, <3>2
  <2>4. \A i \in m .. n + 2 : At(h, i) = At(w, i)
    <3> SUFFICES ASSUME NEW i \in m .. n + 2, i <= n PROVE h[nx[i]] = w[nx[i]]
      BY <1>0, <2>2
    <3>1. nx[i] \in m + 1 .. n + 2
      BY <1>0, <2>2
    <3> QED
      BY <2>3, <3>1
  <2>5. \A i \in m .. n + 2 : h[i] = At(w, i)
    <3> SUFFICES ASSUME NEW i \in m .. n + 2 PROVE h[i] = At(w, i)
      OBVIOUS
    <3>1. CASE i = m
      BY <3>1
    <3>2. CASE i # m
      <4>1. i \in m + 1 .. n + 2
        BY <1>0, <2>2, <3>2
      <4> QED
        BY <2>3, <4>1
    <3> QED
      BY <3>1, <3>2
  <2>6. h = [i \in m .. n + 2 |-> h[i]]
    OBVIOUS
  <2> HIDE DEF h, At
  <2>7. Good(h, m)
    BY <2>4, <2>5, <2>6
  <2> HIDE DEF Good
  <2> QED
    BY <2>7 DEF m
<1>3. n + 1 \in N
  <2> HIDE DEF N
  <2> QED
    BY <1>0, <1>1, <1>2, Induction
<1>4. \E w : Good(w, 1)
  <2> HIDE DEF Good
  <2>1. n + 2 - (n + 1) = 1
    BY <1>0
  <2> QED
    BY <1>0, <1>3, <2>1
<1> QED
  BY <1>4 DEF Walk

LEMMA WalkSteps ==
  ASSUME NEW n, NEW e, NEW nx, NEW w, Forward(n, nx), Walk(w, n, e, nx)
  PROVE  /\ w[n + 1] = <<>> /\ w[n + 2] = <<>>
         /\ \A i \in 1 .. n : w[i] = <<e[i]>> \o w[nx[i]]
<1>1. n \in Nat
  BY DEF Forward
<1>2. PICK u : u = [i \in 1 .. n + 2 |-> IF i > n THEN <<>> ELSE <<e[i]>> \o w[nx[i]]]
  OBVIOUS
<1>3. u = w /\ \A i \in 1 .. n + 2 : u[i] = IF i > n THEN <<>> ELSE <<e[i]>> \o w[nx[i]]
  BY <1>2 DEF Walk
<1>4. n + 1 \in 1 .. n + 2 /\ n + 2 \in 1 .. n + 2 /\ n + 1 > n /\ n + 2 > n
  BY <1>1
<1>5. \A i \in 1 .. n : i \in 1 .. n + 2 /\ ~(i > n)
  BY <1>1
<1> QED
  BY Zenon, <1>3, <1>4, <1>5

LEMMA WalkTyped ==
  ASSUME NEW n, NEW e, NEW nx, NEW w, Forward(n, nx), Walk(w, n, e, nx),
         NEW A, \A i \in 1 .. n : e[i] \in A
  PROVE  \A i \in 1 .. n + 2 : w[i] \in Seq(A)
<1>1. n \in Nat /\ \A i \in 1 .. n : nx[i] \in i + 1 .. n + 2
  BY DEF Forward
<1>2. /\ w[n + 1] = <<>> /\ w[n + 2] = <<>>
      /\ \A i \in 1 .. n : w[i] = <<e[i]>> \o w[nx[i]]
  BY WalkSteps
<1> DEFINE S == {k \in Nat : k <= n => \A i \in n + 1 - k .. n + 2 : w[i] \in Seq(A)}
<1>3. 0 \in S
  <2>1. \A i \in n + 1 - 0 .. n + 2 : i = n + 1 \/ i = n + 2
    BY <1>1
  <2>2. \A i \in n + 1 - 0 .. n + 2 : w[i] = <<>>
    BY <1>2, <2>1
  <2>3. <<>> \in Seq(A)
    OBVIOUS
  <2>4. \A i \in n + 1 - 0 .. n + 2 : w[i] \in Seq(A)
    BY Zenon, <2>2, <2>3
  <2> QED
    BY <2>4
<1>4. ASSUME NEW k \in Nat, k \in S PROVE k + 1 \in S
  <2> SUFFICES ASSUME k + 1 <= n, NEW i \in n + 1 - (k + 1) .. n + 2 PROVE w[i] \in Seq(A)
    OBVIOUS
  <2>1. \A j \in n + 1 - k .. n + 2 : w[j] \in Seq(A)
    BY <1>1, <1>4
  <2>2. CASE i = n - k
    <3>1. i \in 1 .. n /\ nx[i] \in n + 1 - k .. n + 2
      BY <1>1, <2>2
    <3>2. PICK a : a = e[i] /\ a \in A
      BY <3>1
    <3>3. PICK t : t = w[nx[i]] /\ t \in Seq(A)
      BY <2>1, <3>1
    <3>4. <<a>> \o t \in Seq(A)
      BY <3>2, <3>3
    <3> QED
      BY <1>2, <3>1, <3>2, <3>3, <3>4
  <2>3. CASE i # n - k
    BY <1>1, <2>1, <2>3
  <2> QED
    BY <2>2, <2>3
<1>5. n \in S
  <2> HIDE DEF S
  <2> QED
    BY <1>1, <1>3, <1>4, Induction
<1> QED
  BY <1>1, <1>5

(* What is left of a sequence from a place on.                             *)
From(s, j) == [k \in 1 .. Len(s) - j + 1 |-> s[k + j - 1]]

LEMMA FromSteps ==
  ASSUME NEW A, NEW s \in Seq(A)
  PROVE  /\ From(s, 1) = s /\ From(s, Len(s) + 1) = <<>>
         /\ \A j \in 1 .. Len(s) + 1 : From(s, j) \in Seq(A) /\ Len(From(s, j)) = Len(s) - j + 1
<1>1. Len(s) \in Nat
  OBVIOUS
<1>2. From(s, 1) = s
  <2>1. Len(s) - 1 + 1 = Len(s) /\ \A k \in 1 .. Len(s) : k + 1 - 1 = k
    BY <1>1
  <2> QED
    BY <2>1 DEF From
<1>3. From(s, Len(s) + 1) = <<>>
  <2>1. Len(s) - (Len(s) + 1) + 1 = 0
    BY <1>1
  <2> QED
    BY <2>1 DEF From
<1>4. ASSUME NEW j \in 1 .. Len(s) + 1
      PROVE  From(s, j) \in Seq(A) /\ Len(From(s, j)) = Len(s) - j + 1
  <2>1. PICK l \in Nat : l = Len(s) - j + 1
    BY <1>1
  <2>2. \A k \in 1 .. l : s[k + j - 1] \in A
    BY <1>1, <2>1
  <2> QED
    BY <2>1, <2>2 DEF From
<1> QED
  BY <1>2, <1>3, <1>4

LEMMA ConsFrom ==
  ASSUME NEW A, NEW s \in Seq(A), NEW j \in 1 .. Len(s), NEW a \in A, NEW t \in Seq(A)
  PROVE  Cons(a, t) = From(s, j) <=> a = s[j] /\ t = From(s, j + 1)
<1> DEFINE u == Cons(a, t)
<1>1. /\ u \in Seq(A) /\ Len(u) = Len(t) + 1 /\ u[1] = a
      /\ \A k \in 1 .. Len(t) : u[k + 1] = t[k]
  BY DEF Cons
<1>2. j + 1 \in 1 .. Len(s) + 1 /\ j \in 1 .. Len(s) + 1 /\ Len(s) \in Nat /\ Len(t) \in Nat
  OBVIOUS
<1>3. /\ From(s, j) \in Seq(A) /\ Len(From(s, j)) = Len(s) - j + 1
      /\ From(s, j + 1) \in Seq(A) /\ Len(From(s, j + 1)) = Len(s) - j
  <2>1. Len(s) - (j + 1) + 1 = Len(s) - j
    BY <1>2
  <2> QED
    BY <1>2, <2>1, FromSteps
<1>4. /\ From(s, j)[1] = s[j]
      /\ \A k \in 1 .. Len(s) - j : From(s, j)[k + 1] = s[k + j] /\ From(s, j + 1)[k] = s[k + j]
  BY <1>2 DEF From
<1> HIDE DEF u
<1>5. ASSUME u = From(s, j) PROVE a = s[j] /\ t = From(s, j + 1)
  <2>1. Len(t) = Len(s) - j
    BY <1>1, <1>2, <1>3, <1>5
  <2>2. \A k \in 1 .. Len(t) : t[k] = From(s, j + 1)[k]
    BY <1>1, <1>2, <1>4, <1>5, <2>1
  <2>3. t = From(s, j + 1)
    BY <1>3, <2>1, <2>2, SeqEqual
  <2> QED
    BY <1>1, <1>4, <1>5, <2>3
<1>6. ASSUME a = s[j], t = From(s, j + 1) PROVE u = From(s, j)
  <2>1. Len(u) = Len(From(s, j)) /\ Len(t) = Len(s) - j
    BY <1>1, <1>2, <1>3, <1>6
  <2>2. ASSUME NEW k \in 1 .. Len(u) PROVE u[k] = From(s, j)[k]
    <3>1. CASE k = 1
      BY <1>1, <1>4, <1>6, <3>1
    <3>2. CASE k # 1
      <4>0. k - 1 \in 1 .. Len(s) - j /\ k = (k - 1) + 1
        BY <1>1, <1>2, <2>1, <3>2
      <4>1. PICK l \in 1 .. Len(s) - j : k = l + 1
        BY <4>0
      <4>2. u[l + 1] = t[l] /\ t[l] = s[l + j] /\ From(s, j)[l + 1] = s[l + j]
        BY <1>1, <1>4, <1>6, <2>1, <4>1
      <4> QED
        BY <4>1, <4>2
    <3> QED
      BY <3>1, <3>2
  <2> QED
    BY <1>1, <1>3, <2>1, <2>2, SeqEqual
<1> QED
  BY <1>5, <1>6 DEF u

(* An array: s comes out of the walk exactly if each item does and no      *)
(* container is passed over with the item behind it.                       *)
ItemWalk(w, n, e, big, nx) ==
  /\ Forward(n, nx) /\ Walk(w, n, e, nx)
  /\ \A i \in 1 .. n : nx[i] = i + (IF big[i] THEN 2 ELSE 1)

ItemBack(i, s, e, big) == e[i] = s[i] /\ (big[i] => i = Len(s))

LEMMA ItemsBack ==
  ASSUME NEW A, NEW s \in Seq(A), NEW e, NEW big, NEW nx, NEW w,
         ItemWalk(w, Len(s), e, big, nx), \A i \in 1 .. Len(s) : e[i] \in A
  PROVE  w[1] = s <=> \A i \in 1 .. Len(s) : ItemBack(i, s, e, big)
<1> DEFINE n == Len(s)
<1>0. n \in Nat /\ Forward(n, nx) /\ Walk(w, n, e, nx)
      /\ \A i \in 1 .. n : nx[i] = i + (IF big[i] THEN 2 ELSE 1)
  BY DEF ItemWalk
<1>1. /\ w[n + 1] = <<>> /\ w[n + 2] = <<>>
      /\ \A i \in 1 .. n : w[i] = <<e[i]>> \o w[nx[i]]
  BY <1>0, WalkSteps
<1>2. \A i \in 1 .. n + 2 : w[i] \in Seq(A)
  BY <1>0, WalkTyped
<1>3. \A j \in 1 .. n : e[j] \in A
  OBVIOUS
<1> HIDE DEF n
<1> DEFINE Room(j) == IF j > n THEN 0 ELSE n - j + 1
           Short(j) == Len(w[j]) <= Room(j)
           S == {k \in Nat : k <= n => \A j \in n + 1 - k .. n + 2 : Short(j)}
<1>4. 0 \in S
  <2>1. \A i \in n + 1 - 0 .. n + 2 : i = n + 1 \/ i = n + 2
    BY <1>0
  <2>2. Len(<<>>) = 0 /\ Room(n + 1) = 0 /\ Room(n + 2) = 0
    BY <1>0
  <2>3. Short(n + 1) /\ Short(n + 2)
    BY <1>1, <2>2
  <2> HIDE DEF Short
  <2> QED
    BY <2>1, <2>3
<1>5. ASSUME NEW k \in Nat, k \in S PROVE k + 1 \in S
  <2> SUFFICES ASSUME k + 1 <= n, NEW j \in n + 1 - (k + 1) .. n + 2 PROVE Short(j)
    <3> HIDE DEF Short
    <3> QED
      OBVIOUS
  <2>1. \A i \in n + 1 - k .. n + 2 : Short(i)
    <3> HIDE DEF Short
    <3> QED
      BY <1>0, <1>5
  <2>2. CASE j = n - k
    <3>1. j \in 1 .. n /\ nx[j] \in j + 1 .. j + 2 /\ nx[j] \in n + 1 - k .. n + 2
      BY <1>0, <2>2
    <3>2. Short(nx[j])
      <4> HIDE DEF Short
      <4> QED
        BY <2>1, <3>1
    <3>3. PICK t \in Seq(A) : t = w[nx[j]]
      BY <1>0, <1>2, <3>1
    <3>4. PICK a \in A : a = e[j]
      BY <1>3, <3>1
    <3>5. Len(w[j]) = 1 + Len(t)
      <4>1. w[j] = <<a>> \o t
        BY Zenon, <1>1, <3>1, <3>3, <3>4
      <4>2. Len(<<a>> \o t) = 1 + Len(t)
        OBVIOUS
      <4> QED
        BY Zenon, <4>1, <4>2
    <3>6. Room(nx[j]) + 1 <= Room(j) /\ Room(j) \in Nat /\ Room(nx[j]) \in Nat
      BY <1>0, <3>1
    <3>7. Len(t) <= Room(nx[j]) /\ Len(t) \in Nat
      BY <3>2, <3>3
    <3> HIDE DEF Room
    <3> QED
      BY <3>5, <3>6, <3>7
  <2>3. CASE j # n - k
    <3>1. j \in n + 1 - k .. n + 2
      BY <1>0, <2>3
    <3> HIDE DEF Short
    <3> QED
      BY <2>1, <3>1
  <2> QED
    BY <2>2, <2>3
<1>6. \A j \in 1 .. n + 2 : Short(j)
  <2>1. n \in S
    <3> HIDE DEF S
    <3> QED
      BY <1>0, <1>4, <1>5, Induction
  <2> HIDE DEF Short
  <2> QED
    BY <1>0, <2>1
<1> HIDE DEF S
<1>7. ASSUME NEW j \in 1 .. n, big[j], j < n PROVE w[nx[j]] # From(s, j + 1)
  <2>1. nx[j] = j + 2 /\ j + 2 \in 1 .. n + 2 /\ j + 1 \in 1 .. n + 1
    BY <1>0, <1>7
  <2>2. Len(From(s, j + 1)) = n - j
    <3>1. Len(From(s, j + 1)) = n - (j + 1) + 1
      BY <2>1, FromSteps DEF n
    <3> QED
      BY <1>0, <3>1
  <2>3. Len(w[j + 2]) <= n - j - 1
    BY <1>0, <1>6, <1>7, <2>1
  <2> QED
    BY <1>0, <2>1, <2>2, <2>3
<1> DEFINE Back(i) == ItemBack(i, s, e, big)
           Meets(j) == w[j] = From(s, j) <=> \A i \in j .. n : Back(i)
           T == {k \in Nat : k <= n => Meets(n + 1 - k)}
<1>8. 0 \in T
  <2>1. n + 1 - 0 = n + 1 /\ From(s, n + 1) = <<>>
    BY <1>0, FromSteps DEF n
  <2>2. \A i \in n + 1 .. n : Back(i)
    BY <1>0
  <2> QED
    BY <1>1, <2>1, <2>2
<1>9. ASSUME NEW k \in Nat, k \in T PROVE k + 1 \in T
  <2> SUFFICES ASSUME k + 1 <= n PROVE Meets(n + 1 - (k + 1))
    <3> HIDE DEF Meets
    <3> QED
      OBVIOUS
  <2>1. PICK j \in 1 .. n : j = n + 1 - (k + 1)
    BY <1>0
  <2>2. n + 1 - k = j + 1 /\ Meets(j + 1)
    <3> HIDE DEF Meets
    <3> QED
      BY <1>0, <1>9, <2>1
  <2>3. w[j] = From(s, j) <=> e[j] = s[j] /\ w[nx[j]] = From(s, j + 1)
    <3>1. nx[j] \in 1 .. n + 2
      BY <1>0
    <3>2. PICK x \in A : x = e[j]
      BY <1>3
    <3>3. PICK t \in Seq(A) : t = w[nx[j]]
      BY <1>2, <3>1
    <3>4. w[j] = Cons(x, t)
      BY <1>1, <3>2, <3>3 DEF Cons
    <3>5. Cons(x, t) = From(s, j) <=> x = s[j] /\ t = From(s, j + 1)
      <4>1. j \in 1 .. Len(s)
        BY DEF n
      <4> QED
        BY <4>1, ConsFrom
    <3> QED
      BY <3>2, <3>3, <3>4, <3>5
  <2>4. (\A i \in j .. n : Back(i)) <=> Back(j) /\ \A i \in j + 1 .. n : Back(i)
    <3>1. \A i \in Int : i \in j .. n <=> i = j \/ i \in j + 1 .. n
      BY <1>0
    <3> HIDE DEF Back
    <3> QED
      BY <3>1
  <2>5. Back(j) <=> e[j] = s[j] /\ (big[j] => j = n)
    BY DEF ItemBack, n
  <2> HIDE DEF Back
  <2>6. CASE ~big[j]
    <3>1. nx[j] = j + 1
      BY <1>0, <2>6
    <3> QED
      BY <2>1, <2>2, <2>3, <2>4, <2>5, <2>6, <3>1
  <2>7. CASE big[j] /\ j = n
    <3>1. nx[j] = n + 2 /\ From(s, j + 1) = <<>>
      BY <1>0, <2>7, FromSteps DEF n
    <3>2. \A i \in j + 1 .. n : Back(i)
      BY <1>0, <2>7
    <3> QED
      BY <1>1, <2>1, <2>3, <2>4, <2>5, <2>7, <3>1, <3>2
  <2>8. CASE big[j] /\ j # n
    <3>1. w[nx[j]] # From(s, j + 1)
      BY <1>0, <1>7, <2>8
    <3> QED
      BY <2>1, <2>3, <2>4, <2>5, <2>8, <3>1
  <2> QED
    BY <2>6, <2>7, <2>8
<1>10. n \in T
  <2> HIDE DEF T
  <2> QED
    BY <1>0, <1>8, <1>9, Induction
<1>11. Meets(1)
  <2>1. n + 1 - n = 1
    BY <1>0
  <2> HIDE DEF Meets
  <2> QED
    BY <1>0, <1>10, <2>1
<1>12. From(s, 1) = s
  BY FromSteps
<1> QED
  BY <1>11, <1>12 DEF n

(* An object: a[j] is read from its own key, b[j] if the cursor takes the  *)
(* value of member j for a key.                                            *)
MemberWalk(w, m, a, b, big, txt) ==
  /\ w[2 * m + 1] = <<>> /\ w[2 * m + 2] = <<>>
  /\ \A j \in 1 .. m :
       /\ w[2 * j - 1] = <<a[j]>> \o w[IF big[j] THEN 2 * j + 2 ELSE 2 * j + 1]
       /\ w[2 * j] = IF txt[j] /\ j < m THEN <<b[j]>> \o w[2 * j + 2] ELSE <<b[j]>>

LEMMA MembersBack ==
  ASSUME NEW A, NEW s \in Seq(A), NEW a, NEW b, NEW big, NEW txt, NEW w,
         MemberWalk(w, Len(s), a, b, big, txt),
         \A j \in 1 .. Len(s) : a[j] \in A /\ b[j] \in A,
         \A j \in 1 .. 2 * Len(s) + 2 : w[j] \in Seq(A),
         \A j \in 1 .. Len(s) : ~txt[j] \/ j = Len(s) => b[j] # s[j]
  PROVE  w[1] = s <=> \A i \in 1 .. Len(s) : ItemBack(i, s, a, big)
<1> DEFINE m == Len(s)
<1>0. m \in Nat
  OBVIOUS
<1>1. /\ w[2 * m + 1] = <<>> /\ w[2 * m + 2] = <<>>
      /\ \A j \in 1 .. m :
           /\ w[2 * j - 1] = <<a[j]>> \o w[IF big[j] THEN 2 * j + 2 ELSE 2 * j + 1]
           /\ w[2 * j] = IF txt[j] /\ j < m THEN <<b[j]>> \o w[2 * j + 2] ELSE <<b[j]>>
  BY DEF MemberWalk
<1>2. /\ \A j \in 1 .. m : a[j] \in A /\ b[j] \in A
      /\ \A j \in 1 .. m + 1 : w[2 * j - 1] \in Seq(A) /\ w[2 * j] \in Seq(A)
      /\ \A j \in 1 .. m : ~txt[j] \/ j = m => b[j] # s[j]
  <2>1. \A j \in 1 .. m + 1 : 2 * j - 1 \in 1 .. 2 * m + 2 /\ 2 * j \in 1 .. 2 * m + 2
    BY <1>0
  <2> QED
    BY <2>1
<1>3. \A j \in 1 .. m : j \in 1 .. Len(s)
  OBVIOUS
<1>4. From(s, m + 1) = <<>> /\ From(s, 1) = s /\ <<>> \in Seq(A)
  BY FromSteps
<1> DEFINE Back(i) == ItemBack(i, s, a, big)
           Meets(j) == /\ w[2 * j - 1] = From(s, j) <=> \A i \in j .. m : Back(i)
                       /\ w[2 * j] = From(s, j) <=> j = m + 1
           T == {k \in Nat : k <= m => Meets(m + 1 - k)}
<1>5. \A j \in 1 .. m : Back(j) <=> a[j] = s[j] /\ (big[j] => j = m)
  BY DEF ItemBack
<1> HIDE DEF m
<1>6. 0 \in T
  <2>1. m + 1 - 0 = m + 1 /\ 2 * (m + 1) - 1 = 2 * m + 1 /\ 2 * (m + 1) = 2 * m + 2
    BY <1>0
  <2>2. \A i \in m + 1 .. m : Back(i)
    BY <1>0
  <2> HIDE DEF Back
  <2> QED
    BY <1>1, <1>4, <2>1, <2>2
<1> HIDE DEF Back
<1>7. ASSUME NEW k \in Nat, k \in T PROVE k + 1 \in T
  <2> SUFFICES ASSUME k + 1 <= m PROVE Meets(m + 1 - (k + 1))
    <3> HIDE DEF Meets
    <3> QED
      OBVIOUS
  <2>1. PICK j \in 1 .. m : j = m + 1 - (k + 1)
    BY <1>0
  <2>2. m + 1 - k = j + 1 /\ Meets(j + 1)
    <3> HIDE DEF Meets
    <3> QED
      BY <1>0, <1>7, <2>1
  <2>3. 2 * (j + 1) - 1 = 2 * j + 1 /\ 2 * (j + 1) = 2 * j + 2 /\ j + 1 \in 1 .. m + 1
    BY <1>0
  <2>4. /\ w[2 * j + 1] = From(s, j + 1) <=> \A i \in j + 1 .. m : Back(i)
        /\ w[2 * j + 2] = From(s, j + 1) <=> j = m
    BY <1>0, <2>2, <2>3
  <2>5. (\A i \in j .. m : Back(i)) <=> Back(j) /\ \A i \in j + 1 .. m : Back(i)
    <3>1. \A i \in Int : i \in j .. m <=> i = j \/ i \in j + 1 .. m
      BY <1>0
    <3> QED
      BY <3>1
  <2>6. PICK next \in {2 * j + 1, 2 * j + 2} : next = IF big[j] THEN 2 * j + 2 ELSE 2 * j + 1
    OBVIOUS
  <2>7. w[2 * j + 1] \in Seq(A) /\ w[2 * j + 2] \in Seq(A)
    BY <1>2, <2>3
  <2>8. w[2 * j - 1] = From(s, j) <=> a[j] = s[j] /\ w[next] = From(s, j + 1)
    <3>1. PICK x \in A : x = a[j]
      BY <1>2
    <3>2. PICK t \in Seq(A) : t = w[next]
      BY <2>6, <2>7
    <3>3. w[2 * j - 1] = Cons(x, t)
      BY <1>1, <2>6, <3>1, <3>2 DEF Cons
    <3>4. Cons(x, t) = From(s, j) <=> x = s[j] /\ t = From(s, j + 1)
      BY <1>3, ConsFrom
    <3> QED
      BY <3>1, <3>2, <3>3, <3>4
  <2>9. w[2 * j - 1] = From(s, j) <=> \A i \in j .. m : Back(i)
    <3>1. CASE ~big[j]
      BY <1>5, <2>4, <2>5, <2>6, <2>8, <3>1
    <3>2. CASE big[j] /\ j = m
      <4>1. \A i \in j + 1 .. m : Back(i)
        BY <1>0, <3>2
      <4> QED
        BY <1>5, <2>4, <2>5, <2>6, <2>8, <3>2, <4>1
    <3>3. CASE big[j] /\ j # m
      BY <1>5, <2>4, <2>5, <2>6, <2>8, <3>3
    <3> QED
      BY <3>1, <3>2, <3>3
  <2>10. w[2 * j] # From(s, j)
    <3>1. CASE txt[j] /\ j < m
      <4>1. PICK x \in A : x = b[j]
        BY <1>2
      <4>2. PICK t \in Seq(A) : t = w[2 * j + 2]
        BY <2>7
      <4>3. w[2 * j] = Cons(x, t)
        BY <1>1, <3>1, <4>1, <4>2 DEF Cons
      <4>4. Cons(x, t) = From(s, j) <=> x = s[j] /\ t = From(s, j + 1)
        BY <1>3, ConsFrom
      <4>5. t # From(s, j + 1)
        BY <1>0, <2>4, <3>1, <4>2
      <4> QED
        BY <4>3, <4>4, <4>5
    <3>2. CASE ~txt[j] \/ j = m
      <4>1. PICK x \in A : x = b[j] /\ x # s[j]
        BY <1>2, <3>2
      <4>2. PICK t \in Seq(A) : t = <<>>
        BY <1>4
      <4>3. w[2 * j] = <<x>>
        <5>1. ~(txt[j] /\ j < m)
          BY <1>0, <3>2
        <5> QED
          BY <1>1, <4>1, <5>1
      <4>4. Cons(x, t) = <<x>>
        BY <4>2 DEF Cons
      <4>5. Cons(x, t) = From(s, j) <=> x = s[j] /\ t = From(s, j + 1)
        BY <1>3, ConsFrom
      <4> QED
        BY <4>1, <4>3, <4>4, <4>5
    <3> QED
      BY <1>0, <3>1, <3>2
  <2>11. j # m + 1
    BY <1>0
  <2> QED
    BY <2>1, <2>9, <2>10, <2>11
<1>8. m \in T
  <2> HIDE DEF T
  <2> QED
    BY <1>0, <1>6, <1>7, Induction
<1>9. Meets(1)
  <2>1. m + 1 - m = 1
    BY <1>0
  <2> HIDE DEF Meets
  <2> QED
    BY <1>0, <1>8, <2>1
<1>10. w[1] = From(s, 1) <=> \A i \in 1 .. m : Back(i)
  <2>1. 2 * 1 - 1 = 1
    OBVIOUS
  <2> QED
    BY <1>9, <2>1
<1> QED
  BY <1>4, <1>10 DEF m, Back

-----------------------------------------------------------------------------
(* The two loops of the decoder are such walks.                            *)

ItemsFrom(g, items, decode) ==
  g = [i \in 1 .. Len(items) + 2 |->
         IF i > Len(items) THEN <<>>
         ELSE <<decode[items[i]]>> \o g[Advance(items, i)]]

MembersFrom(g, items, decode) ==
  g = [i \in 1 .. Len(items) + 2 |->
         IF i > Len(items) THEN <<>>
         ELSE IF items[i].kind # "text" THEN <<<<"", Garbage>>>>
         ELSE IF i = Len(items) THEN <<<<items[i].text, Null>>>>
         ELSE <<<<items[i].text, decode[items[i + 1]]>>>> \o g[Advance(items, i + 1)]]

LEMMA DecodeItemsChoice ==
  ASSUME NEW items, NEW decode
  PROVE  DecodeItems(items, decode) = (CHOOSE g : ItemsFrom(g, items, decode))[1]
BY DEF DecodeItems, ItemsFrom

LEMMA DecodeMembersChoice ==
  ASSUME NEW items, NEW decode
  PROVE  DecodeMembers(items, decode) = (CHOOSE g : MembersFrom(g, items, decode))[1]
BY DEF DecodeMembers, MembersFrom

ItemsRead(w, items, decode, e, big, nx) ==
  /\ ItemWalk(w, Len(items), e, big, nx)
  /\ \A i \in 1 .. Len(items) : e[i] = decode[items[i]] /\ (big[i] <=> IsContainer(items[i]))

LEMMA DecodeItemsWalks ==
  ASSUME NEW items, Len(items) \in Nat, NEW decode
  PROVE  \E w, e, big, nx : /\ DecodeItems(items, decode) = w[1]
                            /\ ItemsRead(w, items, decode, e, big, nx)
<1> DEFINE n == Len(items)
           e == [i \in 1 .. n |-> decode[items[i]]]
           big == [i \in 1 .. n |-> IsContainer(items[i])]
           nx == [i \in 1 .. n |-> Advance(items, i)]
<1>1. \A i \in 1 .. n : nx[i] = i + (IF big[i] THEN 2 ELSE 1)
  BY DEF Advance
<1>2. \A i \in 1 .. n : e[i] = decode[items[i]] /\ (big[i] <=> IsContainer(items[i]))
  OBVIOUS
<1>3. \A i \in 1 .. n : nx[i] = Advance(items, i)
  OBVIOUS
<1>4. n \in Nat
  OBVIOUS
<1> HIDE DEF n, e, big, nx
<1>5. Forward(n, nx)
  BY <1>1, <1>4 DEF Forward
<1>6. ASSUME NEW g PROVE Walk(g, n, e, nx) <=> ItemsFrom(g, items, decode)
  <2>1. \A i \in 1 .. n + 2 : ~(i > n) => i \in 1 .. n
    BY <1>4
  <2>2. \A i \in 1 .. n + 2 :
          (IF i > n THEN <<>> ELSE <<e[i]>> \o g[nx[i]])
            = (IF i > n THEN <<>> ELSE <<decode[items[i]]>> \o g[Advance(items, i)])
    BY <1>2, <1>3, <2>1
  <2>3. [i \in 1 .. n + 2 |-> IF i > n THEN <<>> ELSE <<e[i]>> \o g[nx[i]]]
        = [i \in 1 .. n + 2 |-> IF i > n THEN <<>> ELSE <<decode[items[i]]>> \o g[Advance(items, i)]]
    BY <2>2
  <2> QED
    BY Zenon, <2>3 DEF Walk, ItemsFrom, n
<1>7. \E g : ItemsFrom(g, items, decode)
  BY <1>5, <1>6, WalkExists
<1>8. PICK w : w = CHOOSE g : ItemsFrom(g, items, decode)
  OBVIOUS
<1>9. ItemsFrom(w, items, decode)
  BY Zenon, <1>7, <1>8
<1>10. DecodeItems(items, decode) = w[1]
  BY Zenon, <1>8, DecodeItemsChoice
<1>11. ItemsRead(w, items, decode, e, big, nx)
  BY <1>1, <1>2, <1>5, <1>6, <1>9 DEF ItemsRead, ItemWalk, n
<1> QED
  BY <1>10, <1>11

(* What the loop over a map takes for a member at item i.                  *)
Entry(items, decode, i) ==
  IF items[i].kind # "text" THEN <<"", Garbage>>
  ELSE IF i = Len(items) THEN <<items[i].text, Null>>
  ELSE <<items[i].text, decode[items[i + 1]]>>

AfterEntry(items, i) ==
  IF items[i].kind # "text" \/ i = Len(items) THEN Len(items) + 1 ELSE Advance(items, i + 1)

MembersRead(w, items, decode, e, nx) ==
  /\ Forward(Len(items), nx) /\ Walk(w, Len(items), e, nx)
  /\ \A i \in 1 .. Len(items) : e[i] = Entry(items, decode, i) /\ nx[i] = AfterEntry(items, i)

LEMMA ConsNothing == \A x : <<x>> \o <<>> = <<x>>
OBVIOUS

LEMMA DecodeMembersWalks ==
  ASSUME NEW items, Len(items) \in Nat, NEW decode
  PROVE  \E w, e, nx : /\ DecodeMembers(items, decode) = w[1]
                       /\ MembersRead(w, items, decode, e, nx)
<1> DEFINE n == Len(items)
           e == [i \in 1 .. n |-> Entry(items, decode, i)]
           nx == [i \in 1 .. n |-> AfterEntry(items, i)]
<1>1. \A i \in 1 .. n : e[i] = Entry(items, decode, i) /\ nx[i] = AfterEntry(items, i)
  OBVIOUS
<1>2. n \in Nat
  OBVIOUS
<1> HIDE DEF e, nx
<1>3. Forward(n, nx)
  <2>1. \A i \in 1 .. n : AfterEntry(items, i) \in i + 1 .. n + 2
    BY <1>2 DEF AfterEntry, Advance
  <2> QED
    BY <1>1, <1>2, <2>1 DEF Forward
<1> DEFINE Step(g, i) ==
             IF i > n THEN <<>>
             ELSE IF items[i].kind # "text" THEN <<<<"", Garbage>>>>
             ELSE IF i = n THEN <<<<items[i].text, Null>>>>
             ELSE <<<<items[i].text, decode[items[i + 1]]>>>> \o g[Advance(items, i + 1)]
<1>4. ASSUME NEW g, g[n + 1] = <<>>, NEW i \in 1 .. n + 2
      PROVE  (IF i > n THEN <<>> ELSE <<e[i]>> \o g[nx[i]]) = Step(g, i)
  <2>1. CASE i > n
    BY <2>1
  <2> HIDE DEF n
  <2>2. CASE i <= n /\ (items[i].kind # "text" \/ i = n)
    <3>1. i \in 1 .. n /\ nx[i] = n + 1
      BY <1>1, <1>2, <2>2 DEF AfterEntry, n
    <3>2. <<e[i]>> \o g[nx[i]] = <<e[i]>>
      BY <1>4, <3>1, ConsNothing
    <3>3. e[i] = IF items[i].kind # "text" THEN <<"", Garbage>> ELSE <<items[i].text, Null>>
      BY <1>1, <2>2, <3>1 DEF Entry, n
    <3>4. ~(i > n)
      BY <1>2, <3>1
    <3> QED
      BY <2>2, <3>2, <3>3, <3>4
  <2>3. CASE i <= n /\ ~(items[i].kind # "text" \/ i = n)
    <3>1. i \in 1 .. n /\ nx[i] = Advance(items, i + 1) /\ ~(i > n)
      BY <1>1, <1>2, <2>3 DEF AfterEntry, n
    <3>2. e[i] = <<items[i].text, decode[items[i + 1]]>>
      BY <1>1, <2>3, <3>1 DEF Entry, n
    <3> QED
      BY <2>3, <3>1, <3>2
  <2>4. i > n \/ i <= n
    BY <1>2
  <2> HIDE DEF Step
  <2> QED
    BY <2>1, <2>2, <2>3, <2>4
<1>5. ASSUME NEW g, g[n + 1] = <<>> PROVE Walk(g, n, e, nx) <=> MembersFrom(g, items, decode)
  <2>1. \A i \in 1 .. n + 2 : (IF i > n THEN <<>> ELSE <<e[i]>> \o g[nx[i]]) = Step(g, i)
    BY <1>4, <1>5
  <2>2. [i \in 1 .. n + 2 |-> IF i > n THEN <<>> ELSE <<e[i]>> \o g[nx[i]]]
        = [i \in 1 .. n + 2 |-> Step(g, i)]
    <3> HIDE DEF Step
    <3> QED
      BY <2>1
  <2> QED
    BY Zenon, <2>2 DEF Walk, MembersFrom
<1> HIDE DEF Step
<1>6. \A g : Walk(g, n, e, nx) => g[n + 1] = <<>>
  BY <1>3, WalkSteps
<1>7. \A g : MembersFrom(g, items, decode) => g[n + 1] = <<>>
  <2> SUFFICES ASSUME NEW g, MembersFrom(g, items, decode) PROVE g[n + 1] = <<>>
    OBVIOUS
  <2>1. g = [i \in 1 .. n + 2 |-> Step(g, i)]
    BY Zenon DEF MembersFrom, Step
  <2>2. PICK u : u = [i \in 1 .. n + 2 |-> Step(g, i)]
    OBVIOUS
  <2>3. u = g /\ u[n + 1] = Step(g, n + 1)
    BY <1>2, <2>1, <2>2
  <2>4. Step(g, n + 1) = <<>>
    BY <1>2 DEF Step
  <2> QED
    BY <2>3, <2>4
<1>8. \E g : MembersFrom(g, items, decode)
  BY <1>3, <1>5, <1>6, WalkExists
<1>9. PICK w : w = CHOOSE g : MembersFrom(g, items, decode)
  OBVIOUS
<1>10. MembersFrom(w, items, decode)
  BY Zenon, <1>8, <1>9
<1>11. DecodeMembers(items, decode) = w[1]
  BY Zenon, <1>9, DecodeMembersChoice
<1>12. MembersRead(w, items, decode, e, nx)
  BY <1>1, <1>3, <1>5, <1>7, <1>10 DEF MembersRead
<1> QED
  BY <1>11, <1>12

-----------------------------------------------------------------------------
(* What the values are and what the codec makes of each kind.              *)

LEMMA JsonValues ==
  ASSUME NEW d \in 0 .. MaxDepth
  PROVE  /\ Scalars \subseteq Json[d] /\ Scalars \subseteq Cbor[d]
         /\ d > 0 => /\ \A s \in Seq(Json[d - 1]) : Array(s) \in Json[d]
                     /\ \A s \in Seq(STRING \X Json[d - 1]) : Object(s) \in Json[d]
                     /\ \A s \in Seq(Cbor[d - 1]) : Array(s) \in Cbor[d] /\ Map(s) \in Cbor[d]
<1>1. Json[d] = JsonOver(Json[d - 1], d) /\ Cbor[d] = CborOver(Cbor[d - 1], d)
  BY JsonDef, CborDef
<1>2. PICK J, C : J = Json[d - 1] /\ C = Cbor[d - 1]
  OBVIOUS
<1>3. /\ \A s \in Seq(J) : Array(s) \in [kind : {"array"}, items : Seq(J)]
      /\ \A s \in Seq(STRING \X J) : Object(s) \in [kind : {"object"}, members : Seq(STRING \X J)]
      /\ \A s \in Seq(C) : /\ Array(s) \in [kind : {"array", "map"}, items : Seq(C)]
                           /\ Map(s) \in [kind : {"array", "map"}, items : Seq(C)]
  BY DEF Array, Object, Map
<1> QED
  BY <1>1, <1>2, <1>3 DEF JsonOver, CborOver

LEMMA JsonCases ==
  ASSUME NEW d \in 0 .. MaxDepth, NEW v \in Json[d]
  PROVE  \/ v \in Scalars
         \/ d > 0 /\ \E s \in Seq(Json[d - 1]) : v = Array(s)
         \/ d > 0 /\ \E s \in Seq(STRING \X Json[d - 1]) : v = Object(s)
<1>1. v \in JsonOver(Json[d - 1], d)
  BY JsonDef
<1>2. PICK J : J = Json[d - 1]
  OBVIOUS
<1>3. CASE v \in Scalars
  BY <1>3
<1>4. CASE d # 0 /\ v \in [kind : {"array"}, items : Seq(J)]
  <2>1. v.items \in Seq(J) /\ v = Array(v.items)
    BY <1>4 DEF Array
  <2> QED
    BY <1>2, <1>4, <2>1
<1>5. CASE d # 0 /\ v \in [kind : {"object"}, members : Seq(STRING \X J)]
  <2>1. v.members \in Seq(STRING \X J) /\ v = Object(v.members)
    BY <1>5 DEF Object
  <2> QED
    BY <1>2, <1>5, <2>1
<1> QED
  BY <1>1, <1>2, <1>3, <1>4, <1>5 DEF JsonOver

LEMMA JsonKinds ==
  ASSUME NEW d \in 0 .. MaxDepth, NEW v \in Json[d]
  PROVE  v.kind \in {"null", "text", "number", "array", "object"}
<1>1. CASE v \in Scalars
  BY <1>1, ScalarKinds
<1>2. CASE v \notin Scalars
  <2>1. /\ \A s : Array(s).kind = "array"
        /\ \A s : Object(s).kind = "object"
    BY DEF Array, Object
  <2>2. (\E s : v = Array(s)) \/ \E s : v = Object(s)
    BY Zenon, <1>2, JsonCases
  <2>3. CASE \E s : v = Array(s)
    BY <2>1, <2>3
  <2>4. CASE \E s : v = Object(s)
    BY <2>1, <2>4
  <2> QED
    BY <2>2, <2>3, <2>4
<1> QED
  BY <1>1, <1>2

LEMMA CodecAt ==
  ASSUME NEW d \in 0 .. MaxDepth
  PROVE  /\ \A v \in Json[d] : /\ EncodeValue[d][v] = EncodeOver(EncodeValue[d - 1], v)
                               /\ Survives[d][v] = SurvivesOver(Survives[d - 1], v)
         /\ \A c \in Cbor[d] : DecodeValue[d][c] = DecodeOver(DecodeValue[d - 1], c)
<1>1. PICK f : f = [v \in Json[d] |-> EncodeOver(EncodeValue[d - 1], v)]
  OBVIOUS
<1>2. PICK g : g = [c \in Cbor[d] |-> DecodeOver(DecodeValue[d - 1], c)]
  OBVIOUS
<1>3. PICK h : h = [v \in Json[d] |-> SurvivesOver(Survives[d - 1], v)]
  OBVIOUS
<1>4. f = EncodeValue[d] /\ g = DecodeValue[d] /\ h = Survives[d]
  BY <1>1, <1>2, <1>3, EncodeDef, DecodeDef, SurvivesDef
<1>5. /\ \A v \in Json[d] : f[v] = EncodeOver(EncodeValue[d - 1], v)
      /\ \A c \in Cbor[d] : g[c] = DecodeOver(DecodeValue[d - 1], c)
      /\ \A v \in Json[d] : h[v] = SurvivesOver(Survives[d - 1], v)
  BY <1>1, <1>2, <1>3
<1> QED
  BY <1>4, <1>5

-----------------------------------------------------------------------------
(* What CBOR keeps of a value, by induction over its depth.                *)

RoundTrip(d, v) ==
  LET c == EncodeValue[d][v]
  IN /\ c \in Cbor[d]
     /\ IsContainer(c) <=> IsContainer(v)
     /\ c.kind = "text" <=> v.kind = "text"
     /\ DecodeValue[d][c] = v <=> Survives[d][v]

LEMMA SignedRange ==
  \A n \in -(IntRange \div 2) .. IntRange - 1 :
    /\ Signed(n) \in -(IntRange \div 2) .. IntRange - 1
    /\ Signed(n) = n <=> n < IntRange \div 2
<1> SUFFICES ASSUME NEW n \in -(IntRange \div 2) .. IntRange - 1
             PROVE  /\ Signed(n) \in -(IntRange \div 2) .. IntRange - 1
                    /\ Signed(n) = n <=> n < IntRange \div 2
  OBVIOUS
<1>1. PICK h \in Nat : IntRange = 2 * h /\ h > 0 /\ IntRange \div 2 = h
  BY CodecAssumption
<1>2. Signed(n) = ((n + h) % (2 * h)) - h /\ n \in -h .. 2 * h - 1
  BY <1>1 DEF Signed
<1>3. CASE n < h
  <2>1. (n + h) % (2 * h) = n + h
    <3>1. n + h \in 0 .. 2 * h - 1
      BY <1>2, <1>3
    <3> QED
      BY <1>1, <3>1
  <2> QED
    BY <1>1, <1>2, <1>3, <2>1
<1>4. CASE n >= h
  <2>1. (n + h) % (2 * h) = n - h
    <3>1. n - h \in 0 .. 2 * h - 1 /\ n + h = 2 * h + (n - h)
      BY <1>2, <1>4
    <3> QED
      BY <1>1, <3>1
  <2> QED
    BY <1>1, <1>2, <1>4, <2>1
<1> QED
  BY <1>2, <1>3, <1>4

LEMMA ScalarTrip ==
  ASSUME NEW d \in 0 .. MaxDepth, NEW v \in Scalars
  PROVE  RoundTrip(d, v)
<1>1. v \in Json[d] /\ \A c \in Scalars : c \in Cbor[d]
  BY JsonValues
<1>2. PICK c : c = IF v.kind = "number" THEN Num(Signed(v.n)) ELSE v
  OBVIOUS
<1>3. EncodeValue[d][v] = c
  <2>1. EncodeOver(EncodeValue[d - 1], v) = c
    BY <1>2, ScalarKinds DEF EncodeOver
  <2> QED
    BY <1>1, <2>1, CodecAt
<1>4. c \in Scalars /\ c.kind = v.kind
      /\ (c = v <=> (v.kind = "number" => v.n < IntRange \div 2))
  <2>1. CASE v.kind = "number"
    <3>1. PICK n \in -(IntRange \div 2) .. IntRange - 1 : v = Num(n) /\ v.n = n
      BY <2>1, ScalarKinds DEF Num
    <3>2. PICK k \in -(IntRange \div 2) .. IntRange - 1 : k = Signed(n) /\ (k = n <=> n < IntRange \div 2)
      BY SignedRange
    <3>3. c = Num(k) /\ c.kind = "number" /\ c.n = k
      BY <1>2, <2>1, <3>1, <3>2 DEF Num
    <3>4. c \in Scalars
      BY <3>3 DEF Scalars, Num
    <3> QED
      BY <2>1, <3>1, <3>2, <3>3, <3>4
  <2>2. CASE v.kind # "number"
    BY <1>2, <2>2
  <2> QED
    BY <2>1, <2>2
<1>5. DecodeValue[d][c] = c
  <2>1. DecodeOver(DecodeValue[d - 1], c) = c
    BY <1>4, ScalarKinds DEF DecodeOver
  <2> QED
    BY <1>1, <1>4, <2>1, CodecAt
<1>6. Survives[d][v] <=> (v.kind = "number" => v.n < IntRange \div 2)
  <2>1. SurvivesOver(Survives[d - 1], v) <=> (v.kind = "number" => v.n < IntRange \div 2)
    BY ScalarKinds DEF SurvivesOver
  <2>2. Survives[d][v] = SurvivesOver(Survives[d - 1], v)
    BY <1>1, CodecAt
  <2> QED
    BY Zenon, <2>1, <2>2
<1>7. IsContainer(c) <=> IsContainer(v)
  BY <1>4 DEF IsContainer
<1>8. c \in Cbor[d] /\ (c.kind = "text" <=> v.kind = "text")
  BY <1>1, <1>4
<1> QED
  BY Zenon, <1>3, <1>4, <1>5, <1>6, <1>7, <1>8 DEF RoundTrip

LEMMA ArrayTrip ==
  ASSUME NEW d \in 1 .. MaxDepth, \A x \in Json[d - 1] : RoundTrip(d - 1, x),
         NEW s \in Seq(Json[d - 1])
  PROVE  RoundTrip(d, Array(s))
<1> DEFINE E == EncodeValue[d - 1]
           D == DecodeValue[d - 1]
           v == Array(s)
           items == EncodeItems(s, E)
           c == Array(items)
           n == Len(s)
<1>0. d \in 0 .. MaxDepth /\ d > 0 /\ n \in Nat /\ \A i \in 1 .. n : s[i] \in Json[d - 1]
  OBVIOUS
<1>1. v.kind = "array" /\ v.items = s /\ c.kind = "array" /\ c.items = items
  BY DEF Array
<1>2. \A i \in 1 .. n : RoundTrip(d - 1, s[i])
  BY <1>0
<1>3. /\ Len(items) = n
      /\ \A i \in 1 .. n : items[i] = E[s[i]]
  BY <1>0 DEF EncodeItems
<1>4. \A i \in 1 .. n : /\ items[i] \in Cbor[d - 1]
                        /\ IsContainer(items[i]) <=> IsContainer(s[i])
                        /\ D[items[i]] = s[i] <=> Survives[d - 1][s[i]]
  BY <1>2, <1>3 DEF RoundTrip
<1>5. items \in Seq(Cbor[d - 1])
  <2>1. items = [i \in 1 .. n |-> items[i]]
    BY <1>0 DEF EncodeItems
  <2> HIDE DEF items
  <2> QED
    BY <1>0, <1>4, <2>1
<1> HIDE DEF E, D, items
<1>6. v \in Json[d] /\ c \in Cbor[d]
  BY <1>0, <1>5, JsonValues
<1>7. EncodeValue[d][v] = c
  <2>1. EncodeOver(EncodeValue[d - 1], v) = c
    <3> HIDE DEF v
    <3> QED
      BY <1>1 DEF EncodeOver, items, E
  <2> HIDE DEF v, c
  <2> QED
    BY <1>0, <1>6, <2>1, CodecAt
<1>8. DecodeValue[d][c] = Array(DecodeItems(items, D))
  <2>1. DecodeOver(DecodeValue[d - 1], c) = Array(DecodeItems(items, D))
    <3> HIDE DEF c
    <3> QED
      BY <1>1 DEF DecodeOver, D
  <2> HIDE DEF v, c
  <2> QED
    BY <1>0, <1>6, <2>1, CodecAt
<1>9. PICK w, e, big, nx : DecodeItems(items, D) = w[1] /\ ItemsRead(w, items, D, e, big, nx)
  BY <1>0, <1>3, DecodeItemsWalks
<1>10. /\ ItemWalk(w, n, e, big, nx)
       /\ \A i \in 1 .. n : e[i] = D[items[i]] /\ (big[i] <=> IsContainer(items[i]))
  BY <1>3, <1>9 DEF ItemsRead
<1>11. w[1] = s <=> \A i \in 1 .. n : ItemBack(i, s, e, big)
  <2> DEFINE A == Json[d - 1] \cup {e[i] : i \in 1 .. n}
  <2>1. \A i \in 1 .. n : e[i] \in A
    OBVIOUS
  <2>2. s \in Seq(A)
    BY <1>0
  <2> HIDE DEF A
  <2> QED
    BY <1>10, <2>1, <2>2, ItemsBack
<1>12. \A i \in 1 .. n :
         ItemBack(i, s, e, big) <=> Survives[d - 1][s[i]] /\ (IsContainer(s[i]) => i = n)
  BY Zenon, <1>4, <1>10 DEF ItemBack
<1>13. Survives[d][v] <=> \A i \in 1 .. n : Survives[d - 1][s[i]] /\ (IsContainer(s[i]) => i = n)
  <2>1. SurvivesOver(Survives[d - 1], v)
          <=> \A i \in DOMAIN s : Survives[d - 1][s[i]] /\ (IsContainer(s[i]) => i = n)
    <3> HIDE DEF v
    <3> QED
      BY <1>1 DEF SurvivesOver
  <2>2. Survives[d][v] = SurvivesOver(Survives[d - 1], v)
    <3> HIDE DEF v
    <3> QED
      BY <1>0, <1>6, CodecAt
  <2>3. DOMAIN s = 1 .. n
    OBVIOUS
  <2> QED
    BY Zenon, <2>1, <2>2, <2>3
<1>14. Array(w[1]) = v <=> w[1] = s
  BY DEF Array
<1>15. /\ IsContainer(c) <=> IsContainer(v)
       /\ c.kind = "text" <=> v.kind = "text"
  BY <1>1 DEF IsContainer
<1>16. DecodeValue[d][c] = v <=> Survives[d][v]
  BY Zenon, <1>8, <1>9, <1>11, <1>12, <1>13, <1>14
<1> QED
  BY Zenon, <1>6, <1>7, <1>15, <1>16 DEF RoundTrip

(* An object: the items of its map are the keys and the values in turn.    *)
InTurn(s, ms, E) ==
  /\ Len(s) = 2 * Len(ms) /\ s = [i \in 1 .. 2 * Len(ms) |-> s[i]]
  /\ \A j \in 1 .. Len(ms) : s[2 * j - 1] = Text(ms[j][1]) /\ s[2 * j] = E[ms[j][2]]

LEMMA EncodedMembers ==
  ASSUME NEW J, NEW ms \in Seq(STRING \X J), NEW E
  PROVE  InTurn(EncodeMembers(ms, E), ms, E)
<1> DEFINE EM == EncodeMembers(ms, E)
<1>0. Len(ms) \in Nat
  OBVIOUS
<1>1. /\ Len(EM) = 2 * Len(ms) /\ EM = [i \in 1 .. 2 * Len(ms) |-> EM[i]]
      /\ \A i \in 1 .. 2 * Len(ms) :
           EM[i] = IF i % 2 = 1 THEN Text(ms[(i + 1) \div 2][1]) ELSE E[ms[i \div 2][2]]
  BY <1>0 DEF EncodeMembers
<1>2. ASSUME NEW j \in 1 .. Len(ms)
      PROVE  EM[2 * j - 1] = Text(ms[j][1]) /\ EM[2 * j] = E[ms[j][2]]
  <2>1. PICK p \in 1 .. 2 * Len(ms) : p = 2 * j - 1 /\ p % 2 = 1 /\ (p + 1) \div 2 = j
    BY <1>0
  <2>2. PICK q \in 1 .. 2 * Len(ms) : q = 2 * j /\ q % 2 # 1 /\ q \div 2 = j
    BY <1>0
  <2> HIDE DEF EM
  <2>3. EM[p] = Text(ms[j][1])
    BY <1>1, <2>1
  <2>4. EM[q] = E[ms[j][2]]
    BY <1>1, <2>2
  <2> QED
    BY <2>1, <2>2, <2>3, <2>4
<1> HIDE DEF EM
<1>3. InTurn(EM, ms, E)
  BY <1>1, <1>2 DEF InTurn
<1> QED
  BY <1>3 DEF EM

LEMMA ObjectTrip ==
  ASSUME NEW d \in 1 .. MaxDepth, \A x \in Json[d - 1] : RoundTrip(d - 1, x),
         NEW ms \in Seq(STRING \X Json[d - 1])
  PROVE  RoundTrip(d, Object(ms))
<1> DEFINE E == EncodeValue[d - 1]
           D == DecodeValue[d - 1]
           v == Object(ms)
           EM == EncodeMembers(ms, E)
           c == Map(EM)
           m == Len(ms)
<1>0. d \in 0 .. MaxDepth /\ d - 1 \in 0 .. MaxDepth /\ d > 0 /\ m \in Nat
  BY CodecAssumption
<1>1. v.kind = "object" /\ v.members = ms /\ c.kind = "map" /\ c.items = EM
  BY DEF Object, Map
<1>2. \A j \in 1 .. m : /\ ms[j] = <<ms[j][1], ms[j][2]>>
                        /\ ms[j][1] \in STRING /\ ms[j][2] \in Json[d - 1]
                        /\ RoundTrip(d - 1, ms[j][2])
  OBVIOUS
<1>3. /\ Len(EM) = 2 * m
      /\ EM = [i \in 1 .. 2 * m |-> EM[i]]
      /\ \A j \in 1 .. m : EM[2 * j - 1] = Text(ms[j][1]) /\ EM[2 * j] = E[ms[j][2]]
  <2>1. InTurn(EM, ms, E)
    <3> HIDE DEF E
    <3> QED
      BY EncodedMembers
  <2> HIDE DEF EM, E
  <2> QED
    BY <2>1 DEF InTurn
<1>4. \A j \in 1 .. m : /\ EM[2 * j] \in Cbor[d - 1]
                        /\ IsContainer(EM[2 * j]) <=> IsContainer(ms[j][2])
                        /\ EM[2 * j].kind = "text" <=> ms[j][2].kind = "text"
                        /\ D[EM[2 * j]] = ms[j][2] <=> Survives[d - 1][ms[j][2]]
  <2> SUFFICES ASSUME NEW j \in 1 .. m
               PROVE  /\ EM[2 * j] \in Cbor[d - 1]
                      /\ IsContainer(EM[2 * j]) <=> IsContainer(ms[j][2])
                      /\ EM[2 * j].kind = "text" <=> ms[j][2].kind = "text"
                      /\ D[EM[2 * j]] = ms[j][2] <=> Survives[d - 1][ms[j][2]]
    OBVIOUS
  <2>1. PICK x : x = ms[j][2] /\ RoundTrip(d - 1, x)
    BY <1>2
  <2> HIDE DEF EM
  <2>2. PICK y : y = EM[2 * j] /\ y = EncodeValue[d - 1][x]
    BY <1>3, <2>1
  <2> HIDE DEF m
  <2>3. /\ y \in Cbor[d - 1] /\ (IsContainer(y) <=> IsContainer(x))
        /\ y.kind = "text" <=> x.kind = "text"
        /\ D[y] = x <=> Survives[d - 1][x]
    BY <2>1, <2>2 DEF RoundTrip
  <2> QED
    BY Zenon, <2>1, <2>2, <2>3
<1> HIDE DEF E, D, EM
<1>5. EM \in Seq(Cbor[d - 1])
  <2>1. ASSUME NEW i \in 1 .. 2 * m PROVE EM[i] \in Cbor[d - 1]
    <3>1. PICK j \in 1 .. m : i = 2 * j - 1 \/ i = 2 * j
      <4>1. i = 2 * ((i + 1) \div 2) - 1 \/ i = 2 * ((i + 1) \div 2)
        BY <1>0
      <4>2. (i + 1) \div 2 \in 1 .. m
        BY <1>0
      <4> QED
        BY <4>1, <4>2
    <3>2. Text(ms[j][1]) \in Scalars
      BY <1>2 DEF Scalars, Text
    <3>3. Scalars \subseteq Cbor[d - 1]
      BY <1>0, JsonValues
    <3>4. EM[2 * j - 1] \in Cbor[d - 1] /\ EM[2 * j] \in Cbor[d - 1]
      BY Zenon, <1>3, <1>4, <3>2, <3>3
    <3> QED
      BY Zenon, <3>1, <3>4
  <2>2. PICK l \in Nat : l = 2 * m
    BY <1>0
  <2>3. EM = [i \in 1 .. l |-> EM[i]] /\ \A i \in 1 .. l : EM[i] \in Cbor[d - 1]
    BY <1>3, <2>1, <2>2
  <2>4. EM \in [1 .. l -> Cbor[d - 1]]
    BY <2>3
  <2> QED
    BY <2>4
<1>6. v \in Json[d] /\ c \in Cbor[d]
  BY <1>0, <1>5, JsonValues
<1>7. EncodeValue[d][v] = c
  <2>1. EncodeOver(EncodeValue[d - 1], v) = c
    <3> HIDE DEF v
    <3> QED
      BY <1>1 DEF EncodeOver, EM, E
  <2> HIDE DEF v, c
  <2> QED
    BY <1>0, <1>6, <2>1, CodecAt
<1>8. DecodeValue[d][c] = Object(DecodeMembers(EM, D))
  <2>1. DecodeOver(DecodeValue[d - 1], c) = Object(DecodeMembers(EM, D))
    <3> HIDE DEF c
    <3> QED
      BY <1>1 DEF DecodeOver, D
  <2> HIDE DEF v, c
  <2> QED
    BY <1>0, <1>6, <2>1, CodecAt
<1>9. PICK w, e, nx : DecodeMembers(EM, D) = w[1] /\ MembersRead(w, EM, D, e, nx)
  <2>1. Len(EM) \in Nat
    BY <1>0, <1>3
  <2> QED
    BY <2>1, DecodeMembersWalks
<1>10. /\ Forward(2 * m, nx) /\ Walk(w, 2 * m, e, nx)
       /\ \A i \in 1 .. 2 * m : e[i] = Entry(EM, D, i) /\ nx[i] = AfterEntry(EM, i)
  BY <1>3, <1>9 DEF MembersRead
<1> DEFINE a == [j \in 1 .. m |-> e[2 * j - 1]]
           b == [j \in 1 .. m |-> e[2 * j]]
           big == [j \in 1 .. m |-> IsContainer(EM[2 * j])]
           txt == [j \in 1 .. m |-> EM[2 * j].kind = "text"]
<1>11. ASSUME NEW j \in 1 .. m
       PROVE  /\ 2 * j - 1 \in 1 .. 2 * m /\ 2 * j \in 1 .. 2 * m
              /\ e[2 * j - 1] = <<ms[j][1], D[EM[2 * j]]>>
              /\ nx[2 * j - 1] = IF IsContainer(EM[2 * j]) THEN 2 * j + 2 ELSE 2 * j + 1
              /\ e[2 * j] = Entry(EM, D, 2 * j)
              /\ nx[2 * j] = AfterEntry(EM, 2 * j)
  <2>1. /\ 2 * j - 1 \in 1 .. 2 * m /\ 2 * j \in 1 .. 2 * m
        /\ 2 * j - 1 # 2 * m /\ (2 * j - 1) + 1 = 2 * j
    BY <1>0
  <2>2. EM[2 * j - 1].kind = "text" /\ EM[2 * j - 1].text = ms[j][1]
    <3>1. EM[2 * j - 1] = Text(ms[j][1])
      BY <1>3
    <3> QED
      BY <3>1 DEF Text
  <2>3. e[2 * j - 1] = <<ms[j][1], D[EM[2 * j]]>>
    BY <1>3, <1>10, <2>1, <2>2 DEF Entry
  <2>4. nx[2 * j - 1] = Advance(EM, 2 * j)
    BY <1>3, <1>10, <2>1, <2>2 DEF AfterEntry
  <2>5. Advance(EM, 2 * j) = IF IsContainer(EM[2 * j]) THEN 2 * j + 2 ELSE 2 * j + 1
    BY <1>0 DEF Advance
  <2> QED
    BY Zenon, <1>10, <2>1, <2>3, <2>4, <2>5
<1>12. /\ w[2 * m + 1] = <<>> /\ w[2 * m + 2] = <<>>
       /\ \A i \in 1 .. 2 * m : w[i] = <<e[i]>> \o w[nx[i]]
  <2>1. PICK k : k = 2 * m
    OBVIOUS
  <2>2. Forward(k, nx) /\ Walk(w, k, e, nx)
    BY Zenon, <1>10, <2>1
  <2>3. /\ w[k + 1] = <<>> /\ w[k + 2] = <<>>
        /\ \A i \in 1 .. k : w[i] = <<e[i]>> \o w[nx[i]]
    BY SMTT(30), <2>2, WalkSteps
  <2> QED
    BY Zenon, <2>1, <2>3
<1>13. MemberWalk(w, m, a, b, big, txt)
  <2>1. ASSUME NEW j \in 1 .. m
        PROVE  /\ w[2 * j - 1] = <<a[j]>> \o w[IF big[j] THEN 2 * j + 2 ELSE 2 * j + 1]
               /\ w[2 * j] = IF txt[j] /\ j < m THEN <<b[j]>> \o w[2 * j + 2] ELSE <<b[j]>>
    <3>1. /\ a[j] = e[2 * j - 1] /\ b[j] = e[2 * j]
          /\ big[j] <=> IsContainer(EM[2 * j])
          /\ txt[j] <=> EM[2 * j].kind = "text"
      OBVIOUS
    <3> HIDE DEF a, b, big, txt
    <3>2. w[2 * j - 1] = <<a[j]>> \o w[IF big[j] THEN 2 * j + 2 ELSE 2 * j + 1]
      BY <1>11, <1>12, <3>1
    <3>3. w[2 * j] = <<b[j]>> \o w[AfterEntry(EM, 2 * j)]
      BY <1>11, <1>12, <3>1
    <3>4. CASE txt[j] /\ j < m
      <4>1. j + 1 \in 1 .. m /\ 2 * (j + 1) - 1 = 2 * j + 1 /\ 2 * j # 2 * m
        BY <1>0, <3>4
      <4>2. EM[2 * j + 1] = Text(ms[j + 1][1])
        BY <1>3, <4>1
      <4>3. ~IsContainer(EM[2 * j + 1])
        BY <4>2 DEF Text, IsContainer
      <4>4. AfterEntry(EM, 2 * j) = 2 * j + 2
        <5>1. EM[2 * j].kind = "text"
          BY Zenon, <3>1, <3>4
        <5>2. AfterEntry(EM, 2 * j) = Advance(EM, 2 * j + 1)
          BY <1>3, <4>1, <5>1 DEF AfterEntry
        <5>3. Advance(EM, 2 * j + 1) = 2 * j + 2
          BY <4>3 DEF Advance
        <5> QED
          BY <5>2, <5>3
      <4> QED
        BY Zenon, <3>2, <3>3, <3>4, <4>4
    <3>5. CASE ~(txt[j] /\ j < m)
      <4>1. EM[2 * j].kind # "text" \/ 2 * j = 2 * m
        <5>1. j < m \/ j = m
          BY <1>0
        <5>2. j = m => 2 * j = 2 * m
          OBVIOUS
        <5> QED
          BY Zenon, <3>1, <3>5, <5>1, <5>2
      <4>2. AfterEntry(EM, 2 * j) = 2 * m + 1
        BY <1>3, <4>1 DEF AfterEntry
      <4>3. w[2 * j] = <<b[j]>>
        BY <1>12, <3>3, <4>2, ConsNothing
      <4> QED
        BY Zenon, <3>2, <3>5, <4>3
    <3> QED
      BY <3>2, <3>4, <3>5
  <2> HIDE DEF a, b, big, txt
  <2> QED
    BY <1>12, <2>1 DEF MemberWalk
<1>14. \A j \in 1 .. m : ~txt[j] \/ j = m => b[j] # ms[j]
  <2> SUFFICES ASSUME NEW j \in 1 .. m, ~txt[j] \/ j = m PROVE b[j] # ms[j]
    OBVIOUS
  <2>1. ms[j][2].kind \in {"null", "text", "number", "array", "object"}
    BY <1>0, <1>2, JsonKinds
  <2>2. b[j] = Entry(EM, D, 2 * j) /\ (txt[j] <=> EM[2 * j].kind = "text")
    BY <1>11
  <2> HIDE DEF b, txt
  <2>3. CASE EM[2 * j].kind # "text"
    <3>1. b[j] = <<"", Garbage>>
      BY <2>2, <2>3 DEF Entry
    <3>0. Garbage.kind = "garbage"
      BY DEF Garbage
    <3>2. PICK g : g = Garbage
      OBVIOUS
    <3>4. PICK z : z = <<"", g>>
      OBVIOUS
    <3>3. b[j][2] = g /\ g.kind = "garbage"
      <4>1. z[2] = g
        BY <3>4
      <4> QED
        BY Zenon, <3>0, <3>1, <3>2, <3>4, <4>1
    <3> QED
      BY <2>1, <3>2, <3>3
  <2>4. CASE EM[2 * j].kind = "text"
    <3>1. j = m /\ ms[j][2].kind = "text"
      BY <1>4, <2>2, <2>4
    <3>2. b[j] = <<EM[2 * j].text, Null>>
      BY <1>3, <2>2, <2>4, <3>1 DEF Entry
    <3> QED
      BY <3>1, <3>2 DEF Null
  <2> QED
    BY <2>3, <2>4
<1>15. w[1] = ms <=> \A i \in 1 .. m : ItemBack(i, ms, a, big)
  <2> DEFINE A == (STRING \X Json[d - 1]) \cup {e[i] : i \in 1 .. 2 * m}
  <2>1. \A i \in 1 .. 2 * m : e[i] \in A
    OBVIOUS
  <2>2. ms \in Seq(A)
    BY <1>0
  <2> HIDE DEF A
  <2>3. \A j \in 1 .. 2 * m + 2 : w[j] \in Seq(A)
    <3>1. PICK k : k = 2 * m
      OBVIOUS
    <3>2. Forward(k, nx) /\ Walk(w, k, e, nx) /\ \A i \in 1 .. k : e[i] \in A
      BY Zenon, <1>10, <2>1, <3>1
    <3>3. \A i \in 1 .. k + 2 : w[i] \in Seq(A)
      BY <3>2, WalkTyped
    <3> QED
      BY Zenon, <3>1, <3>3
  <2>4. \A j \in 1 .. m : a[j] \in A /\ b[j] \in A
    BY <1>11, <2>1
  <2> HIDE DEF a, b, big, txt
  <2> QED
    BY <1>13, <1>14, <2>2, <2>3, <2>4, MembersBack
<1>16. \A i \in 1 .. m :
         ItemBack(i, ms, a, big)
           <=> Survives[d - 1][ms[i][2]] /\ (IsContainer(ms[i][2]) => i = m)
  <2> SUFFICES ASSUME NEW i \in 1 .. m
               PROVE  ItemBack(i, ms, a, big)
                        <=> Survives[d - 1][ms[i][2]] /\ (IsContainer(ms[i][2]) => i = m)
    OBVIOUS
  <2>1. a[i] = <<ms[i][1], D[EM[2 * i]]>> /\ (big[i] <=> IsContainer(EM[2 * i]))
    BY <1>11
  <2> HIDE DEF a, big
  <2>2. a[i] = ms[i] <=> D[EM[2 * i]] = ms[i][2]
    BY <1>2, <2>1
  <2> QED
    BY Zenon, <1>4, <2>1, <2>2 DEF ItemBack
<1>17. Survives[d][v]
         <=> \A i \in 1 .. m : Survives[d - 1][ms[i][2]] /\ (IsContainer(ms[i][2]) => i = m)
  <2> DEFINE items == [i \in DOMAIN ms |-> ms[i][2]]
  <2>1. DOMAIN items = 1 .. m /\ Len(items) = m /\ \A i \in 1 .. m : items[i] = ms[i][2]
    BY <1>0
  <2>2. SurvivesOver(Survives[d - 1], v)
          <=> \A i \in DOMAIN items :
                Survives[d - 1][items[i]] /\ (IsContainer(items[i]) => i = Len(items))
    <3> HIDE DEF v
    <3> QED
      BY <1>1 DEF SurvivesOver
  <2>3. Survives[d][v] = SurvivesOver(Survives[d - 1], v)
    <3> HIDE DEF v
    <3> QED
      BY <1>0, <1>6, CodecAt
  <2> HIDE DEF items
  <2> QED
    BY Zenon, <2>1, <2>2, <2>3
<1>18. Object(w[1]) = v <=> w[1] = ms
  BY DEF Object
<1>19. /\ IsContainer(c) <=> IsContainer(v)
       /\ c.kind = "text" <=> v.kind = "text"
  BY <1>1 DEF IsContainer
<1>20. DecodeValue[d][c] = v <=> Survives[d][v]
  BY Zenon, <1>8, <1>9, <1>15, <1>16, <1>17, <1>18
<1> QED
  BY Zenon, <1>6, <1>7, <1>19, <1>20 DEF RoundTrip

(* For every JSON value of any depth: what CBOR makes of it is decoded to  *)
(* the value again exactly if it survives.                                 *)
THEOREM CborRoundTrip == \A d \in 0 .. MaxDepth : \A v \in Json[d] : RoundTrip(d, v)
<1> DEFINE S == {d \in 0 .. MaxDepth : \A v \in Json[d] : RoundTrip(d, v)}
<1>1. 0 \in S
  <2>1. \A v \in Scalars : RoundTrip(0, v)
    BY GroundScalars, ScalarTrip
  <2> QED
    BY <2>1, GroundScalars
<1>2. ASSUME NEW d \in 1 .. MaxDepth, d - 1 \in S PROVE d \in S
  <2>1. \A x \in Json[d - 1] : RoundTrip(d - 1, x)
    BY <1>2
  <2>2. d \in 0 .. MaxDepth
    OBVIOUS
  <2>3. ASSUME NEW v \in Json[d] PROVE RoundTrip(d, v)
    <3>1. CASE v \in Scalars
      BY <2>2, <3>1, ScalarTrip
    <3>2. CASE \E s \in Seq(Json[d - 1]) : v = Array(s)
      <4>1. PICK s \in Seq(Json[d - 1]) : v = Array(s)
        BY <3>2
      <4>2. RoundTrip(d, Array(s))
        BY <2>1, ArrayTrip
      <4> QED
        BY <4>1, <4>2
    <3>3. CASE \E s \in Seq(STRING \X Json[d - 1]) : v = Object(s)
      <4>1. PICK s \in Seq(STRING \X Json[d - 1]) : v = Object(s)
        BY <3>3
      <4>2. RoundTrip(d, Object(s))
        BY <2>1, ObjectTrip
      <4> QED
        BY <4>1, <4>2
    <3> QED
      BY Zenon, <2>2, <3>1, <3>2, <3>3, JsonCases
  <2> QED
    BY <2>2, <2>3
<1>3. MaxDepth \in Nat /\ \A d \in 0 .. MaxDepth : d \in S
  <2> HIDE DEF S
  <2> QED
    BY <1>1, <1>2, StepByStep, CodecAssumption
<1> QED
  BY <1>3

-----------------------------------------------------------------------------
(* The payloads of the run are JSON values, and so are their records.      *)

LEMMA OneIsSeq == \A A : \A x \in A : <<x>> \in Seq(A)
OBVIOUS

LEMMA ArrayIsJson ==
  ASSUME NEW d \in 1 .. MaxDepth, NEW s \in Seq(Json[d - 1])
  PROVE  Array(s) \in Json[d]
<1>1. d \in 0 .. MaxDepth /\ d > 0
  BY CodecAssumption
<1> QED
  BY <1>1, JsonValues

LEMMA JsonGrows == \A d \in 1 .. MaxDepth : Json[d - 1] \subseteq Json[d]
<1> DEFINE S == {d \in 0 .. MaxDepth : d > 0 => Json[d - 1] \subseteq Json[d]}
<1>1. 0 \in S
  BY CodecAssumption
<1>2. ASSUME NEW d \in 1 .. MaxDepth, d - 1 \in S PROVE d \in S
  <2>1. d \in 0 .. MaxDepth /\ d - 1 \in 0 .. MaxDepth
    BY CodecAssumption
  <2> SUFFICES ASSUME NEW v \in Json[d - 1] PROVE v \in Json[d]
    BY <2>1
  <2>2. d - 1 > 0 => Json[(d - 1) - 1] \subseteq Json[d - 1]
    BY <1>2
  <2>3. CASE v \in Scalars
    BY <2>1, <2>3, JsonValues
  <2>4. ASSUME d - 1 > 0, NEW s \in Seq(Json[(d - 1) - 1]), v = Array(s) PROVE v \in Json[d]
    <3>1. s \in Seq(Json[d - 1])
      BY <2>2, <2>4
    <3> QED
      BY <2>4, <3>1, ArrayIsJson
  <2>5. ASSUME d - 1 > 0, NEW s \in Seq(STRING \X Json[(d - 1) - 1]), v = Object(s)
        PROVE  v \in Json[d]
    <3>1. STRING \X Json[(d - 1) - 1] \subseteq STRING \X Json[d - 1]
      BY <2>2, <2>5
    <3>2. s \in Seq(STRING \X Json[d - 1])
      BY <3>1
    <3> QED
      BY <2>1, <2>5, <3>2, JsonValues
  <2> QED
    BY Zenon, <2>1, <2>3, <2>4, <2>5, JsonCases
<1>3. \A d \in 0 .. MaxDepth : d \in S
  <2> HIDE DEF S
  <2> QED
    BY <1>1, <1>2, StepByStep, CodecAssumption
<1> QED
  BY <1>3, CodecAssumption

LEMMA SeqOfIsSeq ==
  ASSUME NEW A, NEW n \in Nat, NEW s \in SeqOf(A, n)
  PROVE  s \in Seq(A) /\ Len(s) <= n
<1>1. PICK m \in 0 .. n : s \in [1 .. m -> A]
  BY DEF SeqOf
<1> QED
  BY <1>1

LEMMA ContainersAreJson ==
  ASSUME NEW d \in 1 .. MaxDepth, NEW V \in SUBSET Json[d - 1]
  PROVE  Containers(V) \subseteq Json[d]
<1>0. /\ d \in 0 .. MaxDepth /\ d > 0
      /\ MaxItems \in Nat /\ MaxItems <= Len(Keys) /\ Keys \in Seq(STRING)
  BY CodecAssumption, FunctionsAssumption
<1>1. ASSUME NEW s \in SeqOf(V, MaxItems)
      PROVE  Array(s) \in Json[d] /\ Object([i \in DOMAIN s |-> <<Keys[i], s[i]>>]) \in Json[d]
  <2>1. s \in Seq(V) /\ Len(s) <= Len(Keys) /\ Len(s) \in Nat /\ DOMAIN s = 1 .. Len(s)
    BY <1>0, SeqOfIsSeq
  <2>2. s \in Seq(Json[d - 1])
    BY <2>1
  <2>3. \A i \in 1 .. Len(s) : Keys[i] \in STRING
    BY <1>0, <2>1
  <2>4. \A i \in 1 .. Len(s) : <<Keys[i], s[i]>> \in STRING \X Json[d - 1]
    BY <2>2, <2>3
  <2>5. [i \in 1 .. Len(s) |-> <<Keys[i], s[i]>>] \in Seq(STRING \X Json[d - 1])
    BY <2>1, <2>4
  <2> QED
    BY <1>0, <2>1, <2>2, <2>5, JsonValues
<1> QED
  BY <1>1 DEF Containers

LEMMA PayloadsAreJson == Payloads \subseteq Json[MaxDepth]
<1>1. /\ MaxDepth \in 0 .. MaxDepth /\ MaxDepth \in 1 .. MaxDepth
      /\ MaxDepth - 1 \in 0 .. MaxDepth /\ MaxDepth - 1 \in 1 .. MaxDepth /\ MaxDepth - 1 > 0
      /\ (MaxDepth - 1) - 1 \in 0 .. MaxDepth
  BY CodecAssumption, FunctionsAssumption
<1>2. Atoms \subseteq Scalars
  BY FunctionsAssumption DEF Atoms, Scalars, Null, Num, Text
<1>3. \A d \in 0 .. MaxDepth : Atoms \subseteq Json[d]
  BY <1>2, JsonValues
<1>4. Array(<<>>) \in Json[MaxDepth - 1]
  <2>1. <<>> \in Seq(Json[(MaxDepth - 1) - 1])
    OBVIOUS
  <2> QED
    BY <1>1, <2>1, JsonValues
<1>5. Object(<<<<Keys[1], Null>>>>) \in Json[MaxDepth - 1]
  <2>1. Null \in Json[(MaxDepth - 1) - 1]
    BY <1>1, <1>3 DEF Atoms
  <2>2. PICK p \in STRING \X Json[(MaxDepth - 1) - 1] : p = <<Keys[1], Null>>
    <3>1. PICK x \in Json[(MaxDepth - 1) - 1] : x = Null
      BY <2>1
    <3>2. Keys[1] \in STRING
      BY FunctionsAssumption
    <3>3. <<Keys[1], x>> \in STRING \X Json[(MaxDepth - 1) - 1]
      BY <3>2
    <3> QED
      BY Zenon, <3>1, <3>3
  <2>3. <<p>> \in Seq(STRING \X Json[(MaxDepth - 1) - 1])
    BY OneIsSeq
  <2> QED
    BY <1>1, <2>2, <2>3, JsonValues
<1>6. Containers(Atoms \cup {Array(<<>>), Object(<<<<Keys[1], Null>>>>)}) \subseteq Json[MaxDepth]
  BY <1>1, <1>3, <1>4, <1>5, ContainersAreJson
<1>7. ASSUME NEW o \in Containers(Atoms) PROVE Array(<<o>>) \in Json[MaxDepth]
  <2>1. o \in Json[MaxDepth - 1]
    BY <1>1, <1>3, ContainersAreJson
  <2>2. <<o>> \in Seq(Json[MaxDepth - 1])
    BY Zenon, <2>1, OneIsSeq
  <2> QED
    BY Zenon, <1>1, <2>2, ArrayIsJson
<1> QED
  BY <1>1, <1>3, <1>6, <1>7 DEF Payloads

IsRecord(c, r) ==
  IF c.format = "json" THEN r \in Json[MaxDepth] ELSE \E b : r = Raw(b)

LEMMA RawLines ==
  ASSUME NEW ls, NEW k \in DOMAIN [i \in DOMAIN ls |-> Raw(ls[i])]
  PROVE  \E b : [i \in DOMAIN ls |-> Raw(ls[i])][k] = Raw(b)
OBVIOUS

LEMMA RecordsAreTyped ==
  ASSUME NEW c \in Codings, NEW file \in PayloadFiles, Fits(c, file),
         NEW k \in DOMAIN RecordsOf(c.format, file)
  PROVE  IsRecord(c, RecordsOf(c.format, file)[k])
<1>0. c.format \in {"json", "kv", "binary", "random"}
  BY DEF Codings
<1>1. CASE c.format = "json"
  <2>1. file.kind # "lines"
    BY <1>1 DEF Fits
  <2>2. file \in Payloads
    <3>1. file \in Payloads \/ \E s : file = [kind |-> "lines", lines |-> s]
      BY Zenon DEF PayloadFiles
    <3>2. \A s : [kind |-> "lines", lines |-> s].kind = "lines"
      OBVIOUS
    <3> QED
      BY Zenon, <2>1, <3>1, <3>2
  <2>3. file \in Json[MaxDepth]
    BY <2>2, PayloadsAreJson
  <2>4. MaxDepth \in 0 .. MaxDepth /\ MaxDepth \in 1 .. MaxDepth
    BY CodecAssumption, FunctionsAssumption
  <2>5. RecordsOf(c.format, file) = IF file.kind = "array" THEN file.items ELSE <<file>>
    BY <1>1 DEF RecordsOf
  <2>6. CASE file.kind # "array"
    <3>1. RecordsOf(c.format, file)[k] = file
      BY <2>5, <2>6
    <3> QED
      BY <1>1, <2>3, <3>1 DEF IsRecord
  <2>7. CASE file.kind = "array"
    <3>1. PICK s \in Seq(Json[MaxDepth - 1]) : file = Array(s)
      <4>1. file \notin Scalars
        BY <2>7, ScalarKinds
      <4>2. \A ms : file # Object(ms)
        BY <2>7 DEF Object
      <4> QED
        BY Zenon, <2>3, <2>4, <4>1, <4>2, JsonCases
    <3>2. file.items = s
      BY <3>1 DEF Array
    <3>3. \A i \in DOMAIN s : s[i] \in Json[MaxDepth]
      BY <2>4, JsonGrows
    <3> QED
      BY <1>1, <2>5, <2>7, <3>2, <3>3 DEF IsRecord
  <2> QED
    BY <2>6, <2>7
<1>2. CASE c.format = "kv"
  <2>1. PICK ls : RecordsOf(c.format, file) = [i \in DOMAIN ls |-> Raw(ls[i])]
    BY <1>2 DEF RecordsOf
  <2>2. \E b : RecordsOf(c.format, file)[k] = Raw(b)
    BY <2>1, RawLines
  <2> QED
    BY <1>2, <2>2 DEF IsRecord
<1>3. CASE c.format \in {"binary", "random"}
  <2>1. PICK b : RecordsOf(c.format, file) = <<Raw(b)>>
    BY <1>3 DEF RecordsOf
  <2>2. RecordsOf(c.format, file)[k] = Raw(b)
    BY <2>1
  <2> QED
    BY <1>3, <2>2 DEF IsRecord
<1> QED
  BY <1>0, <1>1, <1>2, <1>3

LEMMA DecompressBack ==
  ASSUME NEW c \in Codings, NEW b
  PROVE  Decompress(c.compression, c.dict, Compress(c.compression, c.dict, b)) = b
<1>1. c.compression = "none" \/ c.compression = "zstd"
  BY DEF Codings
<1> QED
  BY <1>1 DEF Compress, Decompress

(* One record on its way through both sides.                               *)
ComesBack(c, r) ==
  IF c.serializer = "cbor" /\ c.format # "json" THEN Encoded(c, r) = Failed
  ELSE Decodings(c, Encoded(c, r)) = {r} <=> (c.serializer = "cbor" => Survives[MaxDepth][r])

LEMMA DecodedAgain ==
  ASSUME NEW c \in Codings, NEW r, NEW b, b = Serialize(c.serializer, c.format, r), b # Failed
  PROVE  Decodings(c, Encoded(c, r)) = Deserializations(c.serializer, b)
<1>1. Encoded(c, r) = Compress(c.compression, c.dict, b)
  BY DEF Encoded
<1>2. Decompress(c.compression, c.dict, Encoded(c, r)) = b
  BY <1>1, DecompressBack
<1> QED
  BY <1>2 DEF Decodings

LEMMA RecordComesBack ==
  ASSUME NEW c \in Codings, NEW r, IsRecord(c, r)
  PROVE  ComesBack(c, r)
<1>0. MaxDepth \in 0 .. MaxDepth /\ Failed.kind = "failed"
  BY CodecAssumption DEF Failed
<1>1. r.kind \in {"null", "text", "number", "array", "object", "raw"}
  BY <1>0, JsonKinds DEF IsRecord, Raw
<1>2. r # Failed
  BY <1>0, <1>1
<1>3. c.serializer \in {"none", "cbor", "protobuf"}
  BY DEF Codings
<1>4. CASE c.serializer = "none"
  <2>1. Serialize(c.serializer, c.format, r) = r
    BY <1>4 DEF Serialize
  <2>2. Deserializations(c.serializer, r) = {r}
    BY <1>4 DEF Deserializations
  <2>3. Decodings(c, Encoded(c, r)) = {r}
    BY <1>2, <2>1, <2>2, DecodedAgain
  <2> QED
    BY <1>4, <2>3 DEF ComesBack
<1>5. CASE c.serializer = "protobuf"
  <2>1. PICK b : b = [kind |-> "protobuf", content |-> r, format |-> c.format]
    OBVIOUS
  <2>2. b = Serialize(c.serializer, c.format, r)
    BY <1>5, <2>1 DEF Serialize
  <2>3. b.kind = "protobuf" /\ b.content = r
    BY <2>1
  <2>4. Deserializations(c.serializer, b) = {r}
    BY <1>5, <2>3 DEF Deserializations
  <2>5. b # Failed
    BY <1>0, <2>3
  <2>6. Decodings(c, Encoded(c, r)) = {r}
    BY <2>2, <2>4, <2>5, DecodedAgain
  <2> QED
    BY <1>5, <2>6 DEF ComesBack
<1>6. CASE c.serializer = "cbor" /\ c.format # "json"
  <2>1. r.kind = "raw"
    BY <1>6 DEF IsRecord, Raw
  <2>2. Serialize(c.serializer, c.format, r) = Failed
    BY <1>6, <2>1 DEF Serialize
  <2>3. Encoded(c, r) = Failed
    BY <2>2 DEF Encoded
  <2> QED
    BY <1>6, <2>3 DEF ComesBack
<1>7. CASE c.serializer = "cbor" /\ c.format = "json"
  <2>1. r \in Json[MaxDepth] /\ r.kind # "raw"
    <3>1. r \in Json[MaxDepth]
      BY <1>7 DEF IsRecord
    <3> QED
      BY <1>0, <3>1, JsonKinds
  <2>2. PICK t : t = EncodeValue[MaxDepth][r]
    OBVIOUS
  <2>3. DecodeValue[MaxDepth][t] = r <=> Survives[MaxDepth][r]
    BY <1>0, <2>1, <2>2, CborRoundTrip DEF RoundTrip
  <2>4. PICK b : b = Bytes("cbor", t)
    OBVIOUS
  <2>5. b.kind = "cbor" /\ b.content = t
    BY <2>4 DEF Bytes
  <2>6. b = Serialize(c.serializer, c.format, r)
    BY <1>7, <2>1, <2>2, <2>4 DEF Serialize
  <2>7. Deserializations(c.serializer, b) = {DecodeValue[MaxDepth][t]}
    BY <1>7, <2>5 DEF Deserializations
  <2>8. b # Failed
    BY <1>0, <2>5
  <2>9. Decodings(c, Encoded(c, r)) = {DecodeValue[MaxDepth][t]}
    BY <2>6, <2>7, <2>8, DecodedAgain
  <2>10. Decodings(c, Encoded(c, r)) = {r} <=> Survives[MaxDepth][r]
    <3>1. {DecodeValue[MaxDepth][t]} = {r} <=> DecodeValue[MaxDepth][t] = r
      OBVIOUS
    <3> QED
      BY Zenon, <2>3, <2>9, <3>1
  <2> QED
    BY Zenon, <1>7, <2>10 DEF ComesBack
<1> QED
  BY <1>3, <1>4, <1>5, <1>6, <1>7

(* A call of the codec is of a coding and a file that fits it.             *)
CallIsCoding ==
  call.of = "codec" =>
    call.coding \in Codings /\ call.file \in PayloadFiles /\ Fits(call.coding, call.file)

LEMMA CallsAreCodings == FunctionsSpec => []CallIsCoding
<1>1. NoCall => CallIsCoding
  <2> SUFFICES ASSUME NoCall PROVE call.of # "codec"
    BY DEF CallIsCoding
  <2>1. call.of = "none"
    BY DEF NoCall
  <2> QED
    BY <2>1
<1>2. CallIsCoding /\ [CallFunction]_callVars => CallIsCoding'
  <2> SUFFICES ASSUME CallIsCoding, [CallFunction]_callVars PROVE CallIsCoding'
    OBVIOUS
  <2>1. CASE CallCompute
    <3>1. call'.of = "compute"
      BY <2>1 DEF CallCompute, Call
    <3> QED
      BY <3>1 DEF CallIsCoding
  <2>2. CASE CallConfigure
    <3>1. call'.of = "configure"
      BY <2>2 DEF CallConfigure, Call
    <3> QED
      BY <3>1 DEF CallIsCoding
  <2>3. CASE CallCodec
    <3>1. PICK c \in Codings, file \in PayloadFiles :
            Fits(c, file) /\ call' = [of |-> "codec", coding |-> c, file |-> file]
      BY <2>3 DEF CallCodec, Call
    <3>2. call'.coding = c /\ call'.file = file
      BY <3>1
    <3> QED
      BY <3>1, <3>2 DEF CallIsCoding
  <2>4. CASE UNCHANGED callVars
    BY <2>4 DEF CallIsCoding, callVars
  <2> QED
    BY <2>1, <2>2, <2>3, <2>4 DEF CallFunction
<1> QED
  BY <1>1, <1>2, PTL DEF FunctionsSpec

(* A receiver with the sender's configuration gets a record back from CBOR *)
(* exactly if it survives, and from the other serializers always; records  *)
(* that are not JSON never leave a sender with CBOR.                       *)
THEOREM PayloadComesBackAlways == FunctionsSpec => []PayloadComesBack
<1>1. CallIsCoding => PayloadComesBack
  <2> SUFFICES ASSUME CallIsCoding, call.of = "codec",
                      NEW k \in DOMAIN RecordsOf(call.coding.format, call.file)
               PROVE  ComesBack(call.coding, RecordsOf(call.coding.format, call.file)[k])
    BY Zenon DEF PayloadComesBack, ComesBack
  <2>1. /\ call.coding \in Codings /\ call.file \in PayloadFiles
        /\ Fits(call.coding, call.file)
    BY DEF CallIsCoding
  <2> QED
    BY <2>1, RecordsAreTyped, RecordComesBack
<1> QED
  BY <1>1, CallsAreCodings, PTL

-----------------------------------------------------------------------------
(* Samples as an enumeration of a set: Sorted depends on the set only, and *)
(* it keeps the sum.                                                       *)

BelowIn(S, e, v) == {x \in S : e[x] < v}
UpToIn(S, e, v) == {x \in S : e[x] <= v}

(* g enumerates S, and s holds the values there.                           *)
Lists(s, g, S, e) ==
  /\ s \in Seq(Int) /\ IsFiniteSet(S) /\ IntOn(e, S) /\ Len(s) = Cardinality(S)
  /\ g \in [1 .. Len(s) -> S]
  /\ \A i, k \in 1 .. Len(s) : g[i] = g[k] => i = k
  /\ \A i \in 1 .. Len(s) : s[i] = e[g[i]]

LEMMA ListsAll ==
  ASSUME NEW s, NEW g, NEW S, NEW e, Lists(s, g, S, e)
  PROVE  \A x \in S : \E i \in 1 .. Len(s) : g[i] = x
<1>1. PICK n : n = Len(s)
  OBVIOUS
<1>2. n \in Nat /\ IsFiniteSet(S) /\ n = Cardinality(S) /\ g \in [1 .. n -> S]
      /\ \A i, k \in 1 .. n : g[i] = g[k] => i = k
  BY <1>1 DEF Lists
<1>3. g \in Injection(1 .. n, S)
  BY <1>2 DEF Injection, IsInjective
<1>4. IsFiniteSet(1 .. n) /\ Cardinality(1 .. n) = n
  BY Zenon, <1>2, FirstFinite
<1>5. g \in Surjection(1 .. n, S)
  BY <1>2, <1>3, <1>4, FS_Injection
<1> QED
  BY <1>1, <1>5 DEF Surjection

Matching(A, B, g, n, S) ==
  A \subseteq 1 .. n /\ B \subseteq S /\ \A i \in 1 .. n : i \in A <=> g[i] \in B

LEMMA ListedPlaces ==
  ASSUME NEW s, NEW g, NEW S, NEW e, Lists(s, g, S, e), NEW A, NEW B,
         Matching(A, B, g, Len(s), S)
  PROVE  Cardinality(A) = Cardinality(B)
<1>0. A \subseteq 1 .. Len(s) /\ B \subseteq S /\ \A i \in 1 .. Len(s) : i \in A <=> g[i] \in B
  BY DEF Matching
<1> DEFINE f == [i \in A |-> g[i]]
<1>1. f \in [A -> B] /\ \A i, k \in A : f[i] = f[k] => i = k
  BY <1>0 DEF Lists
<1>2. \A x \in B : \E i \in A : f[i] = x
  BY <1>0, ListsAll
<1> HIDE DEF f
<1>3. f \in Bijection(A, B)
  BY <1>1, <1>2 DEF Bijection, Injection, Surjection, IsInjective
<1>4. IsFiniteSet(A)
  <2>1. Len(s) \in Nat
    BY DEF Lists
  <2>2. IsFiniteSet(1 .. Len(s))
    BY Zenon, <2>1, FirstFinite
  <2> QED
    BY <1>0, <2>2, FS_Subset
<1> QED
  BY <1>3, <1>4, FS_Bijection DEF ExistsBijection

LEMMA ListedCounts ==
  ASSUME NEW s, NEW g, NEW S, NEW e, Lists(s, g, S, e), NEW v \in Int
  PROVE  /\ Cardinality(Below(s, v)) = Cardinality(BelowIn(S, e, v))
         /\ Cardinality(UpTo(s, v)) = Cardinality(UpToIn(S, e, v))
<1>1. DOMAIN s = 1 .. Len(s) /\ g \in [1 .. Len(s) -> S]
      /\ \A i \in 1 .. Len(s) : s[i] = e[g[i]]
  BY DEF Lists
<1>2. Matching(Below(s, v), BelowIn(S, e, v), g, Len(s), S)
  BY <1>1 DEF Below, BelowIn, Matching
<1>3. Matching(UpTo(s, v), UpToIn(S, e, v), g, Len(s), S)
  BY <1>1 DEF UpTo, UpToIn, Matching
<1>4. Cardinality(Below(s, v)) = Cardinality(BelowIn(S, e, v))
  BY <1>2, ListedPlaces
<1>5. Cardinality(UpTo(s, v)) = Cardinality(UpToIn(S, e, v))
  BY <1>3, ListedPlaces
<1> QED
  BY <1>4, <1>5

LEMMA ListedRange ==
  ASSUME NEW s, NEW g, NEW S, NEW e, Lists(s, g, S, e)
  PROVE  Range(s) = {e[x] : x \in S} /\ DOMAIN s = 1 .. Cardinality(S)
<1>1. DOMAIN s = 1 .. Len(s) /\ Len(s) = Cardinality(S) /\ g \in [1 .. Len(s) -> S]
      /\ \A i \in 1 .. Len(s) : s[i] = e[g[i]]
  BY DEF Lists
<1>2. \A x \in S : \E i \in 1 .. Len(s) : s[i] = e[x]
  BY <1>1, ListsAll
<1> QED
  BY <1>1, <1>2 DEF Range

(* One value only belongs at a place.                                      *)
LEMMA PlaceIsOne ==
  ASSUME NEW s \in Seq(Int), NEW k \in Int, NEW v \in Int, NEW w \in Int,
         AtPlace(s, k, v), AtPlace(s, k, w), v < w
  PROVE  FALSE
<1>1. UpTo(s, v) \subseteq Below(s, w)
  BY DEF UpTo, Below
<1>2. Cardinality(UpTo(s, v)) <= Cardinality(Below(s, w))
  BY <1>1, PlacesBelow, FS_Subset
<1>3. k <= Cardinality(UpTo(s, v)) /\ Cardinality(Below(s, w)) < k
  BY DEF AtPlace
<1>4. Cardinality(UpTo(s, v)) \in Nat /\ Cardinality(Below(s, w)) \in Nat
  BY PlacesBelow
<1> QED
  BY <1>2, <1>3, <1>4

(* The order in which the samples came does not matter.                    *)
LEMMA SortedOfSet ==
  ASSUME NEW s, NEW g, NEW r, NEW h, NEW S, NEW e, Lists(s, g, S, e), Lists(r, h, S, e)
  PROVE  Sorted(s) = Sorted(r)
<1>1. /\ DOMAIN s = 1 .. Len(s) /\ DOMAIN r = 1 .. Len(s) /\ Len(r) = Len(s)
      /\ Range(s) = Range(r) /\ s \in Seq(Int) /\ r \in Seq(Int)
  <2>1. Range(s) = {e[x] : x \in S}
    BY ListedRange
  <2>2. Range(r) = {e[x] : x \in S}
    BY ListedRange
  <2>3. Len(s) = Cardinality(S) /\ Len(r) = Cardinality(S) /\ s \in Seq(Int) /\ r \in Seq(Int)
    BY DEF Lists
  <2> QED
    BY <2>1, <2>2, <2>3
<1>2. PICK t, u : t = Sorted(s) /\ u = Sorted(r)
  OBVIOUS
<1>3. t = [k \in 1 .. Len(s) |-> t[k]] /\ u = [k \in 1 .. Len(s) |-> u[k]]
  BY <1>1, <1>2 DEF Sorted
<1>4. ASSUME NEW k \in 1 .. Len(s) PROVE t[k] = u[k]
  <2>1. AtPlace(s, k, t[k]) /\ t[k] \in Int /\ AtPlace(r, k, u[k]) /\ u[k] \in Int
    BY <1>1, <1>2, SortedPlace
  <2>2. PICK v \in Int, w \in Int : v = t[k] /\ w = u[k]
    BY <2>1
  <2>3. /\ Cardinality(Below(s, w)) = Cardinality(Below(r, w))
        /\ Cardinality(UpTo(s, w)) = Cardinality(UpTo(r, w))
    BY ListedCounts
  <2>4. AtPlace(s, k, v) /\ AtPlace(s, k, w)
    BY <1>1, <2>1, <2>2, <2>3 DEF AtPlace
  <2>5. ~(v < w) /\ ~(w < v)
    BY <1>1, <2>4, PlaceIsOne
  <2> QED
    BY <2>2, <2>5
<1> QED
  BY Zenon, <1>2, <1>3, <1>4

LEMMA ComputeOfSet ==
  ASSUME NEW s, NEW g, NEW r, NEW h, NEW S, NEW e, Lists(s, g, S, e), Lists(r, h, S, e)
  PROVE  Compute(s) = Compute(r)
<1>1. Sorted(s) = Sorted(r)
  BY SortedOfSet
<1>2. s = <<>> <=> r = <<>>
  BY DEF Lists
<1> QED
  BY <1>1, <1>2 DEF Compute

(* The value v belongs at place k of the values of S in order.             *)
InPlace(S, e, k, v) ==
  Cardinality(BelowIn(S, e, v)) < k /\ k <= Cardinality(UpToIn(S, e, v))

Filled(S, e, T, v) == BelowIn(S, e, v) \subseteq T /\ T \subseteq UpToIn(S, e, v)

(* T holds the k - 1 before it.                                            *)
Before(S, e, k, v, T) ==
  /\ InPlace(S, e, k, v) /\ T \subseteq UpToIn(S, e, v) /\ Cardinality(T) = k - 1
  /\ BelowIn(S, e, v) \subseteq T \/ T \subseteq BelowIn(S, e, v)

LEMMA FillNext ==
  ASSUME NEW S, IsFiniteSet(S), NEW e, IntOn(e, S), NEW k \in Nat \ {0}, NEW v \in Int,
         NEW T, Before(S, e, k, v, T)
  PROVE  \E y \in S : y \notin T /\ e[y] = v /\ Filled(S, e, T \cup {y}, v)
<1>0. /\ InPlace(S, e, k, v) /\ T \subseteq UpToIn(S, e, v) /\ Cardinality(T) = k - 1
      /\ BelowIn(S, e, v) \subseteq T \/ T \subseteq BelowIn(S, e, v)
  BY DEF Before
<1>1. PICK below, upto : below = BelowIn(S, e, v) /\ upto = UpToIn(S, e, v)
  OBVIOUS
<1>2. /\ upto \subseteq S /\ below \subseteq upto
      /\ \A x \in upto : x \in below \/ e[x] = v
  BY <1>1 DEF BelowIn, UpToIn, IntOn
<1>3. IsFiniteSet(upto) /\ IsFiniteSet(below)
  BY <1>2, FS_Subset
<1>4. /\ Cardinality(upto) \in Nat /\ Cardinality(below) \in Nat
      /\ Cardinality(below) < k /\ k <= Cardinality(upto)
  BY <1>0, <1>1, <1>3, FS_CardinalityType DEF InPlace
<1>5. T # upto
  BY <1>0, <1>4
<1>6. PICK y : y \in upto /\ y \notin T
  BY <1>0, <1>1, <1>5
<1>7. below \subseteq T
  <2>1. ASSUME T \subseteq below PROVE T = below
    <3>1. Cardinality(T) <= Cardinality(below) /\ (Cardinality(below) = Cardinality(T) => below = T)
      BY <1>3, <2>1, FS_Subset
    <3> QED
      BY <1>0, <1>4, <3>1
  <2> QED
    BY <1>0, <1>1, <2>1
<1>8. y \in S /\ e[y] = v
  BY <1>0, <1>2, <1>6, <1>7
<1>9. Filled(S, e, T \cup {y}, v)
  BY <1>0, <1>1, <1>6, <1>7 DEF Filled
<1> QED
  BY <1>6, <1>8, <1>9

(* Sorting keeps the sum.                                                  *)
LEMMA SumOfPlaces ==
  ASSUME NEW S, IsFiniteSet(S), NEW e, IntOn(e, S), NEW t \in Seq(Int), Ordered(t),
         Len(t) = Cardinality(S), \A k \in 1 .. Len(t) : InPlace(S, e, k, t[k])
  PROVE  Sum(t) = SumFunctionOnSet(e, S)
<1>1. PICK n : n = Len(t)
  OBVIOUS
<1>2. n \in Nat /\ n = Cardinality(S) /\ \A k \in 1 .. n : t[k] \in Int
  BY <1>1
<1>3. PICK u : Running(u, t, n) /\ Sum(t) = u[n]
  BY <1>1, SumRuns
<1> DEFINE Good(T, k) == /\ T \subseteq S /\ Cardinality(T) = k
                         /\ SumFunctionOnSet(e, T) = u[k]
                         /\ k > 0 => Filled(S, e, T, t[k])
           K == {k \in 0 .. n : \E T : Good(T, k)}
<1>4. 0 \in K
  <2>1. Cardinality({}) = 0 /\ SumFunctionOnSet(e, {}) = 0 /\ u[0] = 0
    BY <1>3, FS_EmptySet, SumEmpty DEF Running
  <2>2. Good({}, 0)
    BY <2>1
  <2> HIDE DEF Good
  <2> QED
    BY <1>2, <2>2
<1>5. ASSUME NEW k \in 1 .. n, k - 1 \in K PROVE k \in K
  <2>1. PICK T : Good(T, k - 1)
    BY <1>5
  <2>2. PICK v \in Int : v = t[k]
    BY <1>2
  <2>3. /\ k \in Nat \ {0} /\ k - 1 \in 0 .. n /\ k \in 0 .. n
        /\ u[k] = u[k - 1] + v /\ u[k - 1] \in Int
    BY SMTT(30), <1>2, <1>3, <2>2 DEF Running
  <2>4. IsFiniteSet(T) /\ IsFiniteSet({}) /\ T \subseteq S /\ Cardinality(T) = k - 1
    BY <2>1, FS_Subset, FS_EmptySet
  <2>5. InPlace(S, e, k, v)
    BY <1>1, <2>2
  <2>6. /\ T \subseteq UpToIn(S, e, v)
        /\ BelowIn(S, e, v) \subseteq T \/ T \subseteq BelowIn(S, e, v)
    <3>1. CASE k = 1
      <4>1. T = {}
        BY <2>1, <2>4, <3>1, FS_EmptySet
      <4> QED
        BY <4>1
    <3>2. CASE k # 1
      <4>1. k - 1 \in 1 .. n /\ k - 1 <= k
        BY <2>3, <3>2
      <4>2. PICK w \in Int : w = t[k - 1] /\ w <= v
        BY <1>1, <1>2, <2>2, <4>1 DEF Ordered
      <4>3. Filled(S, e, T, w)
        BY <2>1, <4>1, <4>2
      <4>4. UpToIn(S, e, w) \subseteq UpToIn(S, e, v)
        BY <4>2 DEF UpToIn, IntOn
      <4>5. w = v \/ UpToIn(S, e, w) \subseteq BelowIn(S, e, v)
        BY <4>2 DEF UpToIn, BelowIn, IntOn
      <4> QED
        BY <4>3, <4>4, <4>5 DEF Filled
    <3> QED
      BY <3>1, <3>2
  <2>7. PICK y \in S : y \notin T /\ e[y] = v /\ Filled(S, e, T \cup {y}, v)
    <3>1. Before(S, e, k, v, T)
      BY <2>4, <2>5, <2>6 DEF Before
    <3> QED
      BY <2>3, <3>1, FillNext
  <2>8. Cardinality(T \cup {y}) = k /\ T \cup {y} \subseteq S
    <3>1. Cardinality(T \cup {y}) = Cardinality(T) + 1
      BY <2>4, <2>7, FS_AddElement
    <3> QED
      BY <2>3, <2>4, <3>1
  <2>9. SumFunctionOnSet(e, T \cup {y}) = u[k]
    <3>1. IntOn(e, T \cup {y}) /\ Agree(e, e, T)
      BY <2>8 DEF IntOn, Agree
    <3>2. SumFunctionOnSet(e, T \cup {y}) = SumFunctionOnSet(e, T) + e[y]
      BY <2>4, <2>7, <3>1, SumAdd
    <3> QED
      BY <2>1, <2>3, <2>7, <3>2
  <2>10. Good(T \cup {y}, k)
    BY <2>2, <2>7, <2>8, <2>9
  <2> HIDE DEF Good
  <2> QED
    BY <2>3, <2>10
<1>6. n \in K
  <2> HIDE DEF K
  <2>1. \A k \in 0 .. n : k \in K
    BY <1>2, <1>4, <1>5, StepByStep
  <2> QED
    BY <1>2, <2>1
<1>7. PICK T : T \subseteq S /\ Cardinality(T) = n /\ SumFunctionOnSet(e, T) = u[n]
  BY <1>6
<1>8. T = S
  BY <1>2, <1>7, FS_Subset
<1> QED
  BY <1>3, <1>7, <1>8

LEMMA MeanOfSet ==
  ASSUME NEW s, NEW g, NEW S, NEW e, Lists(s, g, S, e), Len(s) > 0, Divisible(Len(s))
  PROVE  Compute(s).mean * Cardinality(S) = Scale * SumFunctionOnSet(e, S)
<1>1. PICK t : t = Sorted(s)
  OBVIOUS
<1>2. /\ s \in Seq(Int) /\ IsFiniteSet(S) /\ IntOn(e, S) /\ Len(s) = Cardinality(S)
      /\ s # <<>>
  BY DEF Lists
<1>3. t \in Seq(Int) /\ Len(t) = Len(s) /\ Ordered(t)
  BY <1>1, <1>2, SortedIsOrdered
<1>4. \A k \in 1 .. Len(t) : InPlace(S, e, k, t[k])
  <2> SUFFICES ASSUME NEW k \in 1 .. Len(t) PROVE InPlace(S, e, k, t[k])
    OBVIOUS
  <2>1. PICK v \in Int : v = t[k] /\ AtPlace(s, k, v)
    BY <1>1, <1>2, <1>3, SortedPlace
  <2>2. InPlace(S, e, k, v)
    BY <2>1, ListedCounts DEF AtPlace, InPlace
  <2> QED
    BY <2>1, <2>2
<1>5. Sum(t) = SumFunctionOnSet(e, S)
  BY <1>2, <1>3, <1>4, SumOfPlaces
<1>6. Welford(t).n = Len(t) /\ Welford(t).n * Welford(t).mean = Scale * Sum(t)
  BY <1>3, WelfordTwice
<1>7. Compute(s).mean = Welford(t).mean
  BY <1>1, <1>2 DEF Compute
<1>8. PICK n \in Nat : n = Len(t)
  BY <1>3
<1>9. Welford(t).mean \in Int
  <2>1. PICK w : Measures(w, t) /\ Welford(t) = w[Len(t)]
    BY <1>3, WelfordMeasures
  <2>2. Welford(t) \in [n : Nat, mean : Int, m2 : Int, min : Int, max : Int]
    <3>1. Len(t) \in 0 .. Len(t)
      BY <1>8
    <3>2. w \in [0 .. Len(t) -> [n : Nat, mean : Int, m2 : Int, min : Int, max : Int]]
      BY <2>1 DEF Measures
    <3> QED
      BY <2>1, <3>1, <3>2, Zenon
  <2> QED
    BY <2>2
<1>10. PICK m \in Int : m = Compute(s).mean
  BY <1>7, <1>9
<1>11. n * m = Scale * SumFunctionOnSet(e, S) /\ n = Cardinality(S)
  BY <1>2, <1>3, <1>5, <1>6, <1>7, <1>8, <1>10
<1>12. m * n = n * m
  OBVIOUS
<1> QED
  BY <1>10, <1>11, <1>12

(* No sample is outside of the first and the last of them in order.        *)
LEMMA SortedHolds ==
  ASSUME NEW s \in Seq(Int), NEW i \in 1 .. Len(s)
  PROVE  Sorted(s)[1] <= s[i] /\ s[i] <= Sorted(s)[Len(s)]
<1>1. PICK n : n = Len(s)
  OBVIOUS
<1>2. n \in Nat /\ 1 \in 1 .. n /\ n \in 1 .. n /\ DOMAIN s = 1 .. n /\ s[i] \in Int
  BY <1>1
<1>3. PICK low \in Int, high \in Int :
        /\ low = Sorted(s)[1] /\ high = Sorted(s)[n]
        /\ AtPlace(s, 1, low) /\ AtPlace(s, n, high)
  BY <1>1, <1>2, SortedPlace
<1>4. low <= s[i]
  <2>1. Cardinality(Below(s, low)) = 0 /\ IsFiniteSet(Below(s, low))
    <3>1. Cardinality(Below(s, low)) \in Nat /\ IsFiniteSet(Below(s, low))
      BY PlacesBelow
    <3>2. Cardinality(Below(s, low)) < 1
      BY <1>3 DEF AtPlace
    <3> QED
      BY <3>1, <3>2
  <2>2. i \notin Below(s, low)
    BY <2>1, FS_EmptySet
  <2> QED
    BY <1>1, <1>2, <2>2 DEF Below
<1>5. s[i] <= high
  <2>1. /\ n <= Cardinality(UpTo(s, high)) /\ Cardinality(UpTo(s, high)) <= n
        /\ IsFiniteSet(DOMAIN s) /\ Cardinality(DOMAIN s) = n /\ UpTo(s, high) \subseteq DOMAIN s
        /\ Cardinality(UpTo(s, high)) \in Nat
    BY <1>1, <1>3, PlacesBelow DEF AtPlace
  <2>2. DOMAIN s = UpTo(s, high)
    BY <1>2, <2>1, FS_Subset
  <2>3. i \in UpTo(s, high)
    BY <1>1, <1>2, <2>2
  <2> QED
    BY <2>3 DEF UpTo
<1> QED
  BY <1>1, <1>3, <1>4, <1>5

LEMMA SetIsListed ==
  ASSUME NEW S, IsFiniteSet(S)
  PROVE  /\ SetToSeq(S) \in [1 .. Cardinality(S) -> S]
         /\ \A i, k \in 1 .. Cardinality(S) : SetToSeq(S)[i] = SetToSeq(S)[k] => i = k
<1>1. PICK n : n = Cardinality(S)
  OBVIOUS
<1>2. \E f \in [1 .. n -> S] : IsInjective(f)
  <2>1. ExistsBijection(1 .. n, S)
    BY <1>1, FS_CardinalityType
  <2> QED
    BY <2>1 DEF ExistsBijection, Bijection, Injection
<1>3. SetToSeq(S) = CHOOSE f \in [1 .. n -> S] : IsInjective(f)
  BY <1>1 DEF SetToSeq
<1>4. SetToSeq(S) \in [1 .. n -> S] /\ IsInjective(SetToSeq(S))
  BY Zenon, <1>2, <1>3
<1> QED
  BY <1>1, <1>4 DEF IsInjective

-----------------------------------------------------------------------------
(* The invariant of the processor                                          *)

USE ProcessorAssumption

Rng == [row : Nat \ {0}, us : Int]

(* What is tracked is what was seen, and no id is above the highest.       *)
OrderInv ==
  /\ firstPacket => seen = {} /\ totalGap = 0 /\ outOfOrder = 0 /\ duplicates = 0
  /\ ~firstPacket => lastSeq \in seen /\ firstSeq \in seen /\ firstSeq <= lastSeq
  /\ \A s \in seen : s <= lastSeq

RowsInv == \A k \in DOMAIN rows : IsDecoded(k) => rows[k].packet.seq \in seen

IInv == TypeOK /\ OrderInv /\ RowsInv

NewRow(p, late, repeat, gap, e2e, jitter) ==
  [packet |-> p, late |-> late, repeat |-> repeat,
   gap |-> gap, e2e |-> e2e, jitter |-> jitter]

-----------------------------------------------------------------------------
(* Rows                                                                    *)

LEMMA GapType == ASSUME TypeOK, NEW s \in Ids PROVE Gap(s) \in Nat
BY DEF TypeOK, Gap, Ids

(* A step appends one row and changes none.                                *)
LEMMA RowAppended ==
  ASSUME TypeOK, NEW r \in Row, rows' = Append(rows, r)
  PROVE  /\ rows' \in Seq(Row)
         /\ Len(rows) \in Nat /\ Len(rows) + 1 \notin DOMAIN rows
         /\ DOMAIN rows' = DOMAIN rows \cup {Len(rows) + 1}
         /\ \A k \in DOMAIN rows : rows'[k] = rows[k]
         /\ rows'[Len(rows) + 1] = r
<1>1. rows \in Seq(Row) /\ Len(rows) \in Nat /\ DOMAIN rows = 1 .. Len(rows)
  BY LenProperties DEF TypeOK
<1>2. /\ rows' \in Seq(Row) /\ Len(rows') = Len(rows) + 1
      /\ \A k \in 1 .. Len(rows) : rows'[k] = rows[k]
      /\ rows'[Len(rows) + 1] = r
  BY <1>1, AppendProperties
<1>3. DOMAIN rows' = 1 .. Len(rows) + 1
  BY <1>2, LenProperties
<1> QED
  BY <1>1, <1>2, <1>3

(* The reservoir takes the new value in at most one place.                 *)
PutsOne(v) ==
  /\ Len(reservoir') = IF Len(reservoir) < ReservoirCap
                       THEN Len(reservoir) + 1 ELSE Len(reservoir)
  /\ \E n \in Nat : \A i \in DOMAIN reservoir' :
       IF i = n THEN reservoir'[i] = Sample(v)
       ELSE i \in DOMAIN reservoir /\ reservoir'[i] = reservoir[i]

LEMMA PutOne ==
  ASSUME TypeOK, NEW v \in Int, Put(v), reservoirCount' \in Nat
  PROVE  /\ reservoir' \in Seq(Rng)
         /\ PutsOne(v)
<1>1. reservoir \in Seq(Rng) /\ Len(reservoir) \in Nat /\ Len(reservoir) <= ReservoirCap
      /\ DOMAIN reservoir = 1 .. Len(reservoir)
  BY LenProperties DEF TypeOK, Rng
<1>2. Sample(v) \in Rng
  <2>1. Len(rows) \in Nat
    BY LenProperties DEF TypeOK
  <2> QED
    BY <2>1 DEF Sample, Rng
<1>3. CASE Len(reservoir) < ReservoirCap
  <2>1. reservoir' = Append(reservoir, Sample(v))
    BY <1>3 DEF Put
  <2>2. /\ reservoir' \in Seq(Rng) /\ Len(reservoir') = Len(reservoir) + 1
        /\ \A i \in 1 .. Len(reservoir) : reservoir'[i] = reservoir[i]
        /\ reservoir'[Len(reservoir) + 1] = Sample(v)
    BY <1>1, <1>2, <2>1, AppendProperties
  <2>3. DOMAIN reservoir' = 1 .. Len(reservoir) + 1
    BY <2>2, LenProperties
  <2>4. \A i \in DOMAIN reservoir' :
          IF i = Len(reservoir) + 1 THEN reservoir'[i] = Sample(v)
          ELSE i \in DOMAIN reservoir /\ reservoir'[i] = reservoir[i]
    BY <1>1, <2>2, <2>3
  <2>5. Len(reservoir) + 1 \in Nat
    BY <1>1
  <2> QED
    BY <1>3, <1>1, <2>2, <2>4, <2>5 DEF PutsOne
<1>4. CASE ~(Len(reservoir) < ReservoirCap)
  <2>1. PICK j \in 1 .. reservoirCount' :
          reservoir' = IF j <= ReservoirCap
                       THEN [reservoir EXCEPT ![j] = Sample(v)] ELSE reservoir
    BY <1>4 DEF Put
  <2>2. CASE j <= ReservoirCap
    <3>1. j \in 1 .. Len(reservoir) /\ reservoir' = [reservoir EXCEPT ![j] = Sample(v)]
      BY <1>1, <1>4, <2>1, <2>2
    <3>2. /\ reservoir' \in Seq(Rng) /\ Len(reservoir') = Len(reservoir)
          /\ \A i \in 1 .. Len(reservoir) :
               reservoir'[i] = IF i = j THEN Sample(v) ELSE reservoir[i]
      BY <1>1, <1>2, <3>1, ExceptSeq
    <3>3. DOMAIN reservoir' = 1 .. Len(reservoir)
      BY <3>2, LenProperties
    <3>4. j \in Nat
      BY <2>1
    <3>5. \A i \in DOMAIN reservoir' :
            IF i = j THEN reservoir'[i] = Sample(v)
            ELSE i \in DOMAIN reservoir /\ reservoir'[i] = reservoir[i]
      BY <1>1, <3>2, <3>3
    <3> QED
      BY <1>4, <1>1, <3>2, <3>4, <3>5 DEF PutsOne
  <2>3. CASE ~(j <= ReservoirCap)
    <3>1. reservoir' = reservoir /\ 0 \in Nat /\ 0 \notin DOMAIN reservoir
      BY <1>1, <2>1, <2>3
    <3> QED
      BY <1>1, <1>4, <3>1 DEF PutsOne
  <2> QED
    BY <2>2, <2>3
<1> QED
  BY <1>3, <1>4

LEMMA MeasureType ==
  ASSUME TypeOK, NEW p \in Packets, NEW e \in Int, NEW j \in Nat, Measure(p, e, j)
  PROVE  /\ acc' \in [n : Nat, e2e : Int, jitter : Nat]
         /\ reservoir' \in Seq(Rng) /\ Len(reservoir') <= ReservoirCap
         /\ reservoirCount' \in Nat
<1>1. CASE IsWarmup(p)
  BY <1>1 DEF Measure, statVars, TypeOK, Rng
<1>2. CASE ~IsWarmup(p)
  <2>1. /\ acc' = [n |-> acc.n + 1, e2e |-> acc.e2e + e, jitter |-> acc.jitter + j]
        /\ reservoirCount' = reservoirCount + 1 /\ Put(e)
    BY <1>2 DEF Measure
  <2>2. acc' \in [n : Nat, e2e : Int, jitter : Nat] /\ reservoirCount' \in Nat
    BY <2>1 DEF TypeOK
  <2>3. Len(reservoir) \in Nat /\ Len(reservoir) <= ReservoirCap
    BY LenProperties DEF TypeOK
  <2>4. reservoir' \in Seq(Rng) /\ Len(reservoir') <= ReservoirCap
    BY <2>1, <2>2, <2>3, PutOne DEF PutsOne
  <2> QED
    BY <2>2, <2>4
<1> QED
  BY <1>1, <1>2

LEMMA JitterType ==
  ASSUME TypeOK, NEW p \in Packets
  PROVE  JitterOf(p) \in Nat /\ Baseline(p) \in Int /\ p.delay \in Int /\ p.seq \in Ids
<1>1. p.delay \in Int /\ p.seq \in Ids /\ lastDelay \in Int
  BY DEF TypeOK, Packets
<1>2. Abs(p.delay - lastDelay) \in Nat
  BY <1>1 DEF Abs
<1> QED
  BY <1>1, <1>2 DEF JitterOf, Baseline

LEMMA TrackType ==
  ASSUME TypeOK, NEW s \in Ids, Track(s)
  PROVE  /\ outOfOrder' \in Nat /\ duplicates' \in Nat /\ totalGap' \in Nat
         /\ firstPacket' \in BOOLEAN /\ lastSeq' \in Ids /\ firstSeq' \in Ids
         /\ seen' \subseteq Ids
<1>1. Gap(s) \in Nat /\ One(Late(s)) \in Nat /\ One(Repeat(s)) \in Nat
  BY GapType DEF One
<1>2. outOfOrder \in Nat /\ duplicates \in Nat /\ totalGap \in Nat
  BY DEF TypeOK
<1>3. /\ outOfOrder' = outOfOrder + One(Late(s))
      /\ duplicates' = duplicates + One(Repeat(s))
      /\ totalGap' = totalGap + Gap(s)
  BY DEF Track, Note
<1>4. outOfOrder' \in Nat /\ duplicates' \in Nat /\ totalGap' \in Nat
  BY <1>1, <1>2, <1>3
<1> QED
  BY <1>4 DEF Track, Note, TypeOK

(* What every step does to the rows, and of which packet the new row is.   *)
LEMMA ProcessRow ==
  ASSUME TypeOK, NEW p \in Packets, Process(p)
  PROVE  \E r \in Row : /\ rows' = Append(rows, r) /\ r.packet = p
                        /\ received' = received + 1
                        /\ p.fate = "decoded" =>
                             r.late = Late(p.seq) /\ r.repeat = Repeat(p.seq)
<1>1. p.fate \in Fates /\ p.seq \in Ids /\ p.delay \in Int /\ JitterOf(p) \in Nat
  BY JitterType DEF Packets
<1>2. CASE Corrupt(p) \/ Undecodable(p)
  <2>1. NewRow(p, FALSE, FALSE, 0, 0, 0) \in Row
    BY DEF NewRow, Row
  <2>2. rows' = Append(rows, NewRow(p, FALSE, FALSE, 0, 0, 0)) /\ received' = received + 1
        /\ p.fate # "decoded"
    BY <1>2 DEF Corrupt, Undecodable, WriteRow, NewRow
  <2> QED
    BY <2>1, <2>2 DEF NewRow
<1>3. CASE Decoded(p)
  <2>1. NewRow(p, Late(p.seq), Repeat(p.seq), Gap(p.seq), p.delay, JitterOf(p)) \in Row
    <3>1. Late(p.seq) \in BOOLEAN /\ Repeat(p.seq) \in BOOLEAN /\ Gap(p.seq) \in Nat
      BY <1>1, GapType DEF Late, Repeat
    <3> QED
      BY <1>1, <3>1 DEF NewRow, Row
  <2>2. rows' = Append(rows, NewRow(p, Late(p.seq), Repeat(p.seq), Gap(p.seq), p.delay, JitterOf(p)))
        /\ received' = received + 1
    BY <1>3 DEF Decoded, WriteRow, NewRow
  <2> QED
    BY <2>1, <2>2 DEF NewRow
<1> QED
  BY <1>2, <1>3 DEF Process

LEMMA TypeStep == ASSUME TypeOK, NEW p \in Packets, Process(p) PROVE TypeOK'
<1>1. rows' \in Seq(Row) /\ received' \in Nat
  <2>1. PICK r \in Row : rows' = Append(rows, r) /\ received' = received + 1
    BY ProcessRow
  <2> QED
    BY SMTT(30), <2>1, RowAppended DEF TypeOK
<1>2. p.seq \in Ids /\ p.delay \in Int /\ JitterOf(p) \in Nat /\ Baseline(p) \in Int
  BY JitterType
<1>3. CASE Corrupt(p)
  BY <1>1, <1>3 DEF Corrupt, TypeOK, orderVars, statVars
<1>4. CASE Undecodable(p)
  <2>1. Measure(p, 0, 0) /\ UNCHANGED <<lastDelay, crcErrors, orderVars>>
    BY <1>4 DEF Undecodable
  <2>2. /\ acc' \in [n : Nat, e2e : Int, jitter : Nat]
        /\ reservoir' \in Seq(Rng) /\ Len(reservoir') <= ReservoirCap
        /\ reservoirCount' \in Nat
    BY <2>1, MeasureType
  <2> QED
    BY <1>1, <2>1, <2>2 DEF TypeOK, orderVars, Rng
<1>5. CASE Decoded(p)
  <2>1. /\ Measure(p, p.delay, JitterOf(p)) /\ Track(p.seq)
        /\ lastDelay' = Baseline(p) /\ UNCHANGED crcErrors
    BY <1>5 DEF Decoded
  <2>2. /\ acc' \in [n : Nat, e2e : Int, jitter : Nat]
        /\ reservoir' \in Seq(Rng) /\ Len(reservoir') <= ReservoirCap
        /\ reservoirCount' \in Nat
    BY <1>2, <2>1, MeasureType
  <2>3. /\ outOfOrder' \in Nat /\ duplicates' \in Nat /\ totalGap' \in Nat
        /\ firstPacket' \in BOOLEAN /\ lastSeq' \in Ids /\ firstSeq' \in Ids
        /\ seen' \subseteq Ids
    BY <1>2, <2>1, TrackType
  <2> QED
    BY <1>1, <1>2, <2>1, <2>2, <2>3 DEF TypeOK, Rng
<1> QED
  BY <1>3, <1>4, <1>5 DEF Process

-----------------------------------------------------------------------------
(* Sequence tracking                                                       *)

(* The four cases of a tracked id.                                         *)
LEMMA TrackCases ==
  ASSUME IInv, NEW s \in Ids, Track(s)
  PROVE  /\ firstPacket' = FALSE /\ seen' = seen \cup {s}
         /\ firstPacket =>
              /\ lastSeq' = s /\ firstSeq' = s
              /\ totalGap' = 0 /\ outOfOrder' = 0 /\ duplicates' = 0
         /\ ~firstPacket => firstSeq' = firstSeq
         /\ ~firstPacket /\ s < lastSeq =>
              /\ lastSeq' = lastSeq /\ totalGap' = totalGap
              /\ outOfOrder' = outOfOrder + 1 /\ duplicates' = duplicates
         /\ ~firstPacket /\ s = lastSeq =>
              /\ lastSeq' = lastSeq /\ totalGap' = totalGap
              /\ outOfOrder' = outOfOrder /\ duplicates' = duplicates + 1
         /\ ~firstPacket /\ s > lastSeq =>
              /\ lastSeq' = s /\ totalGap' = totalGap + (s - lastSeq - 1)
              /\ outOfOrder' = outOfOrder /\ duplicates' = duplicates
<1>1. lastSeq \in Nat /\ s \in Nat /\ totalGap \in Nat /\ outOfOrder \in Nat /\ duplicates \in Nat
      /\ firstPacket \in BOOLEAN
  BY DEF IInv, TypeOK, Ids
<1>2. /\ firstPacket' = FALSE /\ seen' = seen \cup {s}
      /\ outOfOrder' = outOfOrder + One(Late(s))
      /\ duplicates' = duplicates + One(Repeat(s))
      /\ totalGap' = totalGap + Gap(s)
      /\ firstSeq' = IF firstPacket THEN s ELSE firstSeq
      /\ lastSeq' = IF firstPacket \/ s > lastSeq THEN s ELSE lastSeq
  BY DEF Track, Note
<1>3. CASE firstPacket
  <2>1. One(Late(s)) = 0 /\ One(Repeat(s)) = 0 /\ Gap(s) = 0
    BY <1>3 DEF Late, Repeat, Gap, One
  <2>2. totalGap = 0 /\ outOfOrder = 0 /\ duplicates = 0
    BY <1>3 DEF IInv, OrderInv
  <2> QED
    BY <1>2, <1>3, <2>1, <2>2
<1>4. CASE ~firstPacket /\ s < lastSeq
  <2>0. Late(s) /\ ~Repeat(s) /\ Gap(s) = 0
    BY <1>1, <1>4 DEF Late, Repeat, Gap
  <2>1. One(Late(s)) = 1 /\ One(Repeat(s)) = 0 /\ Gap(s) = 0
    BY <2>0 DEF One
  <2> QED
    BY <1>1, <1>2, <1>4, <2>1
<1>5. CASE ~firstPacket /\ s = lastSeq
  <2>0. ~Late(s) /\ Repeat(s) /\ Gap(s) = 0
    BY <1>1, <1>5 DEF Late, Repeat, Gap
  <2>1. One(Late(s)) = 0 /\ One(Repeat(s)) = 1 /\ Gap(s) = 0
    BY <2>0 DEF One
  <2> QED
    BY <1>1, <1>2, <1>5, <2>1
<1>6. CASE ~firstPacket /\ s > lastSeq
  <2>1. One(Late(s)) = 0 /\ One(Repeat(s)) = 0
        /\ Gap(s) = s - lastSeq - 1
    BY <1>1, <1>6 DEF Late, Repeat, Gap, One
  <2> QED
    BY <1>1, <1>2, <1>6, <2>1
<1> QED
  BY <1>1, <1>2, <1>3, <1>4, <1>5, <1>6

LEMMA OrderStep == ASSUME IInv, NEW p \in Packets, Process(p) PROVE OrderInv'
<1>1. CASE Corrupt(p) \/ Undecodable(p)
  <2>1. UNCHANGED <<firstPacket, lastSeq, outOfOrder, duplicates, totalGap, firstSeq, seen>>
    BY <1>1 DEF Corrupt, Undecodable, orderVars
  <2> QED
    BY <2>1 DEF IInv, OrderInv
<1>2. CASE Decoded(p)
  <2>1. p.seq \in Ids /\ Track(p.seq)
    BY <1>2 DEF Decoded, Packets
  <2>2. seen \subseteq Nat /\ p.seq \in Nat /\ lastSeq \in Nat /\ firstSeq \in Nat
    BY <2>1 DEF IInv, TypeOK, Ids
  <2>3. firstPacket' = FALSE /\ seen' = seen \cup {p.seq}
    BY <2>1, TrackCases
  <2>4. /\ firstPacket => lastSeq' = p.seq /\ firstSeq' = p.seq
        /\ ~firstPacket => firstSeq' = firstSeq
        /\ ~firstPacket /\ p.seq < lastSeq => lastSeq' = lastSeq
        /\ ~firstPacket /\ p.seq = lastSeq => lastSeq' = lastSeq
        /\ ~firstPacket /\ p.seq > lastSeq => lastSeq' = p.seq
    BY <2>1, TrackCases
  <2>5. (firstPacket => seen = {}) /\ (\A s \in seen : s <= lastSeq)
        /\ (~firstPacket => lastSeq \in seen /\ firstSeq \in seen /\ firstSeq <= lastSeq)
    BY DEF IInv, OrderInv
  <2>6. /\ lastSeq' \in seen' /\ firstSeq' \in seen' /\ firstSeq' <= lastSeq'
        /\ \A s \in seen' : s <= lastSeq'
    BY <2>2, <2>3, <2>4, <2>5
  <2> QED
    BY <2>3, <2>6 DEF OrderInv
<1> QED
  BY <1>1, <1>2 DEF Process

LEMMA RowsStep == ASSUME IInv, NEW p \in Packets, Process(p) PROVE RowsInv'
<1>1. PICK r \in Row : rows' = Append(rows, r) /\ r.packet = p
  BY ProcessRow DEF IInv
<1>2. /\ DOMAIN rows' = DOMAIN rows \cup {Len(rows) + 1}
      /\ \A k \in DOMAIN rows : rows'[k] = rows[k]
      /\ rows'[Len(rows) + 1] = r
  BY <1>1, RowAppended DEF IInv
<1>3. seen \subseteq seen' /\ (p.fate = "decoded" => p.seq \in seen')
  <2>1. CASE Corrupt(p) \/ Undecodable(p)
    BY <2>1 DEF Corrupt, Undecodable, orderVars
  <2>2. CASE Decoded(p)
    BY <2>2 DEF Decoded, Track, Note
  <2> QED
    BY <2>1, <2>2 DEF Process
<1> QED
  BY <1>1, <1>2, <1>3 DEF IInv, RowsInv, IsDecoded

LEMMA IInvInit == Init => IInv
<1> SUFFICES ASSUME Init PROVE IInv
  OBVIOUS
<1>1. 0 \in Ids
  BY DEF Ids
<1>2. <<>> \in Seq(Row) /\ <<>> \in Seq(Rng) /\ Len(<<>>) = 0
  BY EmptySeq
<1>3. TypeOK
  BY <1>1, <1>2 DEF Init, TypeOK, Rng
<1> QED
  BY <1>3 DEF Init, IInv, OrderInv, RowsInv

LEMMA IInvStep == IInv /\ [Next]_vars => IInv'
<1> SUFFICES ASSUME IInv, [Next]_vars PROVE IInv'
  OBVIOUS
<1>1. CASE UNCHANGED vars
  BY <1>1 DEF vars, orderVars, statVars, IInv, TypeOK, OrderInv, RowsInv, IsDecoded
<1>2. ASSUME NEW p \in Packets, Process(p) PROVE IInv'
  BY <1>2, TypeStep, OrderStep, RowsStep DEF IInv
<1> QED
  BY <1>1, <1>2 DEF Next

LEMMA IInvAlways == Spec => []IInv
BY IInvInit, IInvStep, PTL DEF Spec

-----------------------------------------------------------------------------
(* Repeated ids                                                            *)

LEMMA RepeatsStep ==
  ASSUME IInv, RepeatsAreFlagged, NEW p \in Packets, Process(p)
  PROVE  RepeatsAreFlagged'
<1>1. PICK r \in Row : /\ rows' = Append(rows, r) /\ r.packet = p
                       /\ p.fate = "decoded" => r.late = Late(p.seq) /\ r.repeat = Repeat(p.seq)
  BY ProcessRow DEF IInv
<1>2. /\ DOMAIN rows = 1 .. Len(rows) /\ Len(rows) \in Nat
      /\ DOMAIN rows' = DOMAIN rows \cup {Len(rows) + 1}
      /\ \A k \in DOMAIN rows : rows'[k] = rows[k]
      /\ rows'[Len(rows) + 1] = r
  BY <1>1, RowAppended, LenProperties DEF IInv, TypeOK
<1> SUFFICES ASSUME NEW i \in DOMAIN rows', NEW k \in DOMAIN rows', i < k,
                    IsDecoded(i)', IsDecoded(k)', rows'[i].packet.seq = rows'[k].packet.seq
             PROVE  rows'[k].late \/ rows'[k].repeat
  BY DEF RepeatsAreFlagged
<1>3. i \in DOMAIN rows /\ rows'[i] = rows[i] /\ IsDecoded(i)
  BY <1>2 DEF IsDecoded
<1>4. CASE k \in DOMAIN rows
  BY <1>2, <1>3, <1>4 DEF RepeatsAreFlagged, IsDecoded
<1>5. CASE k = Len(rows) + 1
  <2>1. p.fate = "decoded" /\ p.seq = rows[i].packet.seq /\ rows'[k] = r
    BY <1>1, <1>2, <1>3, <1>5 DEF IsDecoded
  <2>2. p.seq \in seen
    BY <1>3, <2>1 DEF IInv, RowsInv
  <2>3. ~firstPacket /\ p.seq <= lastSeq
    BY <2>2 DEF IInv, OrderInv
  <2>s. p.seq \in Nat /\ lastSeq \in Nat
    BY DEF IInv, TypeOK, Ids, Packets
  <2>4. Late(p.seq) \/ Repeat(p.seq)
    BY <2>3, <2>s DEF Late, Repeat
  <2> QED
    BY <1>1, <2>1, <2>4
<1> QED
  BY <1>2, <1>4, <1>5

-----------------------------------------------------------------------------
(* Gaps                                                                    *)

LEMMA MissingFinite ==
  ASSUME TypeOK
  PROVE  IsFiniteSet(Missing) /\ Cardinality(Missing) \in Nat
<1>1. IsFiniteSet(Ids)
  <2>1. 0 \in Int /\ MaxId \in Int
    OBVIOUS
  <2> QED
    BY <2>1, FS_Interval DEF Ids
<1>2. Missing \in SUBSET Ids
  BY DEF Missing
<1>3. IsFiniteSet(Missing)
  BY <1>1, <1>2, FS_Subset
<1> QED
  BY <1>3, FS_CardinalityType

(* The ids a step forward jumps over become missing, a late one is found.  *)
LEMMA MissingStep ==
  ASSUME IInv, NEW s \in Ids, Track(s)
  PROVE  /\ firstPacket => Missing' = {}
         /\ ~firstPacket /\ s < lastSeq => Missing' = Missing \ {s}
         /\ ~firstPacket /\ s = lastSeq => Missing' = Missing
         /\ ~firstPacket /\ s > lastSeq =>
              /\ Missing' = Missing \cup (lastSeq + 1 .. s - 1)
              /\ Missing \cap (lastSeq + 1 .. s - 1) = {}
<1>1. Ids \subseteq Nat /\ Ids \subseteq Int /\ seen \subseteq Ids /\ s \in Ids
      /\ lastSeq \in Ids /\ firstSeq \in Ids
      /\ \A a \in Ids, b \in Nat : b <= a => b \in Ids
  BY DEF IInv, TypeOK, Ids
<1>2. /\ ~firstPacket => lastSeq \in seen /\ firstSeq <= lastSeq
      /\ firstPacket => seen = {}
      /\ \A x \in seen : x <= lastSeq
  BY DEF IInv, OrderInv
<1>3. seen' = seen \cup {s}
  BY TrackCases
<1>4. CASE firstPacket
  <2>1. firstSeq' = s /\ lastSeq' = s
    BY <1>4, TrackCases
  <2>2. \A x \in Ids : s <= x /\ x <= s => x \in seen'
    BY <1>1, <1>3
  <2>3. Missing' = {}
    BY <2>1, <2>2 DEF Missing
  <2> QED
    BY <1>4, <2>3
<1>5. CASE ~firstPacket /\ s < lastSeq
  <2>1. firstSeq' = firstSeq /\ lastSeq' = lastSeq
    BY <1>1, <1>5, TrackCases
  <2>2. Missing' = Missing \ {s}
    BY <1>3, <2>1 DEF Missing
  <2> QED
    BY <1>1, <1>5, <2>2
<1>6. CASE ~firstPacket /\ s = lastSeq
  <2>1. firstSeq' = firstSeq /\ lastSeq' = lastSeq
    BY <1>1, <1>6, TrackCases
  <2>2. seen' = seen
    BY <1>2, <1>3, <1>6
  <2>3. Missing' = Missing
    BY <2>1, <2>2 DEF Missing
  <2> QED
    BY <1>1, <1>6, <2>3
<1>7. CASE ~firstPacket /\ s > lastSeq
  <2>1. firstSeq' = firstSeq /\ lastSeq' = s
    BY <1>1, <1>7, TrackCases
  <2>2. lastSeq + 1 .. s - 1 \subseteq Ids
    BY <1>1
  <2>3. \A x \in Ids : x \in Missing' <=> x \in Missing \/ x \in lastSeq + 1 .. s - 1
    BY <1>1, <1>2, <1>3, <1>7, <2>1 DEF Missing
  <2>4. Missing' \subseteq Ids /\ Missing \subseteq Ids
    BY DEF Missing
  <2>5. Missing' = Missing \cup (lastSeq + 1 .. s - 1)
    BY <2>2, <2>3, <2>4
  <2>6. Missing \cap (lastSeq + 1 .. s - 1) = {}
    BY <1>1 DEF Missing
  <2> QED
    BY <1>1, <1>7, <2>5, <2>6
<1> QED
  BY <1>1, <1>4, <1>5, <1>6, <1>7

LEMMA CoverStep ==
  ASSUME IInv, GapsCoverMissing, NEW p \in Packets, Process(p)
  PROVE  GapsCoverMissing'
<1>1. CASE Corrupt(p) \/ Undecodable(p)
  <2>1. UNCHANGED <<firstPacket, lastSeq, outOfOrder, duplicates, totalGap, firstSeq, seen>>
    BY <1>1 DEF Corrupt, Undecodable, orderVars
  <2>2. Missing' = Missing
    BY <2>1 DEF Missing
  <2> QED
    BY <2>1, <2>2 DEF GapsCoverMissing
<1>2. CASE Decoded(p)
  <2> DEFINE s == p.seq
  <2>1. s \in Ids /\ Track(s) /\ s \in Nat /\ lastSeq \in Nat /\ totalGap \in Nat /\ outOfOrder \in Nat
    BY <1>2 DEF Decoded, Packets, IInv, TypeOK, Ids
  <2>2. IsFiniteSet(Missing) /\ Cardinality(Missing) \in Nat
    BY MissingFinite DEF IInv
  <2>3. ~firstPacket => Cardinality(Missing) <= totalGap
                        /\ totalGap <= Cardinality(Missing) + outOfOrder
    BY DEF GapsCoverMissing
  <2> HIDE DEF s
  <2>4. CASE firstPacket
    <3>1. Cardinality(Missing') = 0 /\ totalGap' = 0 /\ outOfOrder' = 0
      BY <2>1, <2>4, MissingStep, TrackCases, FS_EmptySet
    <3> QED
      BY <3>1 DEF GapsCoverMissing
  <2>5. CASE ~firstPacket /\ s < lastSeq
    <3>1. totalGap' = totalGap /\ outOfOrder' = outOfOrder + 1
      BY <2>1, <2>5, TrackCases
    <3>2. Missing' = Missing \ {s}
      BY <2>1, <2>5, MissingStep
    <3>3. Cardinality(Missing') = IF s \in Missing THEN Cardinality(Missing) - 1
                                  ELSE Cardinality(Missing)
      BY <2>2, <3>2, FS_RemoveElement
    <3> QED
      BY <2>1, <2>2, <2>3, <2>5, <3>1, <3>3 DEF GapsCoverMissing
  <2>6. CASE ~firstPacket /\ s = lastSeq
    <3>1. totalGap' = totalGap /\ outOfOrder' = outOfOrder /\ Missing' = Missing
      BY <2>1, <2>6, TrackCases, MissingStep
    <3> QED
      BY <2>3, <2>6, <3>1 DEF GapsCoverMissing
  <2>7. CASE ~firstPacket /\ s > lastSeq
    <3> DEFINE New == lastSeq + 1 .. s - 1
    <3>1. totalGap' = totalGap + (s - lastSeq - 1) /\ outOfOrder' = outOfOrder
      BY <2>1, <2>7, TrackCases
    <3>2. Missing' = Missing \cup New /\ Missing \cap New = {}
      BY <2>1, <2>7, MissingStep
    <3>3. IsFiniteSet(New) /\ Cardinality(New) = s - lastSeq - 1
      <4>1. lastSeq + 1 \in Int /\ s - 1 \in Int
        BY <2>1
      <4>2. IsFiniteSet(New) /\ Cardinality(New) =
              IF lastSeq + 1 > s - 1 THEN 0 ELSE (s - 1) - (lastSeq + 1) + 1
        BY <4>1, FS_Interval
      <4> QED
        BY <2>1, <2>7, <4>2
    <3> HIDE DEF New
    <3>4. Cardinality(Missing') = Cardinality(Missing) + Cardinality(New) - Cardinality(Missing \cap New)
      BY <2>2, <3>2, <3>3, FS_Union
    <3>5. Cardinality(Missing \cap New) = 0
      BY <3>2, FS_EmptySet
    <3> QED
      BY <2>1, <2>2, <2>3, <2>7, <3>1, <3>3, <3>4, <3>5 DEF GapsCoverMissing
  <2> QED
    BY <2>1, <2>4, <2>5, <2>6, <2>7
<1> QED
  BY <1>1, <1>2 DEF Process

DecodedRows == {k \in DOMAIN rows : IsDecoded(k)}

LEMMA BalanceStep ==
  ASSUME IInv, GapsBalance, NEW p \in Packets, Process(p)
  PROVE  GapsBalance'
<1>1. PICK r \in Row : rows' = Append(rows, r) /\ r.packet = p
  BY ProcessRow DEF IInv
<1>2. /\ DOMAIN rows = 1 .. Len(rows) /\ Len(rows) \in Nat
      /\ Len(rows) + 1 \notin DOMAIN rows
      /\ DOMAIN rows' = DOMAIN rows \cup {Len(rows) + 1}
      /\ \A k \in DOMAIN rows : rows'[k] = rows[k]
      /\ rows'[Len(rows) + 1] = r
  BY <1>1, RowAppended, LenProperties DEF IInv, TypeOK
<1>3. IsFiniteSet(DecodedRows) /\ Cardinality(DecodedRows) \in Nat
  <2>1. IsFiniteSet(1 .. Len(rows))
    BY Zenon, <1>2, FirstFinite
  <2>2. DecodedRows \in SUBSET (1 .. Len(rows))
    BY <1>2 DEF DecodedRows
  <2> QED
    BY <2>1, <2>2, FS_Subset, FS_CardinalityType
<1>4. ~firstPacket =>
        lastSeq - firstSeq = totalGap + (Cardinality(DecodedRows) - 1 - outOfOrder - duplicates)
  BY DEF GapsBalance, DecodedRows
<1>5. CASE Corrupt(p) \/ Undecodable(p)
  <2>1. UNCHANGED <<firstPacket, lastSeq, outOfOrder, duplicates, totalGap, firstSeq>>
    BY <1>5 DEF Corrupt, Undecodable, orderVars
  <2>2. p.fate # "decoded"
    BY <1>5 DEF Corrupt, Undecodable
  <2>3. DecodedRows' = DecodedRows
    BY <1>1, <1>2, <2>2 DEF DecodedRows, IsDecoded
  <2> QED
    BY <1>4, <2>1, <2>3 DEF GapsBalance, DecodedRows
<1>6. CASE Decoded(p)
  <2> DEFINE s == p.seq
  <2>1. /\ s \in Ids /\ Track(s) /\ s \in Nat /\ lastSeq \in Nat /\ firstSeq \in Nat
        /\ totalGap \in Nat /\ outOfOrder \in Nat /\ duplicates \in Nat
    BY <1>6 DEF Decoded, Packets, IInv, TypeOK, Ids
  <2>2. p.fate = "decoded"
    BY <1>6 DEF Decoded
  <2>3. DecodedRows' = DecodedRows \cup {Len(rows) + 1} /\ Len(rows) + 1 \notin DecodedRows
    BY <1>1, <1>2, <2>2 DEF DecodedRows, IsDecoded
  <2>4. Cardinality(DecodedRows') = Cardinality(DecodedRows) + 1
    BY <1>3, <2>3, FS_AddElement
  <2> SUFFICES lastSeq' - firstSeq'
                 = totalGap' + (Cardinality(DecodedRows') - 1 - outOfOrder' - duplicates')
    BY DEF GapsBalance, DecodedRows
  <2> HIDE DEF s
  <2>5. CASE firstPacket
    <3>1. DecodedRows = {}
      BY <2>5 DEF DecodedRows, IInv, RowsInv, OrderInv
    <3>2. Cardinality(DecodedRows) = 0
      BY <3>1, FS_EmptySet
    <3>3. lastSeq' = s /\ firstSeq' = s /\ totalGap' = 0 /\ outOfOrder' = 0 /\ duplicates' = 0
      BY <2>1, <2>5, TrackCases
    <3> QED
      BY <2>1, <2>4, <3>2, <3>3
  <2>6. CASE ~firstPacket
    <3>1. /\ firstSeq' = firstSeq
          /\ s < lastSeq =>
               /\ lastSeq' = lastSeq /\ totalGap' = totalGap
               /\ outOfOrder' = outOfOrder + 1 /\ duplicates' = duplicates
          /\ s = lastSeq =>
               /\ lastSeq' = lastSeq /\ totalGap' = totalGap
               /\ outOfOrder' = outOfOrder /\ duplicates' = duplicates + 1
          /\ s > lastSeq =>
               /\ lastSeq' = s /\ totalGap' = totalGap + (s - lastSeq - 1)
               /\ outOfOrder' = outOfOrder /\ duplicates' = duplicates
      BY <2>1, <2>6, TrackCases
    <3>2. lastSeq - firstSeq = totalGap + (Cardinality(DecodedRows) - 1 - outOfOrder - duplicates)
      BY <1>4, <2>6
    <3>3. CASE s < lastSeq
      BY <1>3, <2>1, <2>4, <3>1, <3>2, <3>3
    <3>4. CASE s = lastSeq
      BY <1>3, <2>1, <2>4, <3>1, <3>2, <3>4
    <3>5. CASE s > lastSeq
      BY <1>3, <2>1, <2>4, <3>1, <3>2, <3>5
    <3> QED
      BY <2>1, <3>3, <3>4, <3>5
  <2> QED
    BY <2>5, <2>6
<1> QED
  BY <1>5, <1>6 DEF Process

-----------------------------------------------------------------------------
(* The reservoir                                                           *)

(* A row that is written and measured as this one is enters the sample.    *)
LEMMA SampleStep ==
  ASSUME TypeOK, ReservoirIsASample, NEW r \in Row, rows' = Append(rows, r),
         \/ UNCHANGED statVars
         \/ /\ Measure(r.packet, r.e2e, r.jitter)
            /\ r.packet.fate # "corrupt"
  PROVE  ReservoirIsASample'
<1>1. /\ Len(rows) + 1 \notin DOMAIN rows
      /\ DOMAIN rows' = DOMAIN rows \cup {Len(rows) + 1}
      /\ \A k \in DOMAIN rows : rows'[k] = rows[k]
      /\ rows'[Len(rows) + 1] = r
  BY RowAppended
<1>2. /\ Len(reservoir) = IF reservoirCount < ReservoirCap THEN reservoirCount ELSE ReservoirCap
      /\ \A i \in DOMAIN reservoir :
           /\ reservoir[i].row \in DOMAIN rows
           /\ Measured(reservoir[i].row)
           /\ rows[reservoir[i].row].e2e = reservoir[i].us
      /\ \A i, j \in DOMAIN reservoir : i # j => reservoir[i].row # reservoir[j].row
  BY DEF ReservoirIsASample
<1>3. CASE UNCHANGED statVars
  <2>1. reservoir' = reservoir /\ reservoirCount' = reservoirCount
    BY <1>3 DEF statVars
  <2>2. \A k \in DOMAIN rows : Measured(k) => Measured(k)'
    BY <1>1 DEF Measured
  <2>3. \A i \in DOMAIN reservoir :
          /\ reservoir[i].row \in DOMAIN rows'
          /\ Measured(reservoir[i].row)'
          /\ rows'[reservoir[i].row].e2e = reservoir[i].us
    BY <1>1, <1>2, <2>1, <2>2
  <2> QED
    BY <1>2, <2>1, <2>3 DEF ReservoirIsASample
<1>4. CASE Measure(r.packet, r.e2e, r.jitter) /\ r.packet.fate # "corrupt" /\ ~IsWarmup(r.packet)
  <2>1. reservoirCount' = reservoirCount + 1 /\ Put(r.e2e) /\ r.e2e \in Int
        /\ reservoirCount \in Nat
    BY <1>4 DEF Measure, Row, TypeOK
  <2>2. /\ Len(reservoir') = IF Len(reservoir) < ReservoirCap
                             THEN Len(reservoir) + 1 ELSE Len(reservoir)
        /\ \E n \in Nat : \A i \in DOMAIN reservoir' :
             IF i = n THEN reservoir'[i] = Sample(r.e2e)
             ELSE i \in DOMAIN reservoir /\ reservoir'[i] = reservoir[i]
    <3>1. PutsOne(r.e2e)
      <4>1. reservoirCount' \in Nat
        BY <2>1
      <4> QED
        BY Zenon, <2>1, <4>1, PutOne
    <3> QED
      BY <3>1 DEF PutsOne
  <2>3. PICK n \in Nat : \A i \in DOMAIN reservoir' :
          IF i = n THEN reservoir'[i] = Sample(r.e2e)
          ELSE i \in DOMAIN reservoir /\ reservoir'[i] = reservoir[i]
    BY <2>2
  <2>4. Len(reservoir') = IF reservoirCount' < ReservoirCap THEN reservoirCount' ELSE ReservoirCap
    BY <1>2, <2>1, <2>2
  <2>5. \A k \in DOMAIN rows : Measured(k) => Measured(k)'
    BY <1>1 DEF Measured
  <2>6. \A k : k = Len(rows) + 1 => Measured(k)'
    BY <1>1, <1>4 DEF Measured
  <2>7. \A i \in DOMAIN reservoir' :
          \/ /\ i # n /\ i \in DOMAIN reservoir
             /\ reservoir'[i].row = reservoir[i].row /\ reservoir'[i].us = reservoir[i].us
             /\ reservoir[i].row \in DOMAIN rows
          \/ i = n /\ reservoir'[i].row = Len(rows) + 1 /\ reservoir'[i].us = r.e2e
    BY <1>2, <2>3 DEF Sample
  <2>8. \A i \in DOMAIN reservoir' : \A k : k = reservoir'[i].row =>
          k \in DOMAIN rows' /\ Measured(k)' /\ rows'[k].e2e = reservoir'[i].us
    BY SMTT(30), <1>1, <1>2, <2>5, <2>6, <2>7
  <2>9. \A i, j \in DOMAIN reservoir' : i # j => reservoir'[j].row # reservoir'[i].row
    BY <1>1, <1>2, <2>7
  <2> QED
    BY <2>4, <2>8, <2>9 DEF ReservoirIsASample
<1> QED
  BY <1>3, <1>4 DEF Measure

LEMMA ReservoirStep ==
  ASSUME IInv, ReservoirIsASample, NEW p \in Packets, Process(p)
  PROVE  ReservoirIsASample'
<1>1. TypeOK /\ p.seq \in Ids /\ p.delay \in Int /\ JitterOf(p) \in Nat
  BY JitterType DEF IInv
<1>2. CASE Corrupt(p)
  <2>1. PICK r \in Row : rows' = Append(rows, r)
    BY <1>1, ProcessRow
  <2>2. UNCHANGED statVars
    BY <1>2 DEF Corrupt
  <2> QED
    BY <1>1, <2>1, <2>2, SampleStep
<1>3. CASE Undecodable(p)
  <2>0. NewRow(p, FALSE, FALSE, 0, 0, 0) \in Row
    BY DEF NewRow, Row
  <2>1. PICK r \in Row : r = NewRow(p, FALSE, FALSE, 0, 0, 0)
    BY <2>0
  <2>2. rows' = Append(rows, r) /\ Measure(r.packet, r.e2e, r.jitter) /\ r.packet.fate # "corrupt"
    BY <1>3, <2>1 DEF Undecodable, WriteRow, NewRow
  <2> QED
    BY <1>1, <2>2, SampleStep
<1>4. CASE Decoded(p)
  <2>0. Late(p.seq) \in BOOLEAN /\ Repeat(p.seq) \in BOOLEAN /\ Gap(p.seq) \in Nat
    BY <1>1, GapType DEF Late, Repeat
  <2>1. PICK r \in Row : r = NewRow(p, Late(p.seq), Repeat(p.seq), Gap(p.seq), p.delay, JitterOf(p))
    BY <1>1, <2>0 DEF NewRow, Row
  <2>2. rows' = Append(rows, r) /\ Measure(r.packet, r.e2e, r.jitter) /\ r.packet.fate # "corrupt"
    BY <1>4, <2>1 DEF Decoded, WriteRow, NewRow
  <2> QED
    BY <1>1, <2>2, SampleStep
<1> QED
  BY <1>2, <1>3, <1>4 DEF Process

-----------------------------------------------------------------------------
(* Jitter and accumulators                                                 *)

(* last_e2e_delay_us_ is the delay of the last row that sets the baseline. *)
BaselineInv ==
  \A k \in JitterBase : (\A x \in JitterBase : x <= k) => lastDelay = rows[k].e2e

(* What a step appends, as JitterBase and Measured see it.                 *)
LEMMA ProcessBase ==
  ASSUME TypeOK, NEW p \in Packets, Process(p)
  PROVE  \E r \in Row :
           /\ rows' = Append(rows, r) /\ r.packet = p
           /\ p.fate = "decoded" /\ ~IsWarmup(p) =>
                /\ r.e2e = p.delay /\ r.jitter = Abs(p.delay - lastDelay)
                /\ lastDelay' = p.delay
           /\ ~(p.fate = "decoded" /\ ~IsWarmup(p)) => lastDelay' = lastDelay
           /\ ~IsWarmup(p) /\ p.fate # "corrupt" =>
                /\ acc' = [n |-> acc.n + 1, e2e |-> acc.e2e + r.e2e,
                           jitter |-> acc.jitter + r.jitter]
                /\ reservoirCount' = reservoirCount + 1
           /\ ~(~IsWarmup(p) /\ p.fate # "corrupt") =>
                acc' = acc /\ reservoirCount' = reservoirCount
<1>1. p.fate \in Fates /\ p.seq \in Ids /\ p.delay \in Int /\ JitterOf(p) \in Nat
  BY JitterType DEF Packets
<1>2. CASE Corrupt(p) \/ Undecodable(p)
  <2>0. NewRow(p, FALSE, FALSE, 0, 0, 0) \in Row
    BY DEF NewRow, Row
  <2>1. PICK r \in Row : r = NewRow(p, FALSE, FALSE, 0, 0, 0)
    BY <2>0
  <2>2. rows' = Append(rows, r) /\ lastDelay' = lastDelay /\ p.fate # "decoded"
        /\ r.packet = p /\ r.e2e = 0 /\ r.jitter = 0
    BY <1>2, <2>1 DEF Corrupt, Undecodable, WriteRow, NewRow
  <2>3. CASE p.fate = "corrupt"
    BY <1>2, <2>2, <2>3 DEF Corrupt, Undecodable, statVars
  <2>4. CASE p.fate # "corrupt"
    BY <1>2, <2>2, <2>4 DEF Corrupt, Undecodable, Measure, statVars
  <2> QED
    BY <2>3, <2>4
<1>3. CASE Decoded(p)
  <2>0. Late(p.seq) \in BOOLEAN /\ Repeat(p.seq) \in BOOLEAN /\ Gap(p.seq) \in Nat
    BY <1>1, GapType DEF Late, Repeat
  <2>1. PICK r \in Row : r = NewRow(p, Late(p.seq), Repeat(p.seq), Gap(p.seq), p.delay, JitterOf(p))
    BY <1>1, <2>0 DEF NewRow, Row
  <2>2. rows' = Append(rows, r) /\ r.packet = p /\ r.e2e = p.delay /\ r.jitter = JitterOf(p)
        /\ lastDelay' = Baseline(p) /\ p.fate = "decoded"
    BY <1>3, <2>1 DEF Decoded, WriteRow, NewRow
  <2>3. CASE IsWarmup(p)
    BY <1>3, <2>2, <2>3 DEF Decoded, Measure, statVars, Baseline
  <2>4. CASE ~IsWarmup(p)
    BY <1>3, <2>2, <2>4 DEF Decoded, Measure, Baseline, JitterOf
  <2> QED
    BY <2>3, <2>4
<1> QED
  BY <1>2, <1>3 DEF Process

LEMMA JitterStep ==
  ASSUME TypeOK, BaselineInv, JitterAgainstPrevious, NEW p \in Packets, Process(p)
  PROVE  BaselineInv' /\ JitterAgainstPrevious'
<1>1. PICK r \in Row :
        /\ rows' = Append(rows, r) /\ r.packet = p
        /\ p.fate = "decoded" /\ ~IsWarmup(p) =>
             /\ r.e2e = p.delay /\ r.jitter = Abs(p.delay - lastDelay)
             /\ lastDelay' = p.delay
        /\ ~(p.fate = "decoded" /\ ~IsWarmup(p)) => lastDelay' = lastDelay
  BY ProcessBase
<1>2. PICK n : n = Len(rows)
  OBVIOUS
<1>3. /\ n \in Nat /\ DOMAIN rows = 1 .. n /\ DOMAIN rows' = 1 .. n + 1
      /\ \A k \in 1 .. n : rows'[k] = rows[k]
      /\ rows'[n + 1] = r
  <2>1. DOMAIN rows = 1 .. n /\ n \in Nat
    BY <1>2, LenProperties DEF TypeOK
  <2> QED
    BY <1>1, <1>2, <2>1, RowAppended
<1>4. JitterBase \subseteq 1 .. n
  BY <1>3 DEF JitterBase
<1>5. CASE p.fate = "decoded" /\ ~IsWarmup(p)
  <2>1. JitterBase' = JitterBase \cup {n + 1}
    BY <1>1, <1>3, <1>5 DEF JitterBase, IsDecoded, IsWarmup
  <2>2. BaselineInv'
    <3> SUFFICES ASSUME NEW k \in JitterBase', \A x \in JitterBase' : x <= k
                 PROVE  lastDelay' = rows'[k].e2e
      BY DEF BaselineInv
    <3>1. n + 1 <= k
      BY <2>1
    <3>2. k \in 1 .. n + 1
      <4>1. k \in JitterBase \/ k = n + 1
        BY <2>1
      <4>2. 1 .. n \subseteq 1 .. n + 1 /\ n + 1 \in 1 .. n + 1
        BY <1>3
      <4> QED
        BY <1>4, <4>1, <4>2
    <3>3. k = n + 1
      BY <1>3, <3>1, <3>2
    <3> QED
      BY <1>1, <1>3, <1>5, <3>3
  <2>3. JitterAgainstPrevious'
    <3> SUFFICES ASSUME NEW i \in JitterBase', NEW k \in JitterBase', i < k,
                        \A x \in JitterBase' : x <= i \/ k <= x
                 PROVE  rows'[k].jitter = Abs(rows'[k].e2e - rows'[i].e2e)
      BY SMTT(30) DEF JitterAgainstPrevious
    <3>1. i \in JitterBase /\ i \in 1 .. n /\ rows'[i] = rows[i]
      <4>1. (i \in 1 .. n \/ i = n + 1) /\ (k \in 1 .. n \/ k = n + 1)
        BY <1>4, <2>1, Zenon
      <4>2. i # n + 1
        BY <1>3, <4>1
      <4>3. i \in JitterBase
        BY <2>1, <4>2, Zenon
      <4> QED
        BY <1>3, <1>4, <4>3, Zenon
    <3>2. CASE k = n + 1
      <4>1. \A x \in JitterBase : x \in 1 .. n /\ (x <= i \/ k <= x)
        BY <1>4, <2>1
      <4>2. \A x \in JitterBase : x <= i
        BY <1>3, <3>2, <4>1
      <4>3. lastDelay = rows[i].e2e
        BY <3>1, <4>2 DEF BaselineInv
      <4> QED
        BY <1>1, <1>3, <1>5, <3>1, <3>2, <4>3
    <3>3. CASE k # n + 1
      <4>1. k \in JitterBase /\ rows'[k] = rows[k]
        BY <1>3, <1>4, <2>1, <3>3
      <4> QED
        BY <2>1, <3>1, <4>1 DEF JitterAgainstPrevious
    <3> QED
      BY <3>2, <3>3
  <2> QED
    BY <2>2, <2>3
<1>6. CASE ~(p.fate = "decoded" /\ ~IsWarmup(p))
  <2>1. JitterBase' = JitterBase
    BY <1>1, <1>3, <1>6 DEF JitterBase, IsDecoded, IsWarmup
  <2>2. \A k \in JitterBase : rows'[k] = rows[k]
    BY <1>3, <1>4
  <2>3. BaselineInv'
    BY <1>1, <1>6, <2>1, <2>2 DEF BaselineInv
  <2>4. \A i, k \in JitterBase :
          i < k /\ (\A x \in JitterBase : x <= i \/ k <= x)
            => rows'[k].jitter = Abs(rows'[k].e2e - rows'[i].e2e)
    BY <2>2 DEF JitterAgainstPrevious
  <2> QED
    BY <2>1, <2>3, <2>4 DEF JitterAgainstPrevious
<1> QED
  BY <1>5, <1>6

MeasuredRows == {k \in DOMAIN rows : Measured(k)}

LEMMA AccumulatorsStep ==
  ASSUME TypeOK, AccumulatorsMatchRows, NEW p \in Packets, Process(p)
  PROVE  AccumulatorsMatchRows'
<1>1. PICK r \in Row :
        /\ rows' = Append(rows, r) /\ r.packet = p
        /\ ~IsWarmup(p) /\ p.fate # "corrupt" =>
             /\ acc' = [n |-> acc.n + 1, e2e |-> acc.e2e + r.e2e,
                        jitter |-> acc.jitter + r.jitter]
             /\ reservoirCount' = reservoirCount + 1
        /\ ~(~IsWarmup(p) /\ p.fate # "corrupt") =>
             acc' = acc /\ reservoirCount' = reservoirCount
  BY ProcessBase
<1>2. PICK n : n = Len(rows)
  OBVIOUS
<1>3. /\ n \in Nat /\ DOMAIN rows = 1 .. n /\ DOMAIN rows' = 1 .. n + 1
      /\ \A k \in 1 .. n : rows'[k] = rows[k]
      /\ rows'[n + 1] = r
      /\ \A k \in 1 .. n : rows[k] \in Row
  <2>1. DOMAIN rows = 1 .. n /\ n \in Nat
    BY <1>2, LenProperties DEF TypeOK
  <2>2. \A k \in 1 .. n : rows[k] \in Row
    BY <1>2, <2>1, ElementOfSeq DEF TypeOK
  <2> QED
    BY <1>1, <1>2, <2>1, <2>2, RowAppended
<1>4. PICK T : T = MeasuredRows
  OBVIOUS
<1>5. T \subseteq 1 .. n /\ IsFiniteSet(T) /\ n + 1 \notin T
  <2>1. T \in SUBSET (1 .. n) /\ n + 1 \notin T
    BY <1>3, <1>4 DEF MeasuredRows
  <2>2. IsFiniteSet(1 .. n)
    BY SMTT(30), <1>3, FS_Interval
  <2>3. IsFiniteSet(T)
    BY <2>1, <2>2, FS_Subset
  <2> QED
    BY <2>1, <2>3
<1>6. PICK e : e = [k \in DOMAIN rows |-> rows[k].e2e]
  OBVIOUS
<1>7. PICK f : f = [k \in DOMAIN rows' |-> rows'[k].e2e]
  OBVIOUS
<1>8. PICK u : u = [k \in DOMAIN rows |-> rows[k].jitter]
  OBVIOUS
<1>9. PICK v : v = [k \in DOMAIN rows' |-> rows'[k].jitter]
  OBVIOUS
<1>10. /\ \A y \in T : e[y] = f[y] /\ u[y] = v[y]
       /\ \A y \in T \cup {n + 1} : f[y] \in Int /\ v[y] \in Int
       /\ f[n + 1] = r.e2e /\ v[n + 1] = r.jitter
  BY SMTT(30), <1>3, <1>5, <1>6, <1>7, <1>8, <1>9 DEF Row
<1>11. /\ acc.n = Cardinality(T) /\ reservoirCount = acc.n
       /\ acc.e2e = SumFunctionOnSet(e, T) /\ acc.jitter = SumFunctionOnSet(u, T)
  BY <1>4, <1>6, <1>8 DEF AccumulatorsMatchRows, MeasuredRows
<1>12. acc \in [n : Nat, e2e : Int, jitter : Nat]
  BY DEF TypeOK
<1>13. CASE ~IsWarmup(p) /\ p.fate # "corrupt"
  <2>1. MeasuredRows' = T \cup {n + 1}
    BY <1>1, <1>3, <1>4, <1>13 DEF MeasuredRows, Measured, IsWarmup
  <2>2. Cardinality(T \cup {n + 1}) = Cardinality(T) + 1
    BY <1>5, FS_AddElement
  <2>3. PICK x : x = n + 1
    OBVIOUS
  <2>4. /\ SumFunctionOnSet(f, T \cup {n + 1}) = SumFunctionOnSet(e, T) + f[n + 1]
        /\ SumFunctionOnSet(v, T \cup {n + 1}) = SumFunctionOnSet(u, T) + v[n + 1]
    <3>1. IntOn(f, T \cup {x}) /\ IntOn(v, T \cup {x})
      BY <1>10, <2>3 DEF IntOn
    <3>2. Agree(e, f, T) /\ Agree(u, v, T)
      BY <1>10 DEF Agree
    <3>3. IsFiniteSet(T) /\ x \notin T
      BY <1>5, <2>3
    <3>4. SumFunctionOnSet(f, T \cup {x}) = SumFunctionOnSet(e, T) + f[x]
      BY Zenon, <3>1, <3>2, <3>3, SumAdd
    <3>5. SumFunctionOnSet(v, T \cup {x}) = SumFunctionOnSet(u, T) + v[x]
      BY Zenon, <3>1, <3>2, <3>3, SumAdd
    <3> QED
      BY Zenon, <2>3, <3>4, <3>5
  <2>5. /\ acc'.n = acc.n + 1 /\ reservoirCount' = reservoirCount + 1
        /\ acc'.e2e = acc.e2e + r.e2e /\ acc'.jitter = acc.jitter + r.jitter
    BY <1>1, <1>13
  <2>6. /\ acc'.n = Cardinality(MeasuredRows') /\ reservoirCount' = acc'.n
        /\ acc'.e2e = SumFunctionOnSet(f, MeasuredRows')
        /\ acc'.jitter = SumFunctionOnSet(v, MeasuredRows')
    BY <1>10, <1>11, <2>1, <2>2, <2>3, <2>4, <2>5
  <2> QED
    BY <1>7, <1>9, <2>6 DEF AccumulatorsMatchRows, MeasuredRows
<1>14. CASE ~(~IsWarmup(p) /\ p.fate # "corrupt")
  <2>1. MeasuredRows' = T
    BY <1>1, <1>3, <1>4, <1>14 DEF MeasuredRows, Measured, IsWarmup
  <2>2. SumFunctionOnSet(e, T) = SumFunctionOnSet(f, T)
    <3>1. IntOn(f, T) /\ Agree(e, f, T)
      BY <1>10 DEF IntOn, Agree
    <3> QED
      BY <1>5, <3>1, SumSame
  <2>3. SumFunctionOnSet(u, T) = SumFunctionOnSet(v, T)
    <3>1. IntOn(v, T) /\ Agree(u, v, T)
      BY <1>10 DEF IntOn, Agree
    <3> QED
      BY <1>5, <3>1, SumSame
  <2>4. /\ acc'.n = Cardinality(MeasuredRows') /\ reservoirCount' = acc'.n
        /\ acc'.e2e = SumFunctionOnSet(f, MeasuredRows')
        /\ acc'.jitter = SumFunctionOnSet(v, MeasuredRows')
    BY <1>1, <1>11, <1>14, <2>1, <2>2, <2>3
  <2> QED
    BY <1>7, <1>9, <2>4 DEF AccumulatorsMatchRows, MeasuredRows
<1> QED
  BY <1>13, <1>14

Accounts == BaselineInv /\ JitterAgainstPrevious /\ AccumulatorsMatchRows

LEMMA AccountsInit == Init => Accounts
<1> SUFFICES ASSUME Init PROVE Accounts
  OBVIOUS
<1>1. rows = <<>> /\ DOMAIN rows = {} /\ MeasuredRows = {} /\ JitterBase = {}
  BY DEF Init, MeasuredRows, JitterBase
<1>2. Cardinality({}) = 0
  BY FS_EmptySet
<1>3. \A f : SumFunctionOnSet(f, {}) = 0
  BY SumEmpty
<1>4. AccumulatorsMatchRows
  BY <1>1, <1>2, <1>3 DEF AccumulatorsMatchRows, MeasuredRows, Init
<1> QED
  BY <1>1, <1>4 DEF Accounts, BaselineInv, JitterAgainstPrevious

LEMMA AccountsStep == IInv /\ Accounts /\ [Next]_vars => Accounts'
<1> SUFFICES ASSUME IInv, Accounts, [Next]_vars PROVE Accounts'
  OBVIOUS
<1>1. CASE UNCHANGED vars
  <2>1. UNCHANGED <<rows, lastDelay, acc, reservoirCount>>
    BY <1>1 DEF vars, statVars
  <2> QED
    BY <2>1 DEF Accounts, BaselineInv, JitterAgainstPrevious, AccumulatorsMatchRows,
                JitterBase, IsDecoded, Measured
<1>2. ASSUME NEW p \in Packets, Process(p) PROVE Accounts'
  BY <1>2, JitterStep, AccumulatorsStep DEF IInv, Accounts
<1> QED
  BY <1>1, <1>2 DEF Next

LEMMA AccountsAlways == Spec => []Accounts
BY IInvAlways, AccountsInit, AccountsStep, PTL DEF Spec

-----------------------------------------------------------------------------
(* The summary.                                                            *)

E2e == [k \in DOMAIN rows |-> rows[k].e2e]
Kept == [i \in 1 .. Len(reservoir) |-> reservoir[i].us]
KeptRows == [i \in 1 .. Len(reservoir) |-> reservoir[i].row]
MeasuredList == SetToSeq(MeasuredRows)
Recomputed == [i \in DOMAIN MeasuredList |-> rows[MeasuredList[i]].e2e]

LEMMA MeasuredType ==
  ASSUME TypeOK
  PROVE  /\ IsFiniteSet(MeasuredRows) /\ IntOn(E2e, MeasuredRows)
         /\ Cardinality(MeasuredRows) \in Nat
         /\ \A k \in MeasuredRows : E2e[k] = rows[k].e2e
<1>1. PICK n : n = Len(rows)
  OBVIOUS
<1>2. /\ n \in Nat /\ DOMAIN rows = 1 .. n /\ \A k \in 1 .. n : rows[k] \in Row
  <2>1. DOMAIN rows = 1 .. n /\ n \in Nat
    BY <1>1, LenProperties DEF TypeOK
  <2> QED
    BY <1>1, <2>1, ElementOfSeq DEF TypeOK
<1>3. MeasuredRows \subseteq 1 .. n
  BY <1>2 DEF MeasuredRows
<1>4. IsFiniteSet(1 .. n)
  BY Zenon, <1>2, FirstFinite
<1>5. IsFiniteSet(MeasuredRows)
  BY <1>3, <1>4, FS_Subset
<1>6. \A k \in MeasuredRows : E2e[k] = rows[k].e2e /\ rows[k].e2e \in Int
  BY <1>2, <1>3 DEF E2e, Row
<1> QED
  BY <1>5, <1>6, FS_CardinalityType DEF IntOn

LEMMA RecomputedLists ==
  ASSUME TypeOK
  PROVE  /\ Lists(Recomputed, MeasuredList, MeasuredRows, E2e)
         /\ Len(MeasuredList) = Cardinality(MeasuredRows)
<1>1. PICK S, f : S = MeasuredRows /\ f = MeasuredList
  OBVIOUS
<1>2. IsFiniteSet(S) /\ IntOn(E2e, S) /\ \A k \in S : E2e[k] = rows[k].e2e
  BY <1>1, MeasuredType
<1>3. PICK n \in Nat : n = Cardinality(S)
  BY <1>1, MeasuredType
<1>4. f \in [1 .. n -> S] /\ \A i, k \in 1 .. n : f[i] = f[k] => i = k
  BY <1>1, <1>2, <1>3, SetIsListed DEF MeasuredList
<1>5. /\ Recomputed = [i \in 1 .. n |-> E2e[f[i]]]
      /\ \A i \in 1 .. n : E2e[f[i]] \in Int
  BY <1>1, <1>2, <1>4 DEF Recomputed, IntOn
<1>6. Recomputed \in Seq(Int) /\ Len(Recomputed) = n /\ Len(f) = n
  BY <1>4, <1>5
<1> QED
  BY <1>1, <1>2, <1>3, <1>4, <1>5, <1>6 DEF Lists

LEMMA KeptLists ==
  ASSUME TypeOK, ReservoirIsASample, AccumulatorsMatchRows
  PROVE  /\ Kept \in Seq(Int) /\ Len(Kept) = Len(reservoir)
         /\ \A i \in 1 .. Len(Kept) : \E k \in MeasuredRows : Kept[i] = E2e[k]
         /\ Cardinality(MeasuredRows) <= ReservoirCap =>
              Lists(Kept, KeptRows, MeasuredRows, E2e)
         /\ Len(Kept) = 0 => MeasuredRows = {}
<1>1. PICK n : n = Len(reservoir)
  OBVIOUS
<1>2. n \in Nat /\ DOMAIN reservoir = 1 .. n /\ \A i \in 1 .. n : reservoir[i] \in Rng
  <2>1. reservoir \in Seq(Rng)
    BY DEF TypeOK, Rng
  <2>2. DOMAIN reservoir = 1 .. n /\ n \in Nat
    BY <1>1, <2>1, LenProperties
  <2> QED
    BY <1>1, <2>1, <2>2, ElementOfSeq
<1>3. /\ Kept = [i \in 1 .. n |-> reservoir[i].us] /\ KeptRows = [i \in 1 .. n |-> reservoir[i].row]
      /\ \A i \in 1 .. n : reservoir[i].us \in Int
  BY <1>1, <1>2 DEF Kept, KeptRows, Rng
<1>4. Kept \in Seq(Int) /\ Len(Kept) = n
  BY <1>2, <1>3
<1>5. \A i \in 1 .. n : reservoir[i].row \in MeasuredRows
                        /\ reservoir[i].us = E2e[reservoir[i].row]
  BY <1>2 DEF ReservoirIsASample, MeasuredRows, E2e
<1>6. \A i, k \in 1 .. n : reservoir[i].row = reservoir[k].row => i = k
  BY <1>2 DEF ReservoirIsASample
<1>7. PICK c \in Nat : c = Cardinality(MeasuredRows) /\ c = reservoirCount
  BY MeasuredType DEF AccumulatorsMatchRows, MeasuredRows
<1>8. n = IF c < ReservoirCap THEN c ELSE ReservoirCap
  BY <1>1, <1>7 DEF ReservoirIsASample
<1>9. c <= ReservoirCap => n = c
  BY <1>8, ProcessorAssumption
<1>10. n = 0 => MeasuredRows = {}
  <2>1. n = 0 => c = 0
    BY <1>8, ProcessorAssumption
  <2> QED
    BY <1>7, <2>1, MeasuredType, FS_EmptySet
<1>11. ASSUME c <= ReservoirCap PROVE Lists(Kept, KeptRows, MeasuredRows, E2e)
  <2>1. /\ KeptRows \in [1 .. n -> MeasuredRows]
        /\ \A i, k \in 1 .. n : KeptRows[i] = KeptRows[k] => i = k
        /\ \A i \in 1 .. n : Kept[i] = E2e[KeptRows[i]]
    BY <1>3, <1>5, <1>6
  <2> QED
    BY <1>4, <1>7, <1>9, <1>11, <2>1, MeasuredType DEF Lists
<1> QED
  BY <1>1, <1>3, <1>4, <1>5, <1>7, <1>10, <1>11

(* The summary c is within the range of w, its percentiles within its own. *)
Inside(c, w) ==
  /\ w.min <= c.min /\ c.max <= w.max
  /\ 1000 * c.min <= c.p50 /\ c.p999 <= 1000 * c.max

LEMMA SummaryInside ==
  ASSUME TypeOK, ReservoirIsASample, AccumulatorsMatchRows
  PROVE  Inside(Compute(Kept), Compute(Recomputed))
<1>1. PICK r, w : r = Kept /\ w = Recomputed
  OBVIOUS
<1>2. /\ r \in Seq(Int)
      /\ \A i \in 1 .. Len(r) : \E k \in MeasuredRows : r[i] = E2e[k]
      /\ Len(r) = 0 => MeasuredRows = {}
  BY <1>1, KeptLists
<1>3. /\ w \in Seq(Int) /\ Len(w) = Cardinality(MeasuredRows)
      /\ \A k \in MeasuredRows : \E i \in 1 .. Len(w) : w[i] = E2e[k]
  <2>1. Lists(w, MeasuredList, MeasuredRows, E2e)
    BY <1>1, RecomputedLists
  <2>2. \A k \in MeasuredRows : \E i \in 1 .. Len(w) : MeasuredList[i] = k
    BY <2>1, ListsAll
  <2> QED
    BY <2>1, <2>2 DEF Lists
<1>4. CASE Len(r) = 0
  <2>1. Len(w) = 0
    BY <1>2, <1>3, <1>4, FS_EmptySet
  <2>2. r = <<>> /\ w = <<>>
    BY <1>2, <1>3, <1>4, <2>1
  <2>3. Compute(r) = NoStats /\ Compute(w) = NoStats
    BY <2>2 DEF Compute
  <2> QED
    BY <1>1, <2>3 DEF NoStats, Inside
<1>5. CASE Len(r) # 0
  <2>1. Len(r) \in Nat /\ Len(r) > 0 /\ 1 \in 1 .. Len(r) /\ Len(r) \in 1 .. Len(r)
    BY <1>2, <1>5
  <2>2. Len(w) > 0
    BY <1>2, <1>3, <2>1
  <2>3. PICK t, u : t = Sorted(r) /\ u = Sorted(w)
    OBVIOUS
  <2>4. Summary(Compute(r), t) /\ Len(t) = Len(r) /\ Summary(Compute(w), u) /\ Len(u) = Len(w)
    BY <1>2, <1>3, <2>1, <2>2, <2>3, ComputeOfSome
  <2>5. \A i \in 1 .. Len(r) : u[1] <= r[i] /\ r[i] <= u[Len(w)]
    BY SMTT(30), <1>2, <1>3, <2>3, SortedHolds
  <2>6. /\ \E i \in 1 .. Len(r) : r[i] = t[1]
        /\ \E i \in 1 .. Len(r) : r[i] = t[Len(r)]
    <3>1. t[1] \in Range(r) /\ t[Len(r)] \in Range(r) /\ DOMAIN r = 1 .. Len(r)
      BY <1>2, <2>1, <2>3, SortedPlace DEF AtPlace
    <3> QED
      BY <3>1 DEF Range
  <2>7. u[1] <= t[1] /\ t[Len(r)] <= u[Len(w)]
    BY <2>5, <2>6
  <2>8. PICK y, z : y = 500 /\ z = 999
    OBVIOUS
  <2>9. Permille(y) /\ Permille(z)
    BY <2>8 DEF Permille
  <2>10. /\ t \in Seq(Int) /\ Len(t) > 0 /\ Ordered(t)
         /\ Compute(r).min = t[1] /\ Compute(r).max = t[Len(r)]
         /\ Compute(w).min = u[1] /\ Compute(w).max = u[Len(w)]
         /\ Compute(r).p50 = Percentile(t, y) /\ Compute(r).p999 = Percentile(t, z)
    BY <2>4, <2>8 DEF Summary
  <2>11. Within(t, Percentile(t, y)) /\ Within(t, Percentile(t, z))
    BY Zenon, <2>9, <2>10, PercentilesWithin
  <2> QED
    BY <1>1, <2>4, <2>7, <2>10, <2>11 DEF Inside, Within
<1> QED
  BY <1>4, <1>5

LEMMA SummaryWhole ==
  ASSUME TypeOK, ReservoirIsASample, AccumulatorsMatchRows,
         Cardinality(MeasuredRows) <= ReservoirCap
  PROVE  /\ Compute(Kept) = Compute(Recomputed)
         /\ Compute(Kept).mean * acc.n = Scale * acc.e2e
<1>1. /\ Lists(Kept, KeptRows, MeasuredRows, E2e)
      /\ Lists(Recomputed, MeasuredList, MeasuredRows, E2e)
      /\ Kept \in Seq(Int)
  BY KeptLists, RecomputedLists
<1>2. Compute(Kept) = Compute(Recomputed)
  BY <1>1, ComputeOfSet
<1>3. acc.n = Cardinality(MeasuredRows) /\ acc.e2e = SumFunctionOnSet(E2e, MeasuredRows)
  BY DEF AccumulatorsMatchRows, MeasuredRows, E2e
<1>4. Len(Kept) = Cardinality(MeasuredRows) /\ Cardinality(MeasuredRows) \in Nat
  BY <1>1, MeasuredType DEF Lists
<1>5. CASE Len(Kept) > 0
  <2>1. Divisible(Len(Kept))
    BY <1>4, SummaryAssumption, ProcessorAssumption DEF Divisible
  <2> QED
    BY <1>1, <1>2, <1>3, <1>5, <2>1, MeanOfSet
<1>6. CASE ~(Len(Kept) > 0)
  <2>1. Cardinality(MeasuredRows) = 0 /\ MeasuredRows = {}
    BY <1>4, <1>6, MeasuredType, FS_EmptySet
  <2>2. acc.n = 0 /\ acc.e2e = 0
    BY <1>3, <2>1, SumEmpty
  <2>3. Kept = <<>>
    BY <1>1, <1>4, <2>1
  <2>4. Compute(Kept).mean = 0
    BY <2>3 DEF Compute, NoStats
  <2> QED
    BY <1>2, <2>2, <2>4, StatisticsAssumption
<1> QED
  BY <1>5, <1>6

-----------------------------------------------------------------------------
(* The theorems                                                            *)

Tracking == RepeatsAreFlagged /\ GapsBalance /\ GapsCoverMissing /\ ReservoirIsASample

LEMMA TrackingInit == Init => Tracking
<1> SUFFICES ASSUME Init PROVE Tracking
  OBVIOUS
<1>1. rows = <<>> /\ reservoir = <<>> /\ reservoirCount = 0 /\ firstPacket
  BY DEF Init
<1> QED
  BY <1>1 DEF Tracking, RepeatsAreFlagged, GapsBalance, GapsCoverMissing, ReservoirIsASample

LEMMA TrackingStep == IInv /\ Tracking /\ [Next]_vars => Tracking'
<1> SUFFICES ASSUME IInv, Tracking, [Next]_vars PROVE Tracking'
  OBVIOUS
<1>1. CASE UNCHANGED vars
  <2>1. UNCHANGED <<rows, reservoir, reservoirCount, firstPacket, lastSeq, outOfOrder,
                    duplicates, totalGap, firstSeq, seen>>
    BY <1>1 DEF vars, orderVars, statVars
  <2>2. RepeatsAreFlagged' /\ GapsBalance'
    BY <2>1 DEF Tracking, RepeatsAreFlagged, GapsBalance, IsDecoded
  <2>3. GapsCoverMissing'
    BY <2>1 DEF Tracking, GapsCoverMissing, Missing
  <2>4. ReservoirIsASample'
    BY <2>1 DEF Tracking, ReservoirIsASample, Measured
  <2> QED
    BY <2>2, <2>3, <2>4 DEF Tracking
<1>2. ASSUME NEW p \in Packets, Process(p) PROVE Tracking'
  BY <1>2, RepeatsStep, BalanceStep, CoverStep, ReservoirStep DEF Tracking
<1> QED
  BY <1>1, <1>2 DEF Next

LEMMA TrackingAlways == Spec => []Tracking
BY IInvAlways, TrackingInit, TrackingStep, PTL DEF Spec

(* Every variable of the processor keeps its type.                         *)
THEOREM ProcessorTypeCorrect == Spec => []TypeOK
<1>1. IInv => TypeOK
  BY DEF IInv
<1> QED
  BY <1>1, IInvAlways, PTL

(* A repeated id is flagged, however much came in between.                 *)
THEOREM RepeatsAreFlaggedAlways == Spec => []RepeatsAreFlagged
<1>1. Tracking => RepeatsAreFlagged
  BY DEF Tracking
<1> QED
  BY <1>1, TrackingAlways, PTL

(* The counters of summary.json balance over the range of ids.             *)
THEOREM GapsBalanceAlways == Spec => []GapsBalance
<1>1. Tracking => GapsBalance
  BY DEF Tracking
<1> QED
  BY <1>1, TrackingAlways, PTL

(* total_seq_gap counts the missing ids, and more only by the late ones.   *)
THEOREM GapsCoverMissingAlways == Spec => []GapsCoverMissing
<1>1. Tracking => GapsCoverMissing
  BY DEF Tracking
<1> QED
  BY <1>1, TrackingAlways, PTL

(* The reservoir is a sample without repetition of the measured rows.      *)
THEOREM ReservoirIsASampleAlways == Spec => []ReservoirIsASample
<1>1. Tracking => ReservoirIsASample
  BY DEF Tracking
<1> QED
  BY <1>1, TrackingAlways, PTL

(* The jitter of a row is against the measured packet decoded before it.   *)
THEOREM JitterAgainstPreviousAlways == Spec => []JitterAgainstPrevious
<1>1. Accounts => JitterAgainstPrevious
  BY DEF Accounts
<1> QED
  BY <1>1, AccountsAlways, PTL

(* The counts and the sums of the accumulators are those of the rows.      *)
THEOREM AccumulatorsMatchRowsAlways == Spec => []AccumulatorsMatchRows
<1>1. Accounts => AccumulatorsMatchRows
  BY DEF Accounts
<1> QED
  BY <1>1, AccountsAlways, PTL

(* The statistics of summary.json are those of the measured rows, computed *)
(* again from packets.csv, while these fit the reservoir, and within their *)
(* range beyond; the mean agrees with the accumulators.                    *)
THEOREM SummaryIsOfMeasuredRowsAlways == Spec => []SummaryIsOfMeasuredRows
<1>1. TypeOK /\ ReservoirIsASample /\ AccumulatorsMatchRows => SummaryIsOfMeasuredRows
  <2> SUFFICES ASSUME TypeOK, ReservoirIsASample, AccumulatorsMatchRows
               PROVE  SummaryIsOfMeasuredRows
    OBVIOUS
  <2>1. Finalize(Unknown, 0, 0).e2e = Compute(Kept)
    BY DEF Finalize, Kept
  <2>2. Len(MeasuredList) = Cardinality(MeasuredRows)
    BY RecomputedLists
  <2>3. Len(MeasuredList) <= ReservoirCap =>
          /\ Compute(Kept) = Compute(Recomputed)
          /\ Compute(Kept).mean * acc.n = Scale * acc.e2e
    BY <2>2, SummaryWhole
  <2>4. Inside(Compute(Kept), Compute(Recomputed))
    BY SummaryInside
  <2> QED
    BY <2>1, <2>3, <2>4
       DEF SummaryIsOfMeasuredRows, Inside, Recomputed, MeasuredList, MeasuredRows
<1>2. IInv /\ Tracking /\ Accounts => TypeOK /\ ReservoirIsASample /\ AccumulatorsMatchRows
  BY DEF IInv, Tracking, Accounts
<1> QED
  BY <1>1, <1>2, IInvAlways, TrackingAlways, AccountsAlways, PTL
=============================================================================
