---------------------------- MODULE QueueLemmas ----------------------------
(* Facts about queues kept as sequences without repetition, which the      *)
(* proofs about the server's linked lists rest on, and about sets of       *)
(* numbers, for those that look for the first of several.                  *)
EXTENDS Integers, Sequences, Functions, SequenceTheorems, FiniteSetTheorems, TLAPS

(* Appending to and taking the tail of a sequence that has no job twice.   *)
LEMMA AppendFacts ==
  ASSUME NEW S, NEW q \in Seq(S), IsInjective(q), NEW j \in S, j \notin Range(q)
  PROVE  /\ Append(q, j) \in Seq(S) /\ Append(q, j) # <<>>
         /\ Len(Append(q, j)) = Len(q) + 1
         /\ \A i \in 1..Len(q) : Append(q, j)[i] = q[i]
         /\ Append(q, j)[Len(q) + 1] = j
         /\ Range(Append(q, j)) = Range(q) \cup {j}
         /\ IsInjective(Append(q, j))
<1> DEFINE a == Append(q, j)
<1>1. /\ a \in Seq(S) /\ a # <<>> /\ Len(a) = Len(q) + 1
      /\ \A i \in 1..Len(q) : a[i] = q[i]
      /\ a[Len(q) + 1] = j /\ DOMAIN a = 1..Len(q) + 1
  OBVIOUS
<1>2. \A i \in 1..Len(q) : a[i] # j
  BY <1>1 DEF Range
<1> HIDE DEF a
<1>3. Range(a) = Range(q) \cup {j}
  BY <1>1 DEF Range
<1>4. IsInjective(a)
  BY <1>1, <1>2 DEF IsInjective
<1> QED BY <1>1, <1>3, <1>4 DEF a

LEMMA TailFacts ==
  ASSUME NEW S, NEW q \in Seq(S), q # <<>>, IsInjective(q)
  PROVE  /\ Tail(q) \in Seq(S) /\ Len(Tail(q)) = Len(q) - 1
         /\ \A i \in 1..Len(q) - 1 : Tail(q)[i] = q[i + 1]
         /\ Tail(q) = <<>> <=> Len(q) = 1
         /\ Range(Tail(q)) = Range(q) \ {q[1]} /\ q[1] \in Range(q)
         /\ IsInjective(Tail(q))
<1> DEFINE t == Tail(q)
<1>0. Len(q) \in Nat \ {0} /\ DOMAIN q = 1..Len(q)
  OBVIOUS
<1>1. /\ t \in Seq(S) /\ Len(t) = Len(q) - 1 /\ DOMAIN t = 1..Len(q) - 1
      /\ \A i \in 1..Len(q) - 1 : t[i] = q[i + 1]
      /\ t = <<>> <=> Len(q) = 1
      /\ Len(q) \in Nat \ {0} /\ DOMAIN q = 1..Len(q)
  <2>1. t \in Seq(S) /\ Len(t) = Len(q) - 1 /\ DOMAIN t = 1..Len(q) - 1
    BY <1>0
  <2>2. \A i \in 1..Len(q) - 1 : t[i] = q[i + 1]
    BY <1>0
  <2> HIDE DEF t
  <2>3. t = <<>> <=> Len(q) = 1
    <3>1. t = <<>> <=> Len(t) = 0
      BY <2>1, EmptySeq
    <3> QED BY <1>0, <2>1, <3>1
  <2> QED BY <1>0, <2>1, <2>2, <2>3
<1> HIDE DEF t
<1>2. IsInjective(t)
  <2>1. SUFFICES ASSUME NEW a \in 1..Len(q) - 1, NEW b \in 1..Len(q) - 1, t[a] = t[b]
                 PROVE  a = b
    BY <1>1 DEF IsInjective
  <2>2. a + 1 \in 1..Len(q) /\ b + 1 \in 1..Len(q) /\ q[a + 1] = q[b + 1]
    BY <1>1, <2>1
  <2>3. a + 1 = b + 1
    BY <1>1, <2>2 DEF IsInjective
  <2> QED BY <2>3
<1>3. ASSUME NEW x \in Range(t) PROVE x \in Range(q) \ {q[1]}
  <2>1. PICK i \in 1..Len(q) - 1 : x = q[i + 1]
    BY <1>1, <1>3 DEF Range
  <2>2. i + 1 \in 1..Len(q) /\ 1 \in 1..Len(q) /\ i + 1 # 1
    BY <1>1
  <2>3. x # q[1]
    BY <1>1, <2>1, <2>2 DEF IsInjective
  <2> QED BY <1>1, <2>1, <2>2, <2>3 DEF Range
<1>4. ASSUME NEW x \in Range(q) \ {q[1]} PROVE x \in Range(t)
  <2>1. PICK i \in 2..Len(q) : x = q[i]
    BY <1>1, <1>4 DEF Range
  <2>2. i - 1 \in 1..Len(q) - 1 /\ t[i - 1] = x
    BY <1>1, <2>1
  <2> QED BY <1>1, <2>2 DEF Range
<1>5. q[1] \in Range(q)
  BY <1>1 DEF Range
<1> QED BY <1>1, <1>2, <1>3, <1>4, <1>5 DEF t

(* Taking the k-th element out. *)
Without(q, k) == [i \in 1..Len(q) - 1 |-> q[IF i < k THEN i ELSE i + 1]]

LEMMA RemoveFacts ==
  ASSUME NEW S, NEW q \in Seq(S), IsInjective(q), NEW k \in DOMAIN q
  PROVE  /\ Without(q, k) \in Seq(S) /\ Len(Without(q, k)) = Len(q) - 1 /\ Len(q) \in Nat
         /\ \A i \in 1..Len(Without(q, k)) :
              Without(q, k)[i] = IF i < k THEN q[i] ELSE q[i + 1]
         /\ Range(Without(q, k)) = Range(q) \ {q[k]}
         /\ IsInjective(Without(q, k))
<1> DEFINE t == Without(q, k)
<1>0. t = [i \in 1..Len(q) - 1 |-> q[IF i < k THEN i ELSE i + 1]]
  BY DEF Without
<1> HIDE DEF t
<1>1. Len(q) \in Nat \ {0} /\ DOMAIN q = 1..Len(q) /\ k \in 1..Len(q)
  BY LenProperties, EmptySeq
<1>2. \A i \in 1..Len(q) - 1 : i \in 1..Len(q) /\ i + 1 \in 1..Len(q)
  BY <1>1
<1>3. t \in Seq(S) /\ Len(t) = Len(q) - 1 /\ DOMAIN t = 1..Len(q) - 1
  <2>1. t \in [1..Len(q) - 1 -> S]
    BY <1>0, <1>1, <1>2
  <2>2. Len(q) - 1 \in Nat
    BY <1>1
  <2> QED BY <1>0, <2>1, <2>2, IsASeq, LenProperties
<1>4. \A i \in 1..Len(t) : t[i] = IF i < k THEN q[i] ELSE q[i + 1]
  BY <1>0, <1>3
<1>5. IsInjective(t)
  <2>1. SUFFICES ASSUME NEW a \in 1..Len(q) - 1, NEW b \in 1..Len(q) - 1, t[a] = t[b]
                 PROVE  a = b
    BY <1>3 DEF IsInjective
  <2> DEFINE ix(i) == IF i < k THEN i ELSE i + 1
  <2>2. ix(a) \in 1..Len(q) /\ ix(b) \in 1..Len(q) /\ q[ix(a)] = q[ix(b)]
    BY <1>2, <1>3, <1>4, <2>1
  <2>3. ix(a) = ix(b)
    BY <1>1, <2>2 DEF IsInjective
  <2> QED BY <1>1, <2>3
<1>6. ASSUME NEW x \in Range(t) PROVE x \in Range(q) \ {q[k]}
  <2>1. PICK i \in 1..Len(q) - 1 : x = t[i]
    BY <1>3, <1>6 DEF Range
  <2>2. PICK m \in 1..Len(q) : x = q[m] /\ m # k
    BY <1>1, <1>2, <1>3, <1>4, <2>1
  <2> QED BY <1>1, <2>2 DEF Range, IsInjective
<1>7. ASSUME NEW x \in Range(q) \ {q[k]} PROVE x \in Range(t)
  <2>1. PICK m \in 1..Len(q) : x = q[m] /\ m # k
    BY <1>1, <1>7 DEF Range
  <2>2. CASE m < k
    <3>1. m \in 1..Len(q) - 1 /\ t[m] = x
      BY <1>1, <1>3, <1>4, <2>1, <2>2
    <3> QED BY <1>3, <3>1 DEF Range
  <2>3. CASE m > k
    <3>1. m - 1 \in 1..Len(q) - 1 /\ ~(m - 1 < k) /\ (m - 1) + 1 = m
      BY <1>1, <2>1, <2>3
    <3>2. t[m - 1] = x
      BY <1>3, <1>4, <2>1, <3>1
    <3> QED BY <1>3, <3>1, <3>2 DEF Range
  <2> QED BY <1>1, <2>1, <2>2, <2>3
<1> QED BY <1>1, <1>3, <1>4, <1>5, <1>6, <1>7 DEF t

-----------------------------------------------------------------------------
(* A set of numbers that is not empty has a least element: that of the     *)
(* smallest interval 0 .. n with n in the set.                             *)
LEMMA HasLeast ==
  ASSUME NEW S, S \subseteq Nat, S # {}
  PROVE  \E x \in S : \A y \in S : x <= y
<1> DEFINE R == StrictSubsetOrdering(Nat)
           T == {0 .. n : n \in S}
<1>1. T \subseteq FiniteSubsetsOf(Nat) /\ T # {}
  <2>1. \A n \in Nat : IsFiniteSet(0 .. n) /\ 0 .. n \subseteq Nat
    BY FS_Interval
  <2> QED BY <2>1 DEF FiniteSubsetsOf
<1>2. \E t \in T : \A u \in T : ~(<<u, t>> \in R)
  <2> HIDE DEF T
  <2> QED BY <1>1, WFMin, FS_StrictSubsetOrderingWellFounded, Zenon
<1>3. PICK x \in S : \A y \in S : <<0 .. y, 0 .. x>> \notin R
  BY <1>2
<1>4. \A y \in S : x <= y
  <2>1. SUFFICES ASSUME NEW y \in S, y < x PROVE FALSE
    OBVIOUS
  <2>2. 0 .. y \subseteq 0 .. x /\ x \in 0 .. x /\ x \notin 0 .. y
    BY <2>1
  <2>3. <<0 .. y, 0 .. x>> \in R
    BY <2>2 DEF StrictSubsetOrdering
  <2> QED BY <1>3, <2>3
<1> QED BY <1>4

(* How many elements of a set are not above one of them: what the order of *)
(* the "$" of a message, or of any finite set of numbers, is counted by.   *)
Below(T, i) == {j \in T : j <= i}

LEMMA BelowFacts ==
  ASSUME NEW T, T \subseteq Nat, IsFiniteSet(T)
  PROVE  /\ \A i \in T : IsFiniteSet(Below(T, i)) /\ Cardinality(Below(T, i)) \in Nat
         /\ \A i, j \in T : i < j => Cardinality(Below(T, i)) < Cardinality(Below(T, j))
<1>1. ASSUME NEW i \in T PROVE IsFiniteSet(Below(T, i)) /\ Cardinality(Below(T, i)) \in Nat
  <2>1. Below(T, i) \in SUBSET T
    BY DEF Below
  <2> QED BY <2>1, FS_Subset, FS_CardinalityType
<1>2. ASSUME NEW i \in T, NEW j \in T, i < j
      PROVE  Cardinality(Below(T, i)) < Cardinality(Below(T, j))
  <2>1. IsFiniteSet(Below(T, j) \ {j}) /\ Cardinality(Below(T, j) \ {j}) = Cardinality(Below(T, j)) - 1
    <3>1. j \in Below(T, j)
      BY DEF Below
    <3> QED BY <1>1, <3>1, FS_RemoveElement
  <2>2. Below(T, i) \in SUBSET (Below(T, j) \ {j})
    <3>1. ASSUME NEW x \in Below(T, i) PROVE x \in T /\ x <= j /\ x # j
      <4>1. x \in T /\ x <= i
        BY DEF Below
      <4>2. x \in Nat /\ i \in Nat /\ j \in Nat
        BY <4>1
      <4> QED BY <1>2, <4>1, <4>2
    <3> QED BY <3>1 DEF Below
  <2>3. Cardinality(Below(T, i)) <= Cardinality(Below(T, j) \ {j})
    BY <2>1, <2>2, FS_Subset
  <2> QED BY <1>1, <2>1, <2>3
<1> QED BY <1>1, <1>2

(* Counting up: the first element counts 1, and the next one more.         *)
LEMMA FirstCounts ==
  ASSUME NEW T, T \subseteq Nat, NEW n \in T, \A j \in T : n <= j
  PROVE  Cardinality(Below(T, n)) = 1
<1>1. Below(T, n) = {n}
  <2>1. ASSUME NEW x \in T PROVE x <= n <=> x = n
    <3>1. x \in Nat /\ n \in Nat /\ n <= x
      OBVIOUS
    <3> QED BY <3>1
  <2> QED BY <2>1 DEF Below
<1> QED BY <1>1, FS_Singleton

LEMMA NextCounts ==
  ASSUME NEW T, T \subseteq Nat, IsFiniteSet(T), NEW i \in T, NEW n \in T, i < n,
         \A j \in T : j <= i \/ n <= j
  PROVE  Cardinality(Below(T, n)) = Cardinality(Below(T, i)) + 1
<1>1. Below(T, n) = Below(T, i) \cup {n} /\ n \notin Below(T, i)
  <2>1. ASSUME NEW x \in T PROVE (x <= n <=> x <= i \/ x = n) /\ ~(n <= i)
    <3>1. x \in Nat /\ n \in Nat /\ i \in Nat /\ (x <= i \/ n <= x)
      OBVIOUS
    <3> QED BY <3>1
  <2> QED BY <2>1 DEF Below
<1>2. IsFiniteSet(Below(T, i))
  BY BelowFacts
<1> QED BY <1>1, <1>2, FS_AddElement

(* Below the size of the set there is a next one.                          *)
LEMMA HasNext ==
  ASSUME NEW T, T \subseteq Nat, IsFiniteSet(T), NEW i \in T,
         Cardinality(Below(T, i)) < Cardinality(T)
  PROVE  \E n \in T : Cardinality(Below(T, n)) = Cardinality(Below(T, i)) + 1
<1> DEFINE above == {j \in T : i < j}
<1>1. above # {}
  <2>1. SUFFICES ASSUME above = {} PROVE FALSE
    OBVIOUS
  <2>2. Below(T, i) = T
    <3>1. ASSUME NEW x \in T PROVE x <= i
      <4>1. x \in Nat /\ i \in Nat /\ ~(i < x)
        BY <2>1
      <4> QED BY <4>1
    <3> QED BY <3>1 DEF Below
  <2>3. Cardinality(T) \in Nat
    BY FS_CardinalityType
  <2> QED BY <2>2, <2>3
<1>2. above \subseteq Nat
  OBVIOUS
<1>3. PICK n \in above : \A j \in above : n <= j
  <2> HIDE DEF above
  <2> QED BY <1>1, <1>2, HasLeast
<1>4. n \in T /\ i < n /\ \A j \in T : j <= i \/ n <= j
  BY <1>3
<1> QED BY <1>4, NextCounts
=============================================================================
