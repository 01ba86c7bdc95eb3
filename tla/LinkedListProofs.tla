-------------------------- MODULE LinkedListProofs --------------------------
(***************************************************************************)
(* What ListFrom computes, and the lemmas about sequences that the proofs  *)
(* of the two queues share.  A sequence is a function from 1 .. m here.    *)
(***************************************************************************)
EXTENDS LinkedLists, Sequences, SequenceTheorems, FiniteSetTheorems,
        WellFoundedInduction, TLAPS

\* A set of numbers that is not empty has a least element: the subsets of
\* Nat that are finite are well-founded, and k < m if 0 .. k is a part of
\* 0 .. m.  This is what the inductions below rest on.
LEMMA LeastElement ==
    ASSUME NEW T \in SUBSET Nat, T # {}
    PROVE  \E m \in T : \A k \in T : m <= k
<1> DEFINE R == StrictSubsetOrdering(Nat)
           F == FiniteSubsetsOf(Nat)
           U == {0 .. m : m \in T}
<1>1. IsWellFoundedOn(R, F)
  BY FS_StrictSubsetOrderingWellFounded
<1>2. U \subseteq F /\ U # {}
  <2>1. ASSUME NEW m \in T
        PROVE  0 .. m \in F
    <3>1. IsFiniteSet(0 .. m)
      BY FS_Interval
    <3> QED
      BY <3>1 DEF FiniteSubsetsOf
  <2> QED
    BY <2>1
<1>3. \E x \in U : \A y \in U : ~(<<y, x>> \in R)
  <2> HIDE DEF R, F, U
  <2> QED
    BY <1>1, <1>2, WFMin
<1>4. PICK m \in T : \A k \in T : ~(<<0 .. k, 0 .. m>> \in R)
  BY <1>3
<1>5. ASSUME NEW k \in T
      PROVE  m <= k
  <2>1. SUFFICES ASSUME k < m PROVE FALSE
    OBVIOUS
  <2>2. 0 .. k \subseteq 0 .. m /\ 0 .. k # 0 .. m /\ 0 .. m \subseteq Nat
    <3>1. m \in 0 .. m /\ m \notin 0 .. k
      BY <2>1
    <3> QED
      BY <2>1, <3>1
  <2>3. <<0 .. k, 0 .. m>> \in R
    BY <2>2 DEF StrictSubsetOrdering
  <2> QED
    BY <1>4, <2>3
<1> QED
  BY <1>5

\* The function that follows `step` from `first` on: what the recursive
\* definition inside ListFrom stands for.
Steps(first, step, bound) ==
    LET node[k \in 0 .. bound] == IF k = 0 THEN first ELSE step[node[k - 1]]
    IN  node

\* The naturals below m are m in number.
LEMMA CountBelow ==
    ASSUME NEW m \in Nat
    PROVE  Cardinality(0 .. m - 1) = m
<1>1. 0 \in Int /\ m - 1 \in Int
  OBVIOUS
<1>2. Cardinality(0 .. m - 1) = IF 0 > m - 1 THEN 0 ELSE m - 1 - 0 + 1
  BY ONLY <1>1, FS_Interval
<1> QED
  BY <1>2

LEMMA StepsUnfold ==
    ASSUME NEW first, NEW step, NEW bound \in Nat
    PROVE  Steps(first, step, bound) =
              [k \in 0 .. bound |->
                  IF k = 0 THEN first
                           ELSE step[Steps(first, step, bound)[k - 1]]]
<1> DEFINE Good(f, n) == f = [k \in 0 .. n |-> IF k = 0 THEN first
                                                        ELSE step[f[k - 1]]]
           Bad == {n \in Nat : ~ \E f : Good(f, n)}
<1>1. Steps(first, step, bound) = CHOOSE f : Good(f, bound)
  BY DEF Steps
<1>2. Bad = {}
  <2>1. SUFFICES ASSUME Bad # {} PROVE FALSE
    OBVIOUS
  <2>2. PICK m \in Bad : \A k \in Bad : m <= k
    BY <2>1, LeastElement
  <2>3. m # 0
    <3>1. Good([k \in 0 .. 0 |-> first], 0)
      OBVIOUS
    <3> QED
      BY <2>2, <3>1
  <2>4. PICK f : Good(f, m - 1)
    <3>1. m - 1 \in Nat /\ m - 1 \notin Bad
      <4>1. m \in Nat
        OBVIOUS
      <4> HIDE DEF Bad
      <4> QED
        BY <2>2, <2>3, <4>1
    <3> QED
      BY <3>1
  <2>5. Good([k \in 0 .. m |-> IF k = m THEN step[f[m - 1]] ELSE f[k]], m)
    BY <2>2, <2>3, <2>4
  <2> QED
    BY <2>2, <2>5
<1> HIDE DEF Good
<1>3. \E f : Good(f, bound)
  BY <1>2
<1>4. Good(Steps(first, step, bound), bound)
  BY <1>1, <1>3
<1> QED
  BY <1>4 DEF Good

\* s is the list of the m nodes from `first` on.
IsList(s, m, first, link, null) ==
    /\ first = IF m = 0 THEN null ELSE s[1]
    /\ \A i \in 1 .. m : link[s[i]] = IF i = m THEN null ELSE s[i + 1]

\* A list that is not too long is what ListFrom makes of its first node.
LEMMA ListFromIs ==
    ASSUME NEW A, NEW null, null \notin A,
           NEW first, NEW link, DOMAIN link = A,
           NEW bound \in Nat, NEW m \in 0 .. bound, NEW s \in [1 .. m -> A],
           IsList(s, m, first, link, null)
    PROVE  ListFrom(first, link, null, bound) = s
<1> DEFINE step == [a \in DOMAIN link \cup {null} |->
                        IF a = null THEN null ELSE link[a]]
           node == Steps(first, step, bound)
           At(k) == IF k < m THEN s[k + 1] ELSE null
           Wrong == {k \in 0 .. bound : node[k] # At(k)}
<1>1. node = [k \in 0 .. bound |-> IF k = 0 THEN first ELSE step[node[k - 1]]]
  <2> HIDE DEF step
  <2> QED
    BY StepsUnfold
<1>2. \A k \in 0 .. bound : node[k] = IF k = 0 THEN first ELSE step[node[k - 1]]
  <2> HIDE DEF node, step
  <2> QED
    BY <1>1
<1>3. step[null] = null /\ \A a \in A : step[a] = link[a]
  OBVIOUS
<1> HIDE DEF node, step
<1>4. node[0] = At(0)
  BY <1>2 DEF IsList
<1>5. \A k \in 1 .. bound : node[k - 1] = At(k - 1) => node[k] = At(k)
  <2> SUFFICES ASSUME NEW k \in 1 .. bound, node[k - 1] = At(k - 1)
               PROVE  node[k] = At(k)
    OBVIOUS
  <2>1. node[k] = step[At(k - 1)]
    BY <1>2
  <2>2. CASE k <= m
    <3>1. k \in 1 .. m /\ At(k - 1) = s[k] /\ s[k] \in A
      BY <2>2
    <3>2. link[s[k]] = At(k)
      BY <3>1 DEF IsList
    <3> QED
      BY <2>1, <3>1, <3>2, <1>3
  <2>3. CASE ~(k <= m)
    <3>1. At(k - 1) = null /\ At(k) = null
      BY <2>3
    <3> QED
      BY <2>1, <3>1, <1>3
  <2> QED
    BY <2>2, <2>3
<1>6. Wrong = {}
  <2>1. SUFFICES ASSUME Wrong # {} PROVE FALSE
    OBVIOUS
  <2>2. PICK k \in Wrong : \A j \in Wrong : k <= j
    <3>1. Wrong \subseteq Nat
      OBVIOUS
    <3> HIDE DEF Wrong
    <3> QED
      BY <2>1, <3>1, LeastElement
  <2>3. k # 0 /\ k - 1 \in 0 .. bound /\ k - 1 \notin Wrong
    BY <2>2, <1>4
  <2> QED
    BY <2>2, <2>3, <1>5
<1>7. \A k \in 0 .. bound : node[k] = At(k)
  BY <1>6
<1>8. Cardinality({k \in 0 .. bound - 1 : node[k] # null}) = m
  <2>1. {k \in 0 .. bound - 1 : node[k] # null} = 0 .. m - 1
    BY <1>7
  <2>2. Cardinality(0 .. m - 1) = m
    <3>1. m \in Nat
      OBVIOUS
    <3> QED
      BY <3>1, CountBelow
  <2> QED
    BY <2>1, <2>2
<1>9. \A i \in 1 .. m : node[i - 1] = s[i]
  BY <1>7
<1>10. ListFrom(first, link, null, bound) =
          [i \in 1 .. Cardinality({k \in 0 .. bound - 1 : node[k] # null}) |->
              node[i - 1]]
  BY DEF ListFrom, Steps, node, step
<1> QED
  BY <1>8, <1>9, <1>10

\* Where the recursion inside ListFrom is after each step.
Walk(node, first, link, null, bound) ==
    /\ node[0] = first
    /\ \A k \in 1 .. bound :
          /\ node[k - 1] = null => node[k] = null
          /\ node[k - 1] \in DOMAIN link \ {null} => node[k] = link[node[k - 1]]
    /\ ListFrom(first, link, null, bound) =
          [i \in 1 .. Cardinality({k \in 0 .. bound - 1 : node[k] # null}) |->
              node[i - 1]]

LEMMA ListSteps ==
    ASSUME NEW first, NEW link, NEW null, NEW bound \in Nat
    PROVE  \E node : Walk(node, first, link, null, bound)
<1> DEFINE step == [a \in DOMAIN link \cup {null} |->
                        IF a = null THEN null ELSE link[a]]
           node == Steps(first, step, bound)
<1>1. node = [k \in 0 .. bound |-> IF k = 0 THEN first ELSE step[node[k - 1]]]
  <2> HIDE DEF step
  <2> QED
    BY StepsUnfold
<1>2. \A k \in 0 .. bound : node[k] = IF k = 0 THEN first ELSE step[node[k - 1]]
  <2> HIDE DEF node, step
  <2> QED
    BY <1>1
<1>3. step[null] = null /\ \A a \in DOMAIN link : a # null => step[a] = link[a]
  OBVIOUS
<1>4. ListFrom(first, link, null, bound) =
          [i \in 1 .. Cardinality({k \in 0 .. bound - 1 : node[k] # null}) |->
              node[i - 1]]
  BY DEF ListFrom, Steps
<1> HIDE DEF node, step
<1>5. \A k \in 1 .. bound :
          /\ node[k - 1] = null => node[k] = null
          /\ node[k - 1] \in DOMAIN link \ {null} => node[k] = link[node[k - 1]]
  BY <1>2, <1>3
<1>6. node[0] = first
  BY <1>2
<1>7. Walk(node, first, link, null, bound)
  BY <1>4, <1>5, <1>6 DEF Walk
<1> QED
  BY <1>7

\* What holds at 0 and is passed on holds everywhere below a bound.
LEMMA UpToBound ==
    ASSUME NEW bound \in Nat, NEW T \in SUBSET (0 .. bound), 0 \in T,
           \A k \in 1 .. bound : k - 1 \in T => k \in T
    PROVE  T = 0 .. bound
<1> DEFINE Wrong == 0 .. bound \ T
<1>1. Wrong = {}
  <2>1. SUFFICES ASSUME Wrong # {} PROVE FALSE
    OBVIOUS
  <2>2. PICK k \in Wrong : \A j \in Wrong : k <= j
    <3>1. Wrong \subseteq Nat
      OBVIOUS
    <3> HIDE DEF Wrong
    <3> QED
      BY <2>1, <3>1, LeastElement
  <2>3. k \in 1 .. bound /\ k - 1 \in 0 .. bound /\ k - 1 \notin Wrong
    BY <2>2
  <2> QED
    BY <2>2, <2>3
<1> QED
  BY <1>1

\* The list stays in a set that its links do not leave.
LEMMA ListStays ==
    ASSUME NEW null, NEW first, NEW link, NEW bound \in Nat,
           NEW S, S \subseteq DOMAIN link, null \notin S, first \in S,
           \A a \in S : link[a] \in S \cup {null}
    PROVE  LET list == ListFrom(first, link, null, bound)
           IN  \A i \in DOMAIN list : list[i] \in S
<1>0. PICK node : Walk(node, first, link, null, bound)
  BY ListSteps
<1>1. /\ node[0] = first
      /\ \A k \in 1 .. bound :
            /\ node[k - 1] = null => node[k] = null
            /\ node[k - 1] \in DOMAIN link \ {null} => node[k] = link[node[k - 1]]
      /\ ListFrom(first, link, null, bound) =
            [i \in 1 .. Cardinality({k \in 0 .. bound - 1 : node[k] # null}) |->
                node[i - 1]]
  BY <1>0 DEF Walk
<1>2. PICK T : T = {k \in 0 .. bound - 1 : node[k] # null}
  OBVIOUS
<1>3. \A k \in 0 .. bound : node[k] \in S \cup {null}
  <2> DEFINE In == {k \in 0 .. bound : node[k] \in S \cup {null}}
  <2>1. 0 \in In /\ \A k \in 1 .. bound : k - 1 \in In => k \in In
    BY <1>1
  <2>2. In \in SUBSET (0 .. bound)
    OBVIOUS
  <2> HIDE DEF In
  <2>3. In = 0 .. bound
    BY <2>1, <2>2, UpToBound
  <2> QED
    BY <2>3 DEF In
<1>4. ASSUME NEW i \in 1 .. Cardinality(T)
      PROVE  node[i - 1] \in S
  <2>1. IsFiniteSet(0 .. bound - 1) /\ Cardinality(0 .. bound - 1) = bound
    <3>1. 0 \in Int /\ bound - 1 \in Int
      OBVIOUS
    <3> QED
      BY <3>1, FS_Interval, CountBelow
  <2>2. Cardinality(T) \in Nat /\ Cardinality(T) <= bound
    BY <1>2, <2>1, FS_Subset, FS_CardinalityType
  <2>3. i - 1 \in 0 .. bound - 1 /\ i - 1 \in 0 .. bound
    BY <2>2
  <2>4. SUFFICES ASSUME node[i - 1] = null PROVE FALSE
    BY <1>3, <2>3
  <2>5. T \subseteq 0 .. i - 2
    <3> DEFINE Null == {d \in 0 .. bound - (i - 1) : node[i - 1 + d] = null}
    <3>1. bound - (i - 1) \in Nat
      BY <2>3
    <3>2. 0 \in Null /\ \A d \in 1 .. bound - (i - 1) : d - 1 \in Null => d \in Null
      <4>1. 0 \in Null
        BY <2>3, <2>4
      <4>2. ASSUME NEW d \in 1 .. bound - (i - 1), d - 1 \in Null PROVE d \in Null
        <5>1. i - 1 + d \in 1 .. bound /\ (i - 1 + d) - 1 = i - 1 + (d - 1)
          BY <2>3
        <5>2. d - 1 \in 0 .. bound - (i - 1) /\ node[i - 1 + (d - 1)] = null
          BY <4>2
        <5> QED
          BY <5>1, <5>2, <1>1
      <4> QED
        BY <4>1, <4>2
    <3>3. Null \in SUBSET (0 .. bound - (i - 1))
      OBVIOUS
    <3> HIDE DEF Null
    <3>4. Null = 0 .. bound - (i - 1)
      BY <3>1, <3>2, <3>3, UpToBound
    <3>5. ASSUME NEW k \in T, k > i - 2 PROVE FALSE
      <4>1. k \in 0 .. bound - 1 /\ node[k] # null
        BY <1>2
      <4>2. k - (i - 1) \in 0 .. bound - (i - 1) /\ i - 1 + (k - (i - 1)) = k
        BY <3>5, <4>1, <2>3
      <4>3. k - (i - 1) \in Null
        BY <3>4, <4>2
      <4> QED
        BY <4>1, <4>2, <4>3 DEF Null
    <3> QED
      BY <1>2, <3>5
  <2>6. IsFiniteSet(0 .. i - 2) /\ Cardinality(0 .. i - 2) = i - 1
    <3>1. 0 \in Int /\ i - 2 \in Int /\ i - 1 \in Nat /\ (i - 1) - 1 = i - 2
      BY <2>3
    <3>2. IsFiniteSet(0 .. i - 2)
      BY <3>1, FS_Interval
    <3>3. Cardinality(0 .. (i - 1) - 1) = i - 1
      BY <3>1, CountBelow
    <3> QED
      BY <3>1, <3>2, <3>3
  <2>7. Cardinality(T) <= i - 1
    BY <2>5, <2>6, FS_Subset
  <2> QED
    BY <2>2, <2>3, <2>7
<1> QED
  BY <1>1, <1>2, <1>4

\* p is a path of k nodes along the links.
IsPath(p, k, first, link) ==
    /\ p[1] = first
    /\ \A i \in 1 .. k - 1 : link[p[i]] = p[i + 1]

\* The list begins with every path from its first node.
LEMMA ListHasPath ==
    ASSUME NEW A, NEW null, null \notin A,
           NEW first, NEW link, DOMAIN link = A,
           NEW bound \in Nat, NEW k \in 1 .. bound, NEW p \in [1 .. k -> A],
           IsPath(p, k, first, link)
    PROVE  LET list == ListFrom(first, link, null, bound)
           IN  \A i \in 1 .. k : i \in DOMAIN list /\ list[i] = p[i]
<1>0. PICK node : Walk(node, first, link, null, bound)
  BY ListSteps
<1>1. /\ node[0] = first
      /\ \A j \in 1 .. bound :
            /\ node[j - 1] = null => node[j] = null
            /\ node[j - 1] \in DOMAIN link \ {null} => node[j] = link[node[j - 1]]
      /\ ListFrom(first, link, null, bound) =
            [i \in 1 .. Cardinality({j \in 0 .. bound - 1 : node[j] # null}) |->
                node[i - 1]]
  BY <1>0 DEF Walk
<1>2. PICK T : T = {j \in 0 .. bound - 1 : node[j] # null}
  OBVIOUS
<1>3. \A j \in 0 .. k - 1 : node[j] = p[j + 1]
  <2> DEFINE On == {j \in 0 .. k - 1 : node[j] = p[j + 1]}
  <2>1. k - 1 \in Nat /\ 0 \in On
    BY <1>1 DEF IsPath
  <2>2. ASSUME NEW j \in 1 .. k - 1, j - 1 \in On PROVE j \in On
    <3>1. j \in 1 .. bound /\ j \in 1 .. k /\ node[j - 1] = p[j] /\ p[j] \in A
      BY <2>2
    <3>2. node[j] = link[p[j]]
      BY <3>1, <1>1
    <3> QED
      BY <2>2, <3>2 DEF IsPath
  <2>3. On \in SUBSET (0 .. k - 1)
    OBVIOUS
  <2> HIDE DEF On
  <2>4. On = 0 .. k - 1
    BY <2>1, <2>2, <2>3, UpToBound
  <2> QED
    BY <2>4 DEF On
<1>4. 0 .. k - 1 \subseteq T
  BY <1>2, <1>3
<1>5. k <= Cardinality(T) /\ Cardinality(T) \in Nat
  <2>1. IsFiniteSet(0 .. bound - 1)
    BY FS_Interval
  <2>2. IsFiniteSet(T)
    BY <1>2, <2>1, FS_Subset
  <2>3. Cardinality(0 .. k - 1) = k
    BY CountBelow
  <2> QED
    BY <1>4, <2>2, <2>3, FS_Subset, FS_CardinalityType
<1>6. \A i \in 1 .. k : i \in 1 .. Cardinality(T) /\ node[i - 1] = p[i]
  BY <1>3, <1>5
<1> QED
  BY <1>1, <1>2, <1>6

\* No two places of s hold the same.
Distinct(s, m) == \A i, j \in 1 .. m : s[i] = s[j] => i = j

\* Distinct nodes are no more than there are addresses.
LEMMA DistinctBound ==
    ASSUME NEW A, IsFiniteSet(A), NEW m \in Nat, NEW s \in [1 .. m -> A],
           Distinct(s, m)
    PROVE  Cardinality(A) \in Nat /\ m <= Cardinality(A)
<1>1. s \in Injection(1 .. m, A)
  BY DEF Distinct, Injection, IsInjective
<1>2. Cardinality(1 .. m) = m
  BY FS_Interval
<1> QED
  BY <1>1, <1>2, FS_Injection, FS_CardinalityType

\* Sequences by their elements.
LEMMA SeqByElements ==
    ASSUME NEW S, NEW m \in Nat, NEW f \in [1 .. m -> S]
    PROVE  f \in Seq(S) /\ Len(f) = m /\ DOMAIN f = 1 .. m
BY IsASeq, LenProperties

LEMMA AppendByElements ==
    ASSUME NEW S, NEW m \in Nat, NEW f \in [1 .. m -> S], NEW v
    PROVE  Append(f, v) = [i \in 1 .. m + 1 |-> IF i = m + 1 THEN v ELSE f[i]]
<1> DEFINE T == S \cup {v}
<1>1. f \in Seq(T) /\ Len(f) = m
  BY SeqByElements
<1>2. v \in T
  OBVIOUS
<1> HIDE DEF T
<1>3. /\ Append(f, v) \in Seq(T) /\ Len(Append(f, v)) = m + 1
      /\ \A i \in 1 .. m : Append(f, v)[i] = f[i]
      /\ Append(f, v)[m + 1] = v
  BY <1>1, <1>2, AppendProperties
<1> DEFINE app == Append(f, v)
<1>4. app \in [1 .. m + 1 -> T]
  BY <1>3, LenProperties
<1>5. \A i \in 1 .. m + 1 : app[i] = IF i = m + 1 THEN v ELSE f[i]
  BY <1>3
<1>6. app = [i \in 1 .. m + 1 |-> app[i]]
  <2> HIDE DEF app
  <2> QED
    BY <1>4
<1> HIDE DEF app
<1>7. app = [i \in 1 .. m + 1 |-> IF i = m + 1 THEN v ELSE f[i]]
  BY <1>5, <1>6
<1> QED
  BY <1>7 DEF app

LEMMA TailByElements ==
    ASSUME NEW S, NEW m \in Nat \ {0}, NEW f \in [1 .. m -> S]
    PROVE  /\ f # << >> /\ Head(f) = f[1]
           /\ Tail(f) = [i \in 1 .. m - 1 |-> f[i + 1]]
<1>1. f \in Seq(S) /\ Len(f) = m
  BY SeqByElements
<1>2. f # << >>
  BY <1>1
<1>3. /\ Tail(f) \in Seq(S) /\ Len(Tail(f)) = m - 1
      /\ \A i \in 1 .. m - 1 : Tail(f)[i] = f[i + 1]
  BY <1>1, <1>2, HeadTailProperties
<1>4. Tail(f) \in [1 .. m - 1 -> S]
  BY <1>3, LenProperties
<1>5. Head(f) = f[1]
  BY <1>1
<1> QED
  BY <1>2, <1>3, <1>4, <1>5
=============================================================================
