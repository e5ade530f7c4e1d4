---------------------------- MODULE ProofLemmas ----------------------------
(***************************************************************************)
(* Facts the proofs share: how many threads of a finite set T are at one   *)
(* of the labels L, when f says where each thread is; what becomes of      *)
(* sequences when their parts move; least and greatest elements; and       *)
(* induction for a set of numbers.                                         *)
(***************************************************************************)
EXTENDS Integers, FiniteSets, Sequences, FiniteSetsExt, FiniteSetTheorems, SequenceTheorems,
        WellFoundedInduction, TLAPS

(* The number is a natural number, and positive when a thread is there.    *)
LEMMA CountingType ==
  ASSUME NEW T, IsFiniteSet(T), NEW f, NEW L
  PROVE  /\ IsFiniteSet({u \in T : f[u] \in L})
         /\ Cardinality({u \in T : f[u] \in L}) \in Nat
         /\ \A t \in T : f[t] \in L => Cardinality({u \in T : f[u] \in L}) > 0
  <1> DEFINE A == {u \in T : f[u] \in L}
  <1>1. IsFiniteSet(A)
    BY FS_Subset
  <1>2. Cardinality(A) \in Nat
    BY <1>1, FS_CardinalityType
  <1>3. ASSUME NEW t \in T, f[t] \in L
        PROVE  Cardinality(A) > 0
    <2>1. A # {}
      BY <1>3
    <2>2. Cardinality(A) # 0
      BY <1>1, <2>1, FS_EmptySet
    <2> QED
      BY <1>2, <2>2
  <1> QED
    BY <1>1, <1>2, <1>3

(* One thread of T moves from f[t] to g[t], the others stay.               *)
LEMMA CountingMove ==
  ASSUME NEW T, IsFiniteSet(T), NEW f, NEW g, NEW L, NEW t \in T,
         \A u \in T \ {t} : g[u] = f[u]
  PROVE  Cardinality({u \in T : g[u] \in L}) =
           Cardinality({u \in T : f[u] \in L})
             + (IF g[t] \in L THEN 1 ELSE 0) - (IF f[t] \in L THEN 1 ELSE 0)
  <1> DEFINE A == {u \in T : f[u] \in L}
             B == {u \in T : g[u] \in L}
  <1>1. B = IF g[t] \in L THEN A \cup {t} ELSE A \ {t}
    OBVIOUS
  <1>2. t \in A <=> f[t] \in L
    OBVIOUS
  <1>3. IsFiniteSet(A) /\ Cardinality(A) \in Nat
    BY CountingType
  <1>4. Cardinality(A \cup {t}) = IF t \in A THEN Cardinality(A) ELSE Cardinality(A) + 1
    BY <1>3, FS_AddElement
  <1>5. Cardinality(A \ {t}) = IF t \in A THEN Cardinality(A) - 1 ELSE Cardinality(A)
    BY <1>3, FS_RemoveElement
  <1> HIDE DEF A, B
  <1>6. Cardinality(B) = Cardinality(A) + (IF g[t] \in L THEN 1 ELSE 0)
                                        - (IF f[t] \in L THEN 1 ELSE 0)
    BY <1>1, <1>2, <1>3, <1>4, <1>5
  <1> QED
    BY <1>6 DEF A, B

(* The same of the number under a name, which the provers match at once.   *)
Counted(T, f, L) == Cardinality({u \in T : f[u] \in L})

(* A number of threads is a natural number.                                *)
LEMMA CountedType ==
  ASSUME NEW T, IsFiniteSet(T), NEW f, NEW L
  PROVE  Counted(T, f, L) \in Nat
  <1> DEFINE A == {u \in T : f[u] \in L}
  <1>1. IsFiniteSet(A)
    BY FS_Subset
  <1>2. Cardinality(A) \in Nat
    BY <1>1, FS_CardinalityType
  <1> QED
    BY <1>2 DEF Counted

(* It changes by the thread that moves.                                    *)
LEMMA CountedMove ==
  ASSUME NEW T, IsFiniteSet(T), NEW f, NEW g, NEW L, NEW t \in T,
         \A u \in T \ {t} : g[u] = f[u]
  PROVE  Counted(T, g, L) =
           Counted(T, f, L)
             + (IF g[t] \in L THEN 1 ELSE 0) - (IF f[t] \in L THEN 1 ELSE 0)
  <1>1. Cardinality({u \in T : g[u] \in L}) =
          Cardinality({u \in T : f[u] \in L})
            + (IF g[t] \in L THEN 1 ELSE 0) - (IF f[t] \in L THEN 1 ELSE 0)
    BY CountingMove
  <1> QED
    BY <1>1 DEF Counted

(* No thread of T moves.                                                   *)
LEMMA CountingStay ==
  ASSUME NEW T, NEW f, NEW g, NEW L, \A u \in T : g[u] = f[u]
  PROVE  Cardinality({u \in T : g[u] \in L}) = Cardinality({u \in T : f[u] \in L})
  <1>1. {u \in T : g[u] \in L} = {u \in T : f[u] \in L}
    OBVIOUS
  <1> QED
    BY <1>1
-----------------------------------------------------------------------------
(* Concatenation under a name: the provers take \o apart into functions,   *)
(* and the laws below are about it as a whole.                             *)
Cat(s, t) == s \o t

(* The elements stay elements.                                             *)
LEMMA CatType ==
  ASSUME NEW S, NEW s \in Seq(S), NEW t \in Seq(S)
  PROVE  Cat(s, t) \in Seq(S)
  BY ConcatProperties DEF Cat

(* The elements of a concatenation.                                        *)
LEMMA CatElements ==
  ASSUME NEW S, NEW s \in Seq(S), NEW t \in Seq(S)
  PROVE  /\ Len(Cat(s, t)) = Len(s) + Len(t)
         /\ \A i \in 1 .. Len(s) : Cat(s, t)[i] = s[i]
         /\ \A i \in 1 .. Len(t) : Cat(s, t)[Len(s) + i] = t[i]
  <1>1. Len(s) \in Nat /\ Len(t) \in Nat
    BY LenProperties
  <1>2. Len(s \o t) = Len(s) + Len(t)
    BY ConcatProperties
  <1>3. \A i \in 1 .. Len(s) + Len(t) :
          (s \o t)[i] = IF i <= Len(s) THEN s[i] ELSE t[i - Len(s)]
    BY ConcatProperties
  <1>4. \A i \in 1 .. Len(s) : (s \o t)[i] = s[i]
    BY <1>1, <1>3
  <1>5. ASSUME NEW i \in 1 .. Len(t) PROVE (s \o t)[Len(s) + i] = t[i]
    <2>1. /\ Len(s) + i \in 1 .. Len(s) + Len(t) /\ ~ (Len(s) + i <= Len(s))
          /\ Len(s) + i - Len(s) = i
      BY <1>1
    <2> QED
      BY <1>3, <2>1
  <1> QED
    BY <1>2, <1>4, <1>5 DEF Cat

(* Nothing changes when nothing is added.                                  *)
LEMMA CatEmpty ==
  ASSUME NEW S, NEW s \in Seq(S)
  PROVE  Cat(s, <<>>) = s /\ Cat(<<>>, s) = s
  BY ConcatEmptySeq DEF Cat

(* The order of two concatenations does not matter.                        *)
LEMMA CatAssociative ==
  ASSUME NEW S, NEW s \in Seq(S), NEW t \in Seq(S), NEW u \in Seq(S)
  PROVE  Cat(Cat(s, t), u) = Cat(s, Cat(t, u))
  BY ConcatAssociative DEF Cat

(* Equal concatenations stay equal when the same is appended to both.      *)
LEMMA CatBoth ==
  ASSUME NEW S, NEW a \in Seq(S), NEW b \in Seq(S), NEW c \in Seq(S), NEW d \in Seq(S),
         NEW e \in Seq(S), Cat(a, b) = Cat(c, d)
  PROVE  Cat(a, Cat(b, e)) = Cat(c, Cat(d, e))
  BY CatAssociative

(* An element moves from one part to the next: to the end of a queue, or   *)
(* from its front.                                                         *)
Added(q, v) == Append(q, v)
One(v) == <<v>>

(* A value added stays in the sequences.                                   *)
LEMMA AddedType ==
  ASSUME NEW S, NEW q \in Seq(S), NEW v \in S
  PROVE  Added(q, v) \in Seq(S) /\ One(v) \in Seq(S)
  BY AppendProperties DEF Added, One

(* A concatenation with one value.                                         *)
LEMMA CatOne ==
  ASSUME NEW S, NEW s \in Seq(S), NEW v \in S
  PROVE  /\ Cat(s, One(v)) \in Seq(S) /\ Len(Cat(s, One(v))) = Len(s) + 1
         /\ \A i \in 1 .. Len(s) : Cat(s, One(v))[i] = s[i]
         /\ Cat(s, One(v))[Len(s) + 1] = v
  <1>1. Cat(s, One(v)) = Append(s, v)
    BY AppendIsConcat DEF Cat, One
  <1>2. /\ Append(s, v) \in Seq(S) /\ Len(Append(s, v)) = Len(s) + 1
        /\ \A i \in 1 .. Len(s) : Append(s, v)[i] = s[i]
        /\ Append(s, v)[Len(s) + 1] = v
    BY AppendProperties
  <1> QED
    BY <1>1, <1>2

(* A value appended to the second part is appended to the whole.           *)
LEMMA CatAppend ==
  ASSUME NEW S, NEW x \in Seq(S), NEW q \in Seq(S), NEW v \in S
  PROVE  Cat(Cat(x, Added(q, v)), <<>>) = Cat(Cat(x, q), One(v))
  <1>1. Added(q, v) \in Seq(S) /\ One(v) \in Seq(S)
    BY AddedType
  <1>2. Added(q, v) = Cat(q, One(v))
    BY AppendIsConcat DEF Cat, Added, One
  <1>3. Cat(Cat(x, q), One(v)) = Cat(x, Cat(q, One(v)))
    BY <1>1, CatAssociative
  <1>4. Cat(x, Added(q, v)) \in Seq(S)
    BY <1>1, CatType
  <1> QED
    BY <1>2, <1>3, <1>4, CatEmpty

(* The head of the second part may move to the end of the first.           *)
LEMMA CatHead ==
  ASSUME NEW S, NEW x \in Seq(S), NEW q \in Seq(S), q # <<>>
  PROVE  Cat(Cat(x, <<Head(q)>>), Tail(q)) = Cat(Cat(x, <<>>), q)
  <1> DEFINE first == <<Head(q)>>
             rest == Tail(q)
  <1>1. first \in Seq(S) /\ rest \in Seq(S)
    BY HeadTailProperties
  <1>2. q = Cat(first, rest)
    BY HeadTailProperties DEF Cat
  <1> HIDE DEF first, rest
  <1>3. Cat(Cat(x, first), rest) = Cat(x, Cat(first, rest))
    BY <1>1, CatAssociative
  <1>4. Cat(x, <<>>) = x
    BY CatEmpty
  <1> QED
    BY <1>2, <1>3, <1>4 DEF first, rest

(* A sequence is its first k elements and the rest.                        *)
LEMMA CatSplit ==
  ASSUME NEW S, NEW s \in Seq(S), NEW k \in 1 .. Len(s)
  PROVE  /\ SubSeq(s, 1, k) \in Seq(S) /\ SubSeq(s, k + 1, Len(s)) \in Seq(S)
         /\ s = Cat(SubSeq(s, 1, k), SubSeq(s, k + 1, Len(s)))
  <1>1. Len(s) \in Nat /\ \A i \in 1 .. Len(s) : s[i] \in S
    OBVIOUS
  <1>2. k \in Nat /\ 1 <= k /\ k <= Len(s)
    BY <1>1
  <1>3. SubSeq(s, 1, k) \in Seq(S)
    BY <1>1, <1>2, SubSeqProperties
  <1>4. SubSeq(s, k + 1, Len(s)) \in Seq(S)
    BY <1>1, <1>2, SubSeqProperties
  <1>5. SubSeq(s, 1, k) \o SubSeq(s, k + 1, Len(s)) = SubSeq(s, 1, Len(s))
    BY <1>1, <1>2, ConcatAdjacentSubSeq
  <1>6. SubSeq(s, 1, Len(s)) = s
    BY SubSeqFull
  <1> QED
    BY <1>3, <1>4, <1>5, <1>6 DEF Cat
-----------------------------------------------------------------------------
(* The least element of a set of numbers.                                  *)
LEMMA MinIs ==
  ASSUME NEW S \in SUBSET Int, NEW m \in S, \A y \in S : m <= y
  PROVE  Min(S) = m
  <1>1. PICK x : x = Min(S)
    OBVIOUS
  <1>2. x \in S /\ \A y \in S : x <= y
    BY <1>1 DEF Min
  <1>3. x <= m /\ m <= x /\ x \in Int /\ m \in Int
    BY <1>2
  <1> QED
    BY <1>1, <1>3

(* The lesser of two numbers.                                              *)
LEMMA MinOfTwo ==
  ASSUME NEW a \in Int, NEW b \in Int
  PROVE  Min({a, b}) = IF a <= b THEN a ELSE b
  <1> DEFINE S == {a, b}
  <1>1. S \in SUBSET Int /\ a \in S /\ b \in S
    OBVIOUS
  <1>2. CASE a <= b
    <2>1. \A y \in S : a <= y
      BY <1>2
    <2> HIDE DEF S
    <2>2. Min(S) = a
      BY <1>1, <2>1, MinIs
    <2> QED
      BY <1>2, <2>2 DEF S
  <1>3. CASE ~ (a <= b)
    <2>1. \A y \in S : b <= y
      BY <1>3
    <2> HIDE DEF S
    <2>2. Min(S) = b
      BY <1>1, <2>1, MinIs
    <2> QED
      BY <1>3, <2>2 DEF S
  <1> QED
    BY <1>2, <1>3
-----------------------------------------------------------------------------
(* Induction over the natural numbers, for a set of them.                  *)
LEMMA NatSetInduction ==
  ASSUME NEW S, 0 \in S, \A n \in Nat : n \in S => n + 1 \in S
  PROVE  \A n \in Nat : n \in S
  <1> DEFINE R == OpToRel(<, Nat)
             T == Nat \ S
  <1>1. SUFFICES ASSUME T # {} PROVE FALSE
    OBVIOUS
  <1>2. IsWellFoundedOn(R, Nat)
    BY NatLessThanWellFounded
  <1>3. T \subseteq Nat
    OBVIOUS
  <1> HIDE DEF R, T
  <1>4. PICK x \in T : \A y \in T : ~ (<<y, x>> \in R)
    BY <1>1, <1>2, <1>3, WFMin
  <1>5. x \in Nat /\ x # 0 /\ x - 1 \in Nat /\ x - 1 < x /\ (x - 1) + 1 = x /\ x \notin S
    BY DEF T
  <1>6. <<x - 1, x>> \in R
    BY <1>5 DEF R, OpToRel
  <1>7. x - 1 \in S
    BY <1>4, <1>5, <1>6 DEF T
  <1> QED
    BY <1>5, <1>7

-----------------------------------------------------------------------------
(* The least and the greatest element of a set of numbers.                 *)
LEMMA MinExists ==
  ASSUME NEW S \in SUBSET Nat, S # {}
  PROVE  Min(S) \in S /\ \A y \in S : Min(S) <= y
  <1> DEFINE R == OpToRel(<, Nat)
  <1>1. IsWellFoundedOn(R, Nat)
    BY NatLessThanWellFounded
  <1> HIDE DEF R
  <1>2. PICK x \in S : \A y \in S : ~ (<<y, x>> \in R)
    BY <1>1, WFMin
  <1>3. \A y \in S : x <= y
    <2>1. ASSUME NEW y \in S, ~ (x <= y) PROVE FALSE
      <3>1. x \in Nat /\ y \in Nat /\ y < x
        BY <2>1
      <3>2. <<y, x>> \in R
        BY <3>1 DEF R, OpToRel
      <3> QED
        BY <1>2, <3>2
    <2> QED
      BY <2>1
  <1>4. Min(S) = x
    BY <1>3, MinIs
  <1> QED
    BY <1>3, <1>4

(* The greatest element is Max.                                            *)
LEMMA MaxIs ==
  ASSUME NEW S \in SUBSET Int, NEW m \in S, \A y \in S : y <= m
  PROVE  Max(S) = m
  <1>1. PICK x : x = Max(S)
    OBVIOUS
  <1>2. x \in S /\ \A y \in S : y <= x
    BY <1>1 DEF Max
  <1>3. x <= m /\ m <= x /\ x \in Int /\ m \in Int
    BY <1>2
  <1> QED
    BY <1>1, <1>3

(* A bounded set of numbers has a greatest element.                        *)
LEMMA MaxExists ==
  ASSUME NEW n \in Nat, NEW S, S \subseteq 0 .. n, S # {}
  PROVE  Max(S) \in S /\ \A y \in S : y <= Max(S)
  <1> DEFINE T == {n - x : x \in S}
  <1>1. T \in SUBSET Nat /\ T # {}
    <2>1. ASSUME NEW x \in S PROVE n - x \in Nat
      <3>1. x \in 0 .. n
        OBVIOUS
      <3> QED
        BY <3>1
    <2>2. PICK x : x \in S
      OBVIOUS
    <2>3. n - x \in T
      BY <2>2
    <2> QED
      BY <2>1, <2>3
  <1>2. PICK k : k = Min(T)
    OBVIOUS
  <1>3. k \in T /\ \A y \in T : k <= y
    <2> HIDE DEF T
    <2> QED
      BY <1>1, <1>2, MinExists
  <1>4. PICK x \in S : k = n - x
    BY <1>3
  <1>5. ASSUME NEW y \in S PROVE y <= x
    <2>1. n - y \in T
      OBVIOUS
    <2>2. n - x <= n - y
      BY <1>3, <1>4, <2>1
    <2> QED
      BY <2>2
  <1>6. S \in SUBSET Int
    OBVIOUS
  <1>7. Max(S) = x
    BY <1>5, <1>6, MaxIs
  <1> QED
    BY <1>5, <1>7
=============================================================================
