--------------------------- MODULE SequenceLemmas ---------------------------
(***************************************************************************)
(* The facts about sequences and finite sets the proofs rest on: what      *)
(* receiving, sending and waking do to a queue without repetition, what    *)
(* the operators of Lists return, what concatenation keeps, and induction  *)
(* over the numbers and over the parts of a finite set.                    *)
(***************************************************************************)
EXTENDS Lists, SequenceTheorems, FiniteSetTheorems, WellFoundedInduction, TLAPS

\* Receiving takes the head: it is no longer buffered, the others still are.
LEMMA TailFacts ==
  ASSUME NEW S, NEW s \in Seq(S), s # <<>>
  PROVE  /\ Tail(s) \in Seq(S) /\ Len(Tail(s)) = Len(s) - 1
         /\ Head(s) \in S /\ Head(s) \in ToSet(s)
         /\ ToSet(s) = ToSet(Tail(s)) \cup {Head(s)}
         /\ IsInjective(s) => IsInjective(Tail(s)) /\ Head(s) \notin ToSet(Tail(s))
<1> DEFINE t == Tail(s)
<1>1. /\ t \in Seq(S) /\ Len(t) = Len(s) - 1 /\ Len(s) \in Nat \ {0}
      /\ Head(s) = s[1] /\ s[1] \in S
      /\ \A i \in 1..Len(t) : t[i] = s[i + 1]
      /\ DOMAIN t = 1..Len(t) /\ DOMAIN s = 1..Len(s)
  OBVIOUS
<1>2. ToSet(s) = ToSet(t) \cup {Head(s)}
  <2>1. ASSUME NEW i \in DOMAIN s PROVE s[i] \in ToSet(t) \cup {Head(s)}
    <3>1. CASE i = 1 BY <3>1, <1>1
    <3>2. CASE i # 1
      <4>1. i - 1 \in DOMAIN t /\ s[i] = t[i - 1] BY <3>2, <1>1
      <4> QED BY <4>1 DEF ToSet
    <3> QED BY <3>1, <3>2
  <2>2. ASSUME NEW i \in DOMAIN t PROVE t[i] \in ToSet(s)
    <3>1. i + 1 \in DOMAIN s /\ t[i] = s[i + 1] BY <1>1
    <3> QED BY <3>1 DEF ToSet
  <2>3. Head(s) \in ToSet(s) BY <1>1 DEF ToSet
  <2> QED BY <2>1, <2>2, <2>3 DEF ToSet
<1>3. ASSUME IsInjective(s) PROVE IsInjective(t) /\ Head(s) \notin ToSet(t)
  BY <1>1, <1>3 DEF IsInjective, ToSet
<1> QED BY <1>1, <1>2, <1>3

\* Sending appends one element.
LEMMA AppendFacts ==
  ASSUME NEW S, NEW s \in Seq(S), NEW e \in S
  PROVE  /\ Append(s, e) \in Seq(S) /\ Len(Append(s, e)) = Len(s) + 1
         /\ ToSet(Append(s, e)) = ToSet(s) \cup {e}
         /\ IsInjective(s) /\ e \notin ToSet(s) => IsInjective(Append(s, e))
<1> DEFINE t == Append(s, e)
<1>1. /\ t \in Seq(S) /\ Len(t) = Len(s) + 1 /\ Len(s) \in Nat
      /\ \A i \in 1..Len(s) : t[i] = s[i]
      /\ t[Len(s) + 1] = e
      /\ DOMAIN t = 1..Len(s) + 1 /\ DOMAIN s = 1..Len(s)
  OBVIOUS
<1>2. ToSet(t) = ToSet(s) \cup {e} BY <1>1 DEF ToSet
<1>3. ASSUME IsInjective(s), e \notin ToSet(s) PROVE IsInjective(t)
  BY <1>1, <1>3 DEF IsInjective, ToSet
<1> QED BY <1>1, <1>2, <1>3

\* A client whose context expires leaves the queue, the others stay in it.
LEMMA RemoveAtFacts ==
  ASSUME NEW S, NEW s \in Seq(S), NEW i \in DOMAIN s
  PROVE  /\ RemoveAt(s, i) \in Seq(S)
         /\ ToSet(RemoveAt(s, i)) \subseteq ToSet(s)
         /\ IsInjective(s) => /\ IsInjective(RemoveAt(s, i))
                              /\ s[i] \notin ToSet(RemoveAt(s, i))
<1>1. /\ Len(s) \in Nat /\ DOMAIN s = 1..Len(s) /\ i \in 1..Len(s)
      /\ \A j \in 1..Len(s) : s[j] \in S
  OBVIOUS
<1> DEFINE p == SubSeq(s, 1, i - 1)
           q == SubSeq(s, i + 1, Len(s))
           t == p \o q
<1>2. /\ p \in Seq(S) /\ Len(p) = i - 1
      /\ \A j \in 1..(i - 1) : p[j] = s[j]
  <2> HIDE DEF p
  <2>1. \A j \in 1..(i - 1) : s[j] \in S BY <1>1
  <2>2. 1 \in Int /\ i - 1 \in Int BY <1>1
  <2>3. /\ SubSeq(s, 1, i - 1) \in Seq(S)
        /\ Len(SubSeq(s, 1, i - 1)) = IF 1 <= i - 1 THEN i - 1 - 1 + 1 ELSE 0
        /\ \A j \in 1..(i - 1) - 1 + 1 : SubSeq(s, 1, i - 1)[j] = s[1 + j - 1]
    BY <2>1, <2>2, SubSeqProperties
  <2> QED BY <2>3, <1>1 DEF p
<1>3. /\ q \in Seq(S) /\ Len(q) = Len(s) - i
      /\ \A j \in 1..(Len(s) - i) : q[j] = s[i + j]
  <2> HIDE DEF q
  <2>1. \A j \in (i + 1)..Len(s) : s[j] \in S BY <1>1
  <2>2. i + 1 \in Int /\ Len(s) \in Int BY <1>1
  <2>3. /\ SubSeq(s, i + 1, Len(s)) \in Seq(S)
        /\ Len(SubSeq(s, i + 1, Len(s)))
             = IF i + 1 <= Len(s) THEN Len(s) - (i + 1) + 1 ELSE 0
        /\ \A j \in 1..Len(s) - (i + 1) + 1 :
             SubSeq(s, i + 1, Len(s))[j] = s[(i + 1) + j - 1]
    BY <2>1, <2>2, SubSeqProperties
  <2> QED BY <2>3, <1>1 DEF q
<1>4. /\ t \in Seq(S) /\ DOMAIN t = 1..(Len(s) - 1)
      /\ \A j \in 1..(Len(s) - 1) : t[j] = IF j < i THEN s[j] ELSE s[j + 1]
  <2> HIDE DEF p, q
  <2>1. /\ t \in Seq(S) /\ Len(t) = Len(p) + Len(q)
        /\ \A j \in 1..Len(p) + Len(q) :
             t[j] = IF j <= Len(p) THEN p[j] ELSE q[j - Len(p)]
    BY <1>2, <1>3, ConcatProperties
  <2>2. DOMAIN t = 1..(Len(s) - 1)
    <3> HIDE DEF t
    <3> QED BY <2>1, <1>1, <1>2, <1>3
  <2>3. ASSUME NEW j \in 1..(Len(s) - 1)
        PROVE  t[j] = IF j < i THEN s[j] ELSE s[j + 1]
    <3> HIDE DEF t
    <3>1. CASE j < i BY <3>1, <1>1, <1>2, <1>3, <2>1
    <3>2. CASE j >= i
      <4>1. t[j] = q[j - (i - 1)] BY <3>2, <1>1, <1>2, <1>3, <2>1
      <4>2. j - (i - 1) \in 1..(Len(s) - i) BY <3>2, <1>1
      <4> QED BY <4>1, <4>2, <3>2, <1>1, <1>3
    <3> QED BY <3>1, <3>2, <1>1
  <2> QED BY <2>1, <2>2, <2>3
<1>5. t = RemoveAt(s, i) BY DEF RemoveAt
<1> HIDE DEF t
<1>6. ToSet(t) \subseteq ToSet(s)
  <2> SUFFICES ASSUME NEW j \in DOMAIN t PROVE t[j] \in ToSet(s) BY DEF ToSet
  <2> QED BY <1>1, <1>4 DEF ToSet
<1>7. ASSUME IsInjective(s) PROVE IsInjective(t) /\ s[i] \notin ToSet(t)
  <2> DEFINE from(j) == IF j < i THEN j ELSE j + 1
  <2>1. \A j \in DOMAIN t : from(j) \in DOMAIN s \ {i} /\ t[j] = s[from(j)]
    BY <1>1, <1>4
  <2>2. \A j, k \in DOMAIN t : from(j) = from(k) => j = k BY <1>1, <1>4
  <2> HIDE DEF from
  <2>3. \A j, k \in DOMAIN s : s[j] = s[k] => j = k BY <1>7 DEF IsInjective
  <2>4. \A j, k \in DOMAIN t : t[j] = t[k] => j = k BY <2>1, <2>2, <2>3
  <2>5. \A j \in DOMAIN t : t[j] # s[i] BY <2>1, <2>3
  <2> QED BY <2>4, <2>5 DEF IsInjective, ToSet
<1> QED BY <1>4, <1>5, <1>6, <1>7

-----------------------------------------------------------------------------
(* Counting.                                                               *)

\* An interval from 1 is as long as its last number.
LEMMA IntervalSize == \A n \in Nat : IsFiniteSet(1..n) /\ Cardinality(1..n) = n
<1> TAKE n \in Nat
<1>1. 1 \in Int /\ n \in Int OBVIOUS
<1>2. IsFiniteSet(1..n) /\ Cardinality(1..n) = IF 1 > n THEN 0 ELSE n - 1 + 1
  BY <1>1, FS_Interval
<1> QED BY <1>2

\* A sequence without repetition is as long as its elements are many.
LEMMA InjectiveLength ==
  ASSUME NEW S, NEW s \in Seq(S), IsInjective(s)
  PROVE  IsFiniteSet(ToSet(s)) /\ Cardinality(ToSet(s)) = Len(s)
<1>1. Len(s) \in Nat /\ DOMAIN s = 1..Len(s) /\ s = [i \in 1..Len(s) |-> s[i]]
  OBVIOUS
<1>2. s \in Bijection(1..Len(s), ToSet(s))
  BY <1>1 DEF Bijection, Injection, Surjection, IsInjective, ToSet
<1>3. ExistsBijection(1..Len(s), ToSet(s)) BY <1>2 DEF ExistsBijection
<1>4. IsFiniteSet(1..Len(s)) /\ Cardinality(1..Len(s)) = Len(s) BY <1>1, IntervalSize
<1> QED BY <1>3, <1>4, FS_Bijection

\* The elements of a list are finitely many.
LEMMA ToSetFinite ==
  ASSUME NEW S, NEW s \in Seq(S)
  PROVE  IsFiniteSet(ToSet(s))
<1>1. s \in Surjection(1..Len(s), ToSet(s))
  <2>1. s \in [1..Len(s) -> ToSet(s)] /\ DOMAIN s = 1..Len(s) BY DEF ToSet
  <2> QED BY <2>1 DEF Surjection, ToSet
<1>2. IsFiniteSet(1..Len(s)) BY IntervalSize
<1> QED BY <1>1, <1>2, FS_Surjection

\* Disjoint parts add up.
LEMMA DisjointSum ==
  ASSUME NEW S, NEW T, IsFiniteSet(S), IsFiniteSet(T), S \cap T = {}
  PROVE  /\ IsFiniteSet(S \cup T)
         /\ Cardinality(S \cup T) = Cardinality(S) + Cardinality(T)
         /\ Cardinality(S) \in Nat /\ Cardinality(T) \in Nat
<1>1. Cardinality(S \cap T) = 0 BY FS_EmptySet
<1>2. /\ IsFiniteSet(S \cup T)
      /\ Cardinality(S \cup T) = Cardinality(S) + Cardinality(T) - Cardinality(S \cap T)
  BY FS_Union
<1>3. Cardinality(S) \in Nat /\ Cardinality(T) \in Nat BY FS_CardinalityType
<1> QED BY <1>1, <1>2, <1>3

-----------------------------------------------------------------------------
(* Induction, over sets: the library's theorems take an operator, which no  *)
(* installed prover can instantiate.                                       *)

\* A set of numbers that is not empty has a least one.
LEMMA NatMinimum ==
  ASSUME NEW T \in SUBSET Nat, T # {}
  PROVE  \E n \in T : \A m \in T : n <= m
<1> DEFINE R == {p \in Nat \X Nat : p[1] < p[2]}
<1>1. IsWellFoundedOn(R, Nat) BY NatLessThanWellFounded DEF OpToRel
<1>2. T \subseteq Nat OBVIOUS
<1>3. \A m, n \in Nat : m < n => <<m, n>> \in R OBVIOUS
<1> HIDE DEF R
<1>4. PICK n \in T : \A m \in T : <<m, n>> \notin R BY <1>1, <1>2, WFMin
<1>5. ASSUME NEW m \in T PROVE n <= m
  <2>1. m \in Nat /\ n \in Nat /\ ~(m < n) BY <1>2, <1>3, <1>4
  <2> QED BY <2>1
<1> QED BY <1>5

\* A set that has 0 and with each number the next one has them all.
LEMMA Induction ==
  ASSUME NEW T, 0 \in T, \A n \in Nat : n \in T => n + 1 \in T
  PROVE  Nat \subseteq T
<1> SUFFICES ASSUME Nat \ T # {} PROVE FALSE OBVIOUS
<1>1. PICK n \in Nat \ T : \A m \in Nat \ T : n <= m
  BY NatMinimum
<1>2. n # 0 BY <1>1
<1>3. n - 1 \in Nat /\ n - 1 + 1 = n /\ n - 1 < n BY <1>2
<1>4. n - 1 \in T BY <1>1, <1>3
<1> QED BY <1>1, <1>3, <1>4

\* Induction over the parts of a finite set.
LEMMA FiniteInduction ==
  ASSUME NEW S, IsFiniteSet(S), NEW T, {} \in T,
         \A A \in SUBSET S : \A x \in S \ A : A \in T => A \cup {x} \in T
  PROVE  S \in T
<1> DEFINE C == {n \in Nat : \A A \in SUBSET S : Cardinality(A) = n => A \in T}
<1>1. 0 \in C
  <2> SUFFICES ASSUME NEW A \in SUBSET S, Cardinality(A) = 0 PROVE A \in T OBVIOUS
  <2>1. IsFiniteSet(A) BY FS_Subset
  <2> QED BY <2>1, FS_EmptySet
<1>2. ASSUME NEW n \in Nat, n \in C PROVE n + 1 \in C
  <2> SUFFICES ASSUME NEW A \in SUBSET S, Cardinality(A) = n + 1 PROVE A \in T OBVIOUS
  <2>1. IsFiniteSet(A) BY FS_Subset
  <2>2. A # {} BY FS_EmptySet
  <2>3. PICK x \in A : TRUE BY <2>2
  <2>4. Cardinality(A \ {x}) = n
    <3>1. Cardinality(A \ {x}) = Cardinality(A) - 1 BY <2>1, <2>3, FS_RemoveElement
    <3> QED BY <3>1
  <2>5. A \ {x} \in T BY <1>2, <2>4
  <2>6. (A \ {x}) \cup {x} = A BY <2>3
  <2> QED BY <2>3, <2>5, <2>6
<1> HIDE DEF C
<1>3. Nat \subseteq C BY <1>1, <1>2, Induction
<1>4. Cardinality(S) \in Nat BY FS_CardinalityType
<1>5. Cardinality(S) \in C BY <1>3, <1>4
<1> QED BY <1>5 DEF C

-----------------------------------------------------------------------------
(* Filtering and sorting.                                                  *)

\* A total order on a set, given by what is before each of its elements.
Orders(S, before) ==
  /\ before \in [S -> SUBSET S]
  /\ \A x \in S : x \notin before[x]
  /\ \A x, y \in S : x \in before[y] => before[x] \subseteq before[y]
  /\ \A x, y \in S : x = y \/ x \in before[y] \/ y \in before[x]

\* How many elements are before one tells where it stands.
LEMMA RankFacts ==
  ASSUME NEW S, IsFiniteSet(S), NEW before, Orders(S, before)
  PROVE  /\ \A x \in S : Cardinality(before[x]) \in 0..(Cardinality(S) - 1)
         /\ \A x, y \in S : x \in before[y] => Cardinality(before[x]) < Cardinality(before[y])
         /\ \A x, y \in S : Cardinality(before[x]) = Cardinality(before[y]) => x = y
         /\ \A k \in 1..Cardinality(S) : \E x \in S : Cardinality(before[x]) = k - 1
<1> USE DEF Orders
<1> DEFINE n == Cardinality(S)
<1>1. n \in Nat BY FS_CardinalityType
<1>2. ASSUME NEW x \in S
      PROVE  IsFiniteSet(before[x]) /\ Cardinality(before[x]) \in 0..(n - 1)
  <2>1. IsFiniteSet(S \ {x}) /\ Cardinality(S \ {x}) = n - 1 BY FS_RemoveElement
  <2>2. before[x] \in SUBSET (S \ {x}) OBVIOUS
  <2>3. IsFiniteSet(before[x]) /\ Cardinality(before[x]) <= n - 1 BY <2>1, <2>2, FS_Subset
  <2>4. Cardinality(before[x]) \in Nat BY <2>3, FS_CardinalityType
  <2> QED BY <1>1, <2>3, <2>4
<1>3. ASSUME NEW x \in S, NEW y \in S, x \in before[y]
      PROVE  Cardinality(before[x]) < Cardinality(before[y])
  <2>1. before[x] \in SUBSET (before[y] \ {x}) BY <1>3
  <2>2. /\ IsFiniteSet(before[y] \ {x})
        /\ Cardinality(before[y] \ {x}) = Cardinality(before[y]) - 1
    BY <1>2, <1>3, FS_RemoveElement
  <2>3. Cardinality(before[x]) <= Cardinality(before[y] \ {x}) BY <2>1, <2>2, FS_Subset
  <2> QED BY <1>2, <2>2, <2>3
<1>4. ASSUME NEW x \in S, NEW y \in S, Cardinality(before[x]) = Cardinality(before[y])
      PROVE  x = y
  BY <1>2, <1>3, <1>4
<1>5. ASSUME NEW k \in 1..n PROVE \E x \in S : Cardinality(before[x]) = k - 1
  <2> DEFINE f == [x \in S |-> Cardinality(before[x])]
  <2>1. f \in Injection(S, 0..(n - 1))
    <3>1. f \in [S -> 0..(n - 1)] BY <1>2
    <3>2. \A x, y \in S : f[x] = f[y] => x = y BY <1>4
    <3> QED BY <3>1, <3>2 DEF Injection, IsInjective
  <2>2. IsFiniteSet(0..(n - 1)) /\ Cardinality(0..(n - 1)) = n
    <3>1. 0 \in Int /\ n - 1 \in Int BY <1>1
    <3> HIDE DEF n
    <3> QED BY <3>1, <1>1, FS_Interval
  <2> HIDE DEF f
  <2>3. f \in Surjection(S, 0..(n - 1)) BY <2>1, <2>2, FS_Injection
  <2>4. k - 1 \in 0..(n - 1) BY <1>1
  <2>5. PICK x \in S : f[x] = k - 1 BY <2>3, <2>4 DEF Surjection
  <2> QED BY <2>5 DEF f
<1> QED BY <1>2, <1>3, <1>4, <1>5

\* A finite set in a row: every element once, each after those that are before it.
LEMMA ArrangedFacts ==
  ASSUME NEW S, IsFiniteSet(S), NEW before, Orders(S, before)
  PROVE  LET a == Arranged(S, before) IN
         /\ a \in [1..Cardinality(S) -> S] /\ Cardinality(S) \in Nat
         /\ \A k \in 1..Cardinality(S) : Cardinality(before[a[k]]) = k - 1
         /\ \A x \in S : \E k \in 1..Cardinality(S) : a[k] = x
         /\ \A j, k \in 1..Cardinality(S) : a[j] = a[k] => j = k
         /\ \A j, k \in 1..Cardinality(S) : j < k <=> a[j] \in before[a[k]]
<1> DEFINE a == Arranged(S, before)
           n == Cardinality(S)
<1>1. n \in Nat BY FS_CardinalityType
<1>2. ASSUME NEW k \in 1..n PROVE a[k] \in S /\ Cardinality(before[a[k]]) = k - 1
  <2> DEFINE places == {<<Cardinality(before[x]) + 1, x>> : x \in S}
             p == CHOOSE q \in places : q[1] = k
  <2>1. PICK x \in S : Cardinality(before[x]) = k - 1 BY RankFacts
  <2>2. Cardinality(before[x]) + 1 = k BY <1>1, <2>1
  <2>3. <<Cardinality(before[x]) + 1, x>> \in places /\ <<Cardinality(before[x]) + 1, x>>[1] = k
    BY <2>2
  <2>4. p \in places /\ p[1] = k
    <3> HIDE DEF places
    <3> QED BY <2>3
  <2>5. a[k] = p[2] BY DEF Arranged
  <2> HIDE DEF p
  <2>6. PICK y \in S : p = <<Cardinality(before[y]) + 1, y>> BY <2>4
  <2>7. Cardinality(before[y]) \in Nat /\ Cardinality(before[y]) + 1 = k
    BY <2>4, <2>6, RankFacts
  <2> QED BY <1>1, <2>5, <2>6, <2>7
<1>3. a = [k \in 1..n |-> a[k]] BY DEF Arranged
<1> HIDE DEF a, n
<1>4. a \in [1..n -> S] BY <1>2, <1>3
<1>5. ASSUME NEW x \in S PROVE \E k \in 1..n : a[k] = x
  <2>1. Cardinality(before[x]) \in 0..(n - 1) BY RankFacts DEF n
  <2>2. Cardinality(before[x]) + 1 \in 1..n BY <1>1, <2>1
  <2>3. Cardinality(before[a[Cardinality(before[x]) + 1]]) = Cardinality(before[x])
    BY <1>1, <1>2, <2>1, <2>2
  <2>4. a[Cardinality(before[x]) + 1] = x BY <1>2, <2>2, <2>3, RankFacts
  <2> QED BY <2>2, <2>4
<1>6. \A j, k \in 1..n : a[j] = a[k] => j = k BY <1>1, <1>2
<1>7. ASSUME NEW j \in 1..n, NEW k \in 1..n PROVE j < k <=> a[j] \in before[a[k]]
  <2>1. CASE a[j] \in before[a[k]]
    <3>1. Cardinality(before[a[j]]) < Cardinality(before[a[k]]) BY <1>2, <2>1, RankFacts
    <3> QED BY <1>1, <1>2, <2>1, <3>1
  <2>2. CASE a[k] \in before[a[j]]
    <3>1. Cardinality(before[a[k]]) < Cardinality(before[a[j]]) BY <1>2, <2>2, RankFacts
    <3>2. ~(j < k) BY <1>1, <1>2, <3>1
    <3>3. a[j] \notin before[a[k]] BY <1>2, <2>2 DEF Orders
    <3> QED BY <3>2, <3>3
  <2>3. CASE a[j] = a[k]
    <3>1. j = k BY <1>6, <2>3
    <3>2. a[j] \notin before[a[k]] BY <1>2, <2>3 DEF Orders
    <3> QED BY <1>1, <3>1, <3>2
  <2> QED BY <1>2, <2>1, <2>2, <2>3 DEF Orders
<1>8. /\ a \in [1..n -> S] /\ n \in Nat
      /\ \A k \in 1..n : Cardinality(before[a[k]]) = k - 1
      /\ \A x \in S : \E k \in 1..n : a[k] = x
      /\ \A j, k \in 1..n : a[j] = a[k] => j = k
      /\ \A j, k \in 1..n : j < k <=> a[j] \in before[a[k]]
  BY <1>1, <1>2, <1>4, <1>5, <1>6, <1>7
<1> QED BY <1>8 DEF a, n

\* t is made of the elements of s at the positions I, each once, and its order is
\* that of before: there is a list of those positions, at, that says which is where.
Draws(at, t, s, I) ==
  /\ at \in [DOMAIN t -> I]
  /\ \A k \in DOMAIN t : t[k] = s[at[k]]
  /\ \A i \in I : \E k \in DOMAIN t : at[k] = i
  /\ \A j, k \in DOMAIN t : at[j] = at[k] => j = k

Selection(t, s, I, before, S) ==
  /\ IsFiniteSet(I) /\ Cardinality(I) \in 0..Len(s)
  /\ t \in Seq(S) /\ Len(t) = Cardinality(I) /\ DOMAIN t = 1..Cardinality(I)
  /\ ToSet(t) = {s[i] : i \in I}
  /\ IsInjective(s) => IsInjective(t)
  /\ \E at : Draws(at, t, s, I) /\ \A j, k \in DOMAIN t : j < k <=> at[j] \in before[at[k]]

LEMMA PickedByFacts ==
  ASSUME NEW S, NEW s \in Seq(S), NEW I \in SUBSET DOMAIN s, NEW before, Orders(I, before)
  PROVE  Selection(PickedBy(s, I, before), s, I, before, S)
<1> DEFINE t == PickedBy(s, I, before)
           at == Arranged(I, before)
           n == Cardinality(I)
<1>1. Len(s) \in Nat /\ DOMAIN s = 1..Len(s) /\ \A i \in 1..Len(s) : s[i] \in S OBVIOUS
<1>2. IsFiniteSet(I) /\ n <= Len(s)
  <2>1. IsFiniteSet(1..Len(s)) /\ Cardinality(1..Len(s)) = Len(s) BY <1>1, IntervalSize
  <2> QED BY <1>1, <2>1, FS_Subset
<1>3. t = [k \in DOMAIN at |-> s[at[k]]] BY DEF PickedBy
<1> HIDE DEF t, at
<1>4. /\ at \in [1..n -> I] /\ n \in Nat
      /\ \A i \in I : \E k \in 1..n : at[k] = i
      /\ \A j, k \in 1..n : at[j] = at[k] => j = k
      /\ \A j, k \in 1..n : j < k <=> at[j] \in before[at[k]]
  BY <1>2, ArrangedFacts DEF at
<1> HIDE DEF n
<1>5. t \in [1..n -> S] /\ \A k \in 1..n : t[k] = s[at[k]]
  <2>1. DOMAIN at = 1..n /\ \A k \in 1..n : at[k] \in 1..Len(s) BY <1>1, <1>4
  <2> QED BY <1>1, <1>3, <2>1
<1>6. t \in Seq(S) /\ DOMAIN t = 1..n /\ Len(t) = n BY <1>4, <1>5
<1>7. ToSet(t) = {s[i] : i \in I}
  <2>1. ASSUME NEW i \in I PROVE \E k \in 1..n : t[k] = s[i]
    <3>1. PICK k \in 1..n : at[k] = i BY <1>4
    <3>2. t[k] = s[i] BY <1>5, <3>1
    <3> QED BY <3>2
  <2>2. ASSUME NEW k \in 1..n PROVE \E i \in I : t[k] = s[i]
    <3>1. at[k] \in I /\ t[k] = s[at[k]] BY <1>4, <1>5
    <3> QED BY <3>1
  <2>3. ToSet(t) = {t[k] : k \in 1..n} BY <1>6 DEF ToSet
  <2> QED BY <2>1, <2>2, <2>3
<1>8. ASSUME IsInjective(s) PROVE IsInjective(t)
  <2>1. \A i, j \in I : s[i] = s[j] => i = j BY <1>1, <1>8 DEF IsInjective
  <2>2. ASSUME NEW j \in 1..n, NEW k \in 1..n, t[j] = t[k] PROVE j = k
    <3>1. at[j] \in I /\ at[k] \in I /\ s[at[j]] = s[at[k]] BY <1>4, <1>5, <2>2
    <3>2. at[j] = at[k] BY <2>1, <3>1
    <3> QED BY <1>4, <3>2
  <2> QED BY <1>6, <2>2 DEF IsInjective
<1>9. Draws(at, t, s, I) BY <1>4, <1>5, <1>6 DEF Draws
<1> QED BY <1>1, <1>2, <1>4, <1>6, <1>7, <1>8, <1>9 DEF Selection, t, n

LEMMA PickedFacts ==
  ASSUME NEW S, NEW s \in Seq(S), NEW I \in SUBSET DOMAIN s
  PROVE  Selection(Picked(s, I), s, I, [i \in I |-> {j \in I : j < i}], S)
<1>1. \A i \in I : i \in Int OBVIOUS
<1>2. Orders(I, [i \in I |-> {j \in I : j < i}]) BY <1>1 DEF Orders
<1> QED BY <1>2, PickedByFacts DEF Picked

\* A comparison that is a weak order gives the order of a stable sort: R[i] holds
\* the positions that compare less than i.
LEMMA StableOrder ==
  ASSUME NEW D \in SUBSET Nat, NEW R \in [D -> SUBSET D],
         \A i, j \in D : i \in R[j] => j \notin R[i],
         \A i, j, k \in D : i \in R[j] => i \in R[k] \/ k \in R[j]
  PROVE  Orders(D, [i \in D |-> {j \in D : j \in R[i] \/ (i \notin R[j] /\ j < i)}])
<1> DEFINE B == [i \in D |-> {j \in D : j \in R[i] \/ (i \notin R[j] /\ j < i)}]
<1>1. B \in [D -> SUBSET D] OBVIOUS
<1>2. \A i, j \in D : i \in B[j] <=> i \in R[j] \/ (j \notin R[i] /\ i < j) OBVIOUS
<1> HIDE DEF B
<1>0. \A i \in D : i \in Nat OBVIOUS
<1>3. ASSUME NEW i \in D PROVE i \notin B[i]
  <2>1. i \notin R[i] OBVIOUS
  <2>2. ~(i < i) BY <1>0
  <2> QED BY <1>2, <2>1, <2>2
<1>4. ASSUME NEW i \in D, NEW j \in D, i \in B[j] PROVE B[i] \subseteq B[j]
  <2> SUFFICES ASSUME NEW k \in D, k \in B[i] PROVE k \in B[j] BY <1>1
  <2>1. CASE k \in R[i]
    <3>1. k \in R[j] \/ j \in R[i] BY <2>1
    <3>2. CASE i \in R[j] BY <1>2, <3>1, <3>2
    <3>3. CASE j \notin R[i] BY <1>2, <3>1, <3>3
    <3> QED BY <1>2, <1>4, <3>2, <3>3
  <2>2. CASE k \notin R[i] /\ i \notin R[k] /\ k < i
    <3>1. CASE i \in R[j] BY <1>2, <2>2, <3>1
    <3>2. CASE j \notin R[i] /\ i < j
      <4>1. k < j BY <1>0, <2>2, <3>2
      <4>2. j \notin R[k] BY <2>2, <3>2
      <4> QED BY <1>2, <4>1, <4>2
    <3> QED BY <1>2, <1>4, <3>1, <3>2
  <2> QED BY <1>2, <2>1, <2>2
<1>5. ASSUME NEW i \in D, NEW j \in D PROVE i = j \/ i \in B[j] \/ j \in B[i]
  BY <1>2, <1>0
<1>6. Orders(D, B) BY <1>1, <1>3, <1>4, <1>5 DEF Orders
<1> QED BY <1>6 DEF B

\* t has the elements of s, and the position of one before the other means that R does.
Sorting(t, s, R, S) ==
  /\ t \in Seq(S) /\ Len(t) = Len(s) /\ ToSet(t) = ToSet(s) /\ IsInjective(t)
  /\ \E at : /\ at \in [DOMAIN t -> DOMAIN s]
             /\ \A k \in DOMAIN t : t[k] = s[at[k]]
             /\ \A j, k \in DOMAIN t : j < k <=> at[j] \in R[at[k]]

\* A list without repetition whose elements compare, any two of them, is sorted one way.
LEMMA SortedFacts ==
  ASSUME NEW S, NEW s \in Seq(S), IsInjective(s),
         NEW R \in [DOMAIN s -> SUBSET DOMAIN s],
         \A i, j \in DOMAIN s : i \in R[j] => j \notin R[i],
         \A i, j, k \in DOMAIN s : i \in R[j] => i \in R[k] \/ k \in R[j],
         \A i, j \in DOMAIN s : i = j \/ i \in R[j] \/ j \in R[i]
  PROVE  Sorting(PickedBy(s, DOMAIN s, [i \in DOMAIN s |-> {j \in DOMAIN s :
                   j \in R[i] \/ (i \notin R[j] /\ j < i)}]), s, R, S)
<1> DEFINE D == DOMAIN s
           B == [i \in D |-> {j \in D : j \in R[i] \/ (i \notin R[j] /\ j < i)}]
           t == PickedBy(s, D, B)
<1>1. D = 1..Len(s) /\ Len(s) \in Nat /\ D \in SUBSET Nat OBVIOUS
<1>2. Orders(D, B)
  <2>1. /\ R \in [D -> SUBSET D]
        /\ \A i, j \in D : i \in R[j] => j \notin R[i]
        /\ \A i, j, k \in D : i \in R[j] => i \in R[k] \/ k \in R[j]
    OBVIOUS
  <2> HIDE DEF D
  <2> QED BY <1>1, <2>1, StableOrder
<1>3. \A i, j \in D : i \in B[j] <=> i \in R[j]
  <2> SUFFICES ASSUME NEW i \in D, NEW j \in D PROVE i \in B[j] <=> i \in R[j] OBVIOUS
  <2>1. i \in B[j] <=> i \in R[j] \/ (j \notin R[i] /\ i < j) OBVIOUS
  <2>2. i < j => i # j BY <1>1
  <2> QED BY <2>1, <2>2
<1> HIDE DEF B
<1>4. Selection(t, s, D, B, S)
  <2>1. D \in SUBSET DOMAIN s OBVIOUS
  <2> HIDE DEF D
  <2> QED BY <1>2, <2>1, PickedByFacts
<1>5. Cardinality(D) = Len(s) BY <1>1, IntervalSize
<1> HIDE DEF t
<1>6. /\ t \in Seq(S) /\ Len(t) = Len(s) /\ ToSet(t) = {s[i] : i \in D} /\ IsInjective(t)
      /\ \E at : Draws(at, t, s, D) /\ \A j, k \in DOMAIN t : j < k <=> at[j] \in B[at[k]]
  BY <1>4, <1>5 DEF Selection
<1>7. ToSet(t) = ToSet(s) BY <1>6 DEF ToSet
<1>8. PICK at : Draws(at, t, s, D) /\ \A j, k \in DOMAIN t : j < k <=> at[j] \in B[at[k]]
  BY <1>6
<1>9. /\ at \in [DOMAIN t -> D] /\ \A k \in DOMAIN t : t[k] = s[at[k]]
      /\ \A j, k \in DOMAIN t : j < k <=> at[j] \in R[at[k]]
  BY <1>3, <1>8 DEF Draws
<1> QED BY <1>6, <1>7, <1>9 DEF Sorting, t, B

\* There is one way to put the elements of a set in order.
LEMMA SortedUnique ==
  ASSUME NEW S, NEW before, Orders(S, before),
         NEW a \in Seq(S), NEW b \in Seq(S), ToSet(a) = S, ToSet(b) = S,
         \A j, k \in DOMAIN a : j < k <=> a[j] \in before[a[k]],
         \A j, k \in DOMAIN b : j < k <=> b[j] \in before[b[k]]
  PROVE  a = b
<1>1. ASSUME NEW s \in Seq(S), ToSet(s) = S,
             \A j, k \in DOMAIN s : j < k <=> s[j] \in before[s[k]]
      PROVE  /\ IsFiniteSet(S) /\ Cardinality(S) = Len(s)
             /\ \A k \in DOMAIN s : Cardinality(before[s[k]]) = k - 1
  <2>1. Len(s) \in Nat /\ DOMAIN s = 1..Len(s) /\ \A k \in DOMAIN s : s[k] \in S OBVIOUS
  <2>2. \A j, k \in 1..Len(s) : s[j] = s[k] => j = k
    <3> SUFFICES ASSUME NEW j \in 1..Len(s), NEW k \in 1..Len(s), s[j] = s[k] PROVE j = k
      OBVIOUS
    <3>1. ~(j < k) /\ ~(k < j) BY <1>1, <2>1 DEF Orders
    <3> QED BY <3>1
  <2>3. s \in Bijection(1..Len(s), S)
    <3>1. s \in [1..Len(s) -> S] BY <2>1
    <3>2. \A x \in S : \E k \in 1..Len(s) : s[k] = x BY <1>1, <2>1 DEF ToSet
    <3> QED BY <2>2, <3>1, <3>2 DEF Bijection, Injection, Surjection, IsInjective
  <2>4. ExistsBijection(1..Len(s), S) BY <2>3 DEF ExistsBijection
  <2>5. IsFiniteSet(S) /\ Cardinality(S) = Len(s)
    BY <2>1, <2>4, IntervalSize, FS_Bijection
  <2>6. ASSUME NEW k \in DOMAIN s PROVE Cardinality(before[s[k]]) = k - 1
    <3> DEFINE f == [j \in 1..(k - 1) |-> s[j]]
    <3>1. k - 1 \in Nat /\ 1..(k - 1) \subseteq DOMAIN s BY <2>1
    <3>2. f \in [1..(k - 1) -> before[s[k]]] BY <1>1, <2>1, <3>1
    <3>3. \A x \in before[s[k]] : \E j \in 1..(k - 1) : f[j] = x
      <4> SUFFICES ASSUME NEW x \in before[s[k]] PROVE \E j \in 1..(k - 1) : f[j] = x OBVIOUS
      <4>1. x \in S BY <2>1 DEF Orders
      <4>2. PICK j \in DOMAIN s : s[j] = x BY <1>1, <4>1 DEF ToSet
      <4>3. j < k BY <1>1, <4>2
      <4>4. j \in 1..(k - 1) BY <2>1, <4>3
      <4> QED BY <4>2, <4>4
    <3>4. \A i, j \in 1..(k - 1) : f[i] = f[j] => i = j BY <2>1, <2>2, <3>1
    <3>5. f \in Bijection(1..(k - 1), before[s[k]])
      <4> HIDE DEF f
      <4> QED BY <3>2, <3>3, <3>4 DEF Bijection, Injection, Surjection, IsInjective
    <3>6. ExistsBijection(1..(k - 1), before[s[k]]) BY <3>5 DEF ExistsBijection
    <3> QED BY <3>1, <3>6, IntervalSize, FS_CountingElements
  <2> QED BY <2>5, <2>6
<1>2. Len(a) = Len(b) /\ IsFiniteSet(S) BY <1>1
<1>3. Len(a) \in Nat /\ DOMAIN a = 1..Len(a) /\ Len(b) \in Nat /\ DOMAIN b = 1..Len(b) OBVIOUS
<1>4. ASSUME NEW k \in DOMAIN a PROVE a[k] = b[k]
  <2>1. a[k] \in S /\ b[k] \in S BY <1>2, <1>3
  <2>2. Cardinality(before[a[k]]) = k - 1 BY <1>1
  <2>3. Cardinality(before[b[k]]) = k - 1 BY <1>1, <1>2, <1>3
  <2> QED BY <1>2, <2>1, <2>2, <2>3, RankFacts
<1> QED BY <1>2, <1>3, <1>4

-----------------------------------------------------------------------------
(* Concatenation.                                                          *)

\* A list is one of its own elements, and of any set that has them.
LEMMA OwnElements ==
  ASSUME NEW S, NEW s \in Seq(S), NEW T, ToSet(s) \subseteq T
  PROVE  s \in Seq(T)
<1>1. DOMAIN s = 1..Len(s) /\ Len(s) \in Nat /\ s = [i \in 1..Len(s) |-> s[i]] OBVIOUS
<1>2. \A i \in 1..Len(s) : s[i] \in T BY <1>1 DEF ToSet
<1> QED BY <1>1, <1>2

\* The elements of two lists in one.
LEMMA ConcatFacts ==
  ASSUME NEW S, NEW a \in Seq(S), NEW b \in Seq(S)
  PROVE  /\ a \o b \in Seq(S) /\ Len(a \o b) = Len(a) + Len(b)
         /\ ToSet(a \o b) = ToSet(a) \cup ToSet(b)
         /\ IsInjective(a) /\ IsInjective(b) /\ ToSet(a) \cap ToSet(b) = {} => IsInjective(a \o b)
<1> DEFINE t == a \o b
           m == Len(a)
           n == Len(b)
<1>1. /\ m \in Nat /\ DOMAIN a = 1..m /\ n \in Nat /\ DOMAIN b = 1..n OBVIOUS
<1>2. /\ t \in Seq(S) /\ Len(t) = m + n /\ DOMAIN t = 1..(m + n)
      /\ \A i \in 1..(m + n) : t[i] = IF i <= m THEN a[i] ELSE b[i - m]
  OBVIOUS
<1> HIDE DEF t, m, n
<1>3. ToSet(t) = ToSet(a) \cup ToSet(b)
  <2>1. ASSUME NEW i \in 1..m PROVE a[i] \in ToSet(t)
    <3>1. i \in DOMAIN t /\ t[i] = a[i] BY <1>1, <1>2
    <3> QED BY <3>1 DEF ToSet
  <2>2. ASSUME NEW i \in 1..n PROVE b[i] \in ToSet(t)
    <3>1. i + m \in DOMAIN t /\ t[i + m] = b[i] BY <1>1, <1>2
    <3> QED BY <3>1 DEF ToSet
  <2>3. ASSUME NEW i \in DOMAIN t PROVE t[i] \in ToSet(a) \cup ToSet(b)
    <3>1. CASE i <= m BY <1>1, <1>2, <3>1 DEF ToSet
    <3>2. CASE i > m
      <4>1. i - m \in DOMAIN b /\ t[i] = b[i - m] BY <1>1, <1>2, <3>2
      <4> QED BY <4>1 DEF ToSet
    <3> QED BY <1>1, <1>2, <3>1, <3>2
  <2> QED BY <1>1, <2>1, <2>2, <2>3 DEF ToSet
<1>4. ASSUME IsInjective(a), IsInjective(b), ToSet(a) \cap ToSet(b) = {} PROVE IsInjective(t)
  <2>1. \A i, j \in 1..m : a[i] = a[j] => i = j BY <1>1, <1>4 DEF IsInjective
  <2>2. \A i, j \in 1..n : b[i] = b[j] => i = j BY <1>1, <1>4 DEF IsInjective
  <2>3. \A i \in 1..m, j \in 1..n : a[i] # b[j] BY <1>1, <1>4 DEF ToSet
  <2>4. ASSUME NEW i \in 1..(m + n), NEW j \in 1..(m + n), t[i] = t[j] PROVE i = j
    <3>1. CASE i <= m /\ j <= m
      <4>1. i \in 1..m /\ j \in 1..m /\ a[i] = a[j] BY <1>1, <1>2, <2>4, <3>1
      <4> QED BY <2>1, <4>1
    <3>2. CASE i > m /\ j > m
      <4>1. i - m \in 1..n /\ j - m \in 1..n /\ b[i - m] = b[j - m] BY <1>1, <1>2, <2>4, <3>2
      <4>2. i - m = j - m BY <2>2, <4>1
      <4> QED BY <1>1, <4>2
    <3>3. CASE i <= m /\ j > m
      <4>1. i \in 1..m /\ j - m \in 1..n /\ a[i] = b[j - m] BY <1>1, <1>2, <2>4, <3>3
      <4> QED BY <2>3, <4>1
    <3>4. CASE i > m /\ j <= m
      <4>1. j \in 1..m /\ i - m \in 1..n /\ a[j] = b[i - m] BY <1>1, <1>2, <2>4, <3>4
      <4> QED BY <2>3, <4>1
    <3> QED BY <1>1, <3>1, <3>2, <3>3, <3>4
  <2> QED BY <1>2, <2>4 DEF IsInjective
<1> QED BY <1>2, <1>3, <1>4 DEF t, m, n

\* The recursive function of FlattenSeq exists: its values are those it is defined by.
LEMMA FlattenDef ==
  ASSUME NEW S, NEW s \in Seq(S), s # <<>>
  PROVE  \E f : /\ f = [i \in 1..Len(s) |-> IF i = 1 THEN s[1] ELSE f[i - 1] \o s[i]]
                /\ FlattenSeq(s) = f[Len(s)]
<1> DEFINE Solves(g, m) == g = [i \in 1..m |-> IF i = 1 THEN s[i] ELSE g[i - 1] \o s[i]]
           T == {m \in Nat : \E g : Solves(g, m)}
<1>1. 0 \in T
  <2> DEFINE g == [i \in 1..0 |-> s[i]]
  <2>1. Solves(g, 0) OBVIOUS
  <2> HIDE DEF Solves, g
  <2> QED BY <2>1
<1>2. ASSUME NEW m \in Nat, m \in T PROVE m + 1 \in T
  <2>1. PICK g : Solves(g, m) BY <1>2
  <2> DEFINE last == IF m = 0 THEN s[1] ELSE g[m] \o s[m + 1]
             h == [i \in 1..(m + 1) |-> IF i = m + 1 THEN last ELSE g[i]]
  <2>2. ASSUME NEW i \in 1..(m + 1)
        PROVE  h[i] = IF i = 1 THEN s[i] ELSE h[i - 1] \o s[i]
    <3>1. CASE i = m + 1 /\ m = 0 BY <3>1
    <3>2. CASE i = m + 1 /\ m # 0
      <4>1. m \in 1..(m + 1) /\ m # m + 1 /\ i - 1 = m BY <3>2
      <4>2. h[i - 1] = g[m] BY <4>1
      <4>3. h[i] = last BY <3>2
      <4>5. i # 1 /\ i = m + 1
        <5> HIDE DEF h, last
        <5> QED BY <3>2
      <4>4. last = g[m] \o s[m + 1] BY <3>2
      <4> HIDE DEF h, last
      <4> QED BY <4>2, <4>3, <4>4, <4>5
    <3>3. CASE i # m + 1
      <4>1. i \in 1..m /\ h[i] = g[i] BY <3>3
      <4>2. i # 1 => i - 1 \in 1..m /\ h[i - 1] = g[i - 1] BY <4>1
      <4>3. g[i] = IF i = 1 THEN s[i] ELSE g[i - 1] \o s[i] BY <2>1, <4>1
      <4> QED BY <4>1, <4>2, <4>3
    <3> QED BY <3>1, <3>2, <3>3
  <2>3. h = [i \in 1..(m + 1) |-> h[i]] OBVIOUS
  <2> HIDE DEF h
  <2>4. Solves(h, m + 1) BY <2>2, <2>3
  <2> HIDE DEF Solves
  <2> QED BY <2>4
<1> HIDE DEF T
<1>3. Nat \subseteq T BY <1>1, <1>2, Induction
<1>4. Len(s) \in Nat /\ Len(s) # 0 OBVIOUS
<1>5. Len(s) \in T BY <1>3, <1>4
<1> DEFINE f == CHOOSE g : Solves(g, Len(s))
<1>6. Solves(f, Len(s))
  <2> HIDE DEF Solves
  <2>1. \E g : Solves(g, Len(s)) BY <1>5 DEF T
  <2> QED BY <2>1
<1>7. FlattenSeq(s) = f[Len(s)] BY <1>4 DEF FlattenSeq
<1> HIDE DEF f
<1> QED BY <1>6, <1>7

\* Concatenating the lists of a list: the elements are those of its lists, and none
\* is there twice when none was in them.
LEMMA FlattenFacts ==
  ASSUME NEW S, NEW s \in Seq(Seq(S))
  PROVE  /\ FlattenSeq(s) \in Seq(S)
         /\ ToSet(FlattenSeq(s)) = UNION {ToSet(s[i]) : i \in DOMAIN s}
         /\ /\ \A i \in DOMAIN s : IsInjective(s[i])
            /\ \A i, j \in DOMAIN s : i # j => ToSet(s[i]) \cap ToSet(s[j]) = {}
            => IsInjective(FlattenSeq(s))
<1>1. CASE s = <<>>
  <2>1. FlattenSeq(s) = s BY <1>1 DEF FlattenSeq
  <2>2. ToSet(s) = {} /\ DOMAIN s = {} BY <1>1 DEF ToSet
  <2>3. UNION {ToSet(s[i]) : i \in DOMAIN s} = {} BY <2>2
  <2>4. IsInjective(s) BY <2>2 DEF IsInjective
  <2>5. s \in Seq(S) BY <1>1
  <2> QED BY <2>1, <2>2, <2>3, <2>4, <2>5
<1>2. CASE s # <<>>
  <2> DEFINE n == Len(s)
             Apart == /\ \A i \in 1..n : IsInjective(s[i])
                      /\ \A i, j \in 1..n : i # j => ToSet(s[i]) \cap ToSet(s[j]) = {}
  <2>1. n \in Nat /\ n # 0 /\ DOMAIN s = 1..n /\ \A i \in 1..n : s[i] \in Seq(S) BY <1>2
  <2>2. PICK f : /\ f = [i \in 1..n |-> IF i = 1 THEN s[1] ELSE f[i - 1] \o s[i]]
                 /\ FlattenSeq(s) = f[n]
    BY <1>2, FlattenDef
  <2>3. 1 \in 1..n /\ f[1] = s[1] BY <2>1, <2>2
  <2>4. \A i \in Nat : i # 0 /\ i + 1 <= n => f[i + 1] = f[i] \o s[i + 1]
    <3> SUFFICES ASSUME NEW i \in Nat, i # 0, i + 1 <= n PROVE f[i + 1] = f[i] \o s[i + 1]
      OBVIOUS
    <3>1. \A k \in 1..n : f[k] = IF k = 1 THEN s[1] ELSE f[k - 1] \o s[k] BY <2>2
    <3>2. i + 1 \in 1..n /\ i + 1 # 1 /\ i + 1 - 1 = i BY <2>1
    <3> HIDE DEF n
    <3> DEFINE k == i + 1
    <3>3. k \in 1..n /\ k # 1 /\ k - 1 = i BY <3>2
    <3> HIDE DEF k
    <3>4. f[k] = f[k - 1] \o s[k]
      <4>1. f[k] = IF k = 1 THEN s[1] ELSE f[k - 1] \o s[k] BY <3>1, <3>3
      <4> QED BY <3>3, <4>1
    <3>5. f[k] = f[i] \o s[k] BY <3>3, <3>4
    <3> QED BY <3>5 DEF k
  <2> HIDE DEF n
  <2> DEFINE Good(i) == /\ f[i] \in Seq(S)
                        /\ ToSet(f[i]) = UNION {ToSet(s[j]) : j \in 1..i}
                        /\ Apart => IsInjective(f[i])
             T == {i \in Nat : i # 0 /\ i <= n => Good(i)}
  <2>5. 0 \in T OBVIOUS
  <2>6. ASSUME NEW i \in Nat, i \in T PROVE i + 1 \in T
    <3> SUFFICES ASSUME i + 1 <= n PROVE Good(i + 1)
      <4> HIDE DEF Good
      <4> QED OBVIOUS
    <3>1. i + 1 \in 1..n /\ s[i + 1] \in Seq(S) BY <2>1
    <3>2. CASE i = 0
      <4>1. f[i + 1] = s[1] /\ i + 1 = 1 /\ 1..(i + 1) = {1} BY <2>3, <3>2
      <4>2. UNION {ToSet(s[j]) : j \in 1..(i + 1)} = ToSet(s[1]) BY <4>1
      <4>3. Apart => IsInjective(s[1]) BY <2>3
      <4> QED BY <3>1, <4>1, <4>2, <4>3
    <3>3. CASE i # 0
      <4>1. Good(i) BY <2>1, <2>6, <3>3
      <4>2. f[i + 1] = f[i] \o s[i + 1] BY <2>4, <3>3
      <4> DEFINE a == f[i]
                 b == s[i + 1]
      <4>3. a \in Seq(S) /\ b \in Seq(S) BY <3>1, <4>1
      <4>4. a \o b \in Seq(S) /\ ToSet(a \o b) = ToSet(a) \cup ToSet(b)
        <5> HIDE DEF a, b
        <5> QED BY <4>3, ConcatFacts
      <4>5. 1..(i + 1) = (1..i) \cup {i + 1} OBVIOUS
      <4>6. ToSet(a) \cup ToSet(b) = UNION {ToSet(s[j]) : j \in 1..(i + 1)}
        BY <4>1, <4>5
      <4>7. ASSUME Apart PROVE IsInjective(a \o b)
        <5>1. IsInjective(a) BY <4>1, <4>7
        <5>2. IsInjective(b) BY <3>1, <4>7
        <5>3. \A j \in 1..i : ToSet(s[j]) \cap ToSet(b) = {}
          <6> TAKE j \in 1..i
          <6>1. j \in 1..n /\ j # i + 1 BY <2>1
          <6> QED BY <3>1, <4>7, <6>1
        <5>4. ToSet(a) \cap ToSet(b) = {} BY <4>1, <5>3
        <5> HIDE DEF a, b
        <5> QED BY <4>3, <5>1, <5>2, <5>4, ConcatFacts
      <4> QED BY <4>2, <4>4, <4>6, <4>7
    <3> QED BY <3>2, <3>3
  <2> HIDE DEF T
  <2>7. Nat \subseteq T BY <2>5, <2>6, Induction
  <2>8. Good(n)
    <3> HIDE DEF Good
    <3>1. n \in T BY <2>1, <2>7
    <3> QED BY <2>1, <3>1 DEF T
  <2> QED BY <2>1, <2>2, <2>8
<1> QED BY <1>1, <1>2

\* A list with its elements numbered: one to one with the places of a list of lists,
\* the first n of them, part u[k] at v[k].
Spread(t, s, n, u, v) ==
  /\ \A k \in DOMAIN t : /\ u[k] \in 1..n /\ v[k] \in DOMAIN s[u[k]]
                         /\ t[k] = s[u[k]][v[k]]
  /\ \A i \in 1..n : \A j \in DOMAIN s[i] : \E k \in DOMAIN t : u[k] = i /\ v[k] = j
  /\ \A k, m \in DOMAIN t : u[k] = u[m] /\ v[k] = v[m] => k = m

\* One part more.
LEMMA SpreadStep ==
  ASSUME NEW S, NEW s \in Seq(Seq(S)), NEW n \in Nat, n + 1 \in DOMAIN s,
         NEW a \in Seq(S), NEW u, NEW v, Spread(a, s, n, u, v)
  PROVE  \E x, y : Spread(a \o s[n + 1], s, n + 1, x, y)
<1> DEFINE b == s[n + 1]
           t == a \o b
           m == Len(a)
           p == Len(b)
           x == [k \in DOMAIN t |-> IF k <= m THEN u[k] ELSE n + 1]
           y == [k \in DOMAIN t |-> IF k <= m THEN v[k] ELSE k - m]
<1>1. b \in Seq(S) OBVIOUS
<1>2. m \in Nat /\ DOMAIN a = 1..m /\ p \in Nat /\ DOMAIN b = 1..p BY <1>1
<1>3. /\ DOMAIN t = 1..(m + p)
      /\ \A i \in 1..(m + p) : t[i] = IF i <= m THEN a[i] ELSE b[i - m]
  BY <1>1
<1>4. \A k \in DOMAIN t : /\ k <= m => x[k] = u[k] /\ y[k] = v[k]
                          /\ ~(k <= m) => x[k] = n + 1 /\ y[k] = k - m
  OBVIOUS
<1>5. b = s[n + 1] /\ n + 1 \in 1..(n + 1) OBVIOUS
<1> HIDE DEF b, t, m, p, x, y
<1>6. ASSUME NEW k \in DOMAIN t
      PROVE  x[k] \in 1..(n + 1) /\ y[k] \in DOMAIN s[x[k]] /\ t[k] = s[x[k]][y[k]]
  <2>1. CASE k <= m
    <3>1. k \in DOMAIN a /\ t[k] = a[k] /\ x[k] = u[k] /\ y[k] = v[k] BY <1>2, <1>3, <1>4, <2>1
    <3>2. u[k] \in 1..n /\ v[k] \in DOMAIN s[u[k]] /\ a[k] = s[u[k]][v[k]] BY <3>1 DEF Spread
    <3> QED BY <3>1, <3>2
  <2>2. CASE ~(k <= m)
    <3>1. k - m \in DOMAIN b /\ t[k] = b[k - m] /\ x[k] = n + 1 /\ y[k] = k - m
      BY <1>2, <1>3, <1>4, <2>2
    <3> QED BY <1>5, <3>1
  <2> QED BY <2>1, <2>2
<1>7. ASSUME NEW i \in 1..(n + 1), NEW j \in DOMAIN s[i]
      PROVE  \E k \in DOMAIN t : x[k] = i /\ y[k] = j
  <2>1. CASE i \in 1..n
    <3>1. PICK k \in DOMAIN a : u[k] = i /\ v[k] = j BY <2>1 DEF Spread
    <3>2. k \in DOMAIN t /\ k <= m BY <1>2, <1>3
    <3> QED BY <1>4, <3>1, <3>2
  <2>2. CASE i \notin 1..n
    <3>1. i = n + 1 BY <2>2
    <3>2. j \in 1..p BY <1>2, <1>5, <3>1
    <3>3. m + j \in DOMAIN t /\ ~(m + j <= m) /\ m + j - m = j BY <1>2, <1>3, <3>2
    <3> DEFINE k == m + j
    <3>4. k \in DOMAIN t /\ ~(k <= m) /\ k - m = j BY <1>2, <3>2, <3>3
    <3> HIDE DEF k
    <3>5. x[k] = i /\ y[k] = j BY <1>4, <3>1, <3>4
    <3> QED BY <3>4, <3>5
  <2> QED BY <2>1, <2>2
<1>8. ASSUME NEW k \in DOMAIN t, NEW l \in DOMAIN t, x[k] = x[l], y[k] = y[l] PROVE k = l
  <2>1. \A i \in DOMAIN t : i <= m => i \in DOMAIN a /\ x[i] \in 1..n
    <3> TAKE i \in DOMAIN t
    <3> HAVE i <= m
    <3>1. i \in DOMAIN a BY <1>2, <1>3
    <3>2. u[i] \in 1..n BY <3>1 DEF Spread
    <3> QED BY <1>4, <3>1, <3>2
  <2>2. \A i \in DOMAIN t : ~(i <= m) => x[i] \notin 1..n /\ y[i] = i - m BY <1>4
  <2>3. CASE k <= m
    <3>1. l <= m BY <1>8, <2>1, <2>2, <2>3
    <3>2. k \in DOMAIN a /\ l \in DOMAIN a BY <2>1, <2>3, <3>1
    <3>3. u[k] = u[l] /\ v[k] = v[l] BY <1>4, <1>8, <2>3, <3>1
    <3> QED BY <3>2, <3>3 DEF Spread
  <2>4. CASE ~(k <= m)
    <3>1. ~(l <= m) BY <1>8, <2>1, <2>2, <2>4
    <3>2. k - m = l - m BY <1>8, <2>2, <2>4, <3>1
    <3> QED BY <1>2, <1>3, <3>2
  <2> QED BY <2>3, <2>4
<1>9. Spread(t, s, n + 1, x, y) BY <1>6, <1>7, <1>8 DEF Spread
<1> QED BY <1>9 DEF t, b

\* Concatenating keeps each element of each list in one place.
LEMMA FlattenSpread ==
  ASSUME NEW S, NEW s \in Seq(Seq(S))
  PROVE  \E u, v : Spread(FlattenSeq(s), s, Len(s), u, v)
<1>1. CASE s = <<>>
  <2>1. FlattenSeq(s) = s /\ DOMAIN s = {} /\ Len(s) = 0 BY <1>1 DEF FlattenSeq
  <2>2. Spread(FlattenSeq(s), s, Len(s), s, s) BY <2>1 DEF Spread
  <2> QED BY <2>2
<1>2. CASE s # <<>>
  <2> DEFINE n == Len(s)
  <2>1. n \in Nat /\ n # 0 /\ DOMAIN s = 1..n /\ \A i \in 1..n : s[i] \in Seq(S) BY <1>2
  <2>2. PICK f : /\ f = [i \in 1..n |-> IF i = 1 THEN s[1] ELSE f[i - 1] \o s[i]]
                 /\ FlattenSeq(s) = f[n]
    BY <1>2, FlattenDef
  <2>3. \A k \in 1..n : f[k] = IF k = 1 THEN s[1] ELSE f[k - 1] \o s[k] BY <2>2
  <2> HIDE DEF n
  <2> DEFINE Good(i) == f[i] \in Seq(S) /\ \E u, v : Spread(f[i], s, i, u, v)
             T == {i \in Nat : i + 1 <= n => Good(i + 1)}
  <2>4. 0 \in T
    <3>1. f[1] = s[1] /\ s[1] \in Seq(S) BY <2>1, <2>3
    <3>2. <<>> \in Seq(S) /\ Spread(<<>>, s, 0, <<>>, <<>>) BY DEF Spread
    <3>3. 0 + 1 \in DOMAIN s BY <2>1
    <3>4. \E x, y : Spread(<<>> \o s[0 + 1], s, 0 + 1, x, y) BY <3>2, <3>3, SpreadStep
    <3>5. <<>> \o s[1] = s[1] BY <3>1
    <3> QED BY <3>1, <3>4, <3>5
  <2>5. ASSUME NEW i \in Nat, i \in T PROVE i + 1 \in T
    <3> SUFFICES ASSUME i + 1 + 1 <= n PROVE Good(i + 1 + 1)
      <4> HIDE DEF Good
      <4> QED OBVIOUS
    <3> DEFINE k == i + 1
    <3>1. k \in Nat /\ k # 0 /\ k + 1 \in DOMAIN s /\ k + 1 - 1 = k /\ k + 1 # 1 BY <2>1
    <3>2. Good(k)
      <4>1. k <= n BY <2>1
      <4> HIDE DEF Good
      <4> QED BY <2>5, <4>1
    <3> HIDE DEF k
    <3>3. f[k + 1] = f[k] \o s[k + 1]
      <4> DEFINE l == k + 1
      <4>1. l \in 1..n /\ l # 1 /\ l - 1 = k BY <2>1, <3>1
      <4> HIDE DEF l
      <4>2. f[l] = f[k] \o s[l] BY <2>3, <4>1
      <4> QED BY <4>2 DEF l
    <3>4. PICK u, v : Spread(f[k], s, k, u, v) BY <3>2
    <3>5. \E x, y : Spread(f[k] \o s[k + 1], s, k + 1, x, y) BY <3>1, <3>2, <3>4, SpreadStep
    <3>6. f[k] \o s[k + 1] \in Seq(S) BY <2>1, <3>1, <3>2
    <3>7. Good(k + 1) BY <3>3, <3>5, <3>6
    <3> QED BY <3>7 DEF k
  <2> HIDE DEF T
  <2>6. Nat \subseteq T BY <2>4, <2>5, Induction
  <2>7. Good(n)
    <3>1. n - 1 \in T /\ n - 1 \in Nat /\ n - 1 + 1 = n /\ n <= n BY <2>1, <2>6
    <3> HIDE DEF Good
    <3>2. n - 1 + 1 <= n => Good(n - 1 + 1) BY <3>1 DEF T
    <3> QED BY <3>1, <3>2
  <2> QED BY <2>1, <2>2, <2>7 DEF n
<1> QED BY <1>1, <1>2

\* Two sets of which each element of one stands for one of the other.
LEMMA SameSize ==
  ASSUME NEW S, NEW T, IsFiniteSet(S), NEW h \in [S -> T],
         \A x, y \in S : h[x] = h[y] => x = y, \A z \in T : \E x \in S : h[x] = z
  PROVE  IsFiniteSet(T) /\ Cardinality(T) = Cardinality(S) /\ Cardinality(S) \in Nat
<1>1. ExistsBijection(S, T)
  BY DEF ExistsBijection, Bijection, Injection, Surjection, IsInjective
<1> QED BY <1>1, FS_Bijection, FS_CardinalityType

-----------------------------------------------------------------------------
(* Recursion over a finite set, which is what the folds are.               *)

\* Each part's value is made from the value of the part without one element.
Folds(g, S, pick, base, step) ==
  g = [A \in SUBSET S |-> IF A = {} THEN base ELSE step[pick[A]][g[A \ {pick[A]}]]]

\* An element is picked of every part, and the steps stay within some values.
Foldable(S, pick, R, step) ==
  /\ \A A \in SUBSET S : A # {} => pick[A] \in A
  /\ \A x \in S : \A r \in R : step[x][r] \in R

\* Such a function of the parts of a finite set exists.
LEMMA FoldExists ==
  ASSUME NEW S, IsFiniteSet(S), NEW R, NEW base \in R, NEW pick, NEW step, Foldable(S, pick, R, step)
  PROVE  \E g : Folds(g, S, pick, base, step) /\ \A A \in SUBSET S : g[A] \in R
<1> USE DEF Folds, Foldable
<1> DEFINE Value(g, A) == IF A = {} THEN base ELSE step[pick[A]][g[A \ {pick[A]}]]
           Solves(g, n) == \A A \in SUBSET S :
                             Cardinality(A) <= n => g[A] = Value(g, A) /\ g[A] \in R
           T == {n \in Nat : \E g : Solves(g, n)}
<1>1. \A A \in SUBSET S : IsFiniteSet(A) /\ Cardinality(A) \in Nat
  BY FS_Subset, FS_CardinalityType
<1>2. ASSUME NEW A \in SUBSET S, A # {}
      PROVE  A \ {pick[A]} \in SUBSET S /\ Cardinality(A \ {pick[A]}) = Cardinality(A) - 1
  BY <1>1, <1>2, FS_RemoveElement
<1>3. 0 \in T
  <2> DEFINE g == [A \in SUBSET S |-> base]
  <2>1. ASSUME NEW A \in SUBSET S, Cardinality(A) <= 0 PROVE g[A] = Value(g, A)
    <3>1. A = {} BY <1>1, <2>1, FS_EmptySet
    <3> QED BY <3>1
  <2> HIDE DEF g, Value
  <2>2. \A A \in SUBSET S : g[A] \in R BY DEF g
  <2>3. Solves(g, 0) BY <2>1, <2>2
  <2> HIDE DEF Solves
  <2> QED BY <2>3
<1>4. ASSUME NEW n \in Nat, n \in T PROVE n + 1 \in T
  <2>1. PICK g : Solves(g, n) BY <1>4
  <2> DEFINE h == [A \in SUBSET S |-> IF Cardinality(A) <= n THEN g[A] ELSE Value(g, A)]
  <2>2. \A A \in SUBSET S : h[A] = Value(g, A) BY <2>1
  <2>3. \A A \in SUBSET S : Cardinality(A) <= n => h[A] = g[A] /\ g[A] \in R BY <2>1
  <2> HIDE DEF h
  <2>4. ASSUME NEW A \in SUBSET S, Cardinality(A) <= n + 1 PROVE h[A] = Value(h, A) /\ h[A] \in R
    <3>1. CASE A = {} BY <2>2, <3>1
    <3>2. CASE A # {}
      <4>1. A \ {pick[A]} \in SUBSET S /\ Cardinality(A \ {pick[A]}) <= n /\ pick[A] \in S
        BY <1>1, <1>2, <2>4, <3>2
      <4>2. h[A \ {pick[A]}] = g[A \ {pick[A]}] /\ g[A \ {pick[A]}] \in R BY <2>3, <4>1
      <4> QED BY <2>2, <3>2, <4>1, <4>2
    <3> QED BY <3>1, <3>2
  <2> HIDE DEF Value
  <2>5. Solves(h, n + 1) BY <2>4
  <2> HIDE DEF Solves
  <2> QED BY <2>5
<1> HIDE DEF T
<1>5. Nat \subseteq T BY <1>3, <1>4, Induction
<1>6. Cardinality(S) \in T BY <1>1, <1>5
<1>7. PICK g : Solves(g, Cardinality(S)) BY <1>6 DEF T
<1> DEFINE k == [A \in SUBSET S |-> g[A]]
<1>8. ASSUME NEW A \in SUBSET S PROVE k[A] = Value(k, A) /\ k[A] \in R
  <2>1. Cardinality(A) <= Cardinality(S) BY FS_Subset
  <2>2. g[A] = Value(g, A) /\ g[A] \in R BY <1>7, <2>1
  <2>3. A # {} => A \ {pick[A]} \in SUBSET S OBVIOUS
  <2> QED BY <2>2, <2>3
<1>9. k = [A \in SUBSET S |-> k[A]] OBVIOUS
<1> HIDE DEF k, Value
<1>10. k = [A \in SUBSET S |-> Value(k, A)] BY <1>8, <1>9
<1> QED BY <1>8, <1>10 DEF Value

\* The greatest of the first n numbers, and what is left without it.
LEMMA LastOfInterval ==
  /\ 1..0 = {}
  /\ \A n \in Nat : /\ 1..(n + 1) # {} /\ Max(1..(n + 1)) = n + 1
                    /\ (1..(n + 1)) \ {n + 1} = 1..n
<1> SUFFICES ASSUME NEW n \in Nat
             PROVE  1..(n + 1) # {} /\ Max(1..(n + 1)) = n + 1 /\ (1..(n + 1)) \ {n + 1} = 1..n
  OBVIOUS
<1>1. n + 1 \in 1..(n + 1) /\ \A y \in 1..(n + 1) : n + 1 >= y OBVIOUS
<1>2. Max(1..(n + 1)) \in 1..(n + 1) /\ \A y \in 1..(n + 1) : Max(1..(n + 1)) >= y
  BY <1>1 DEF Max
<1>3. Max(1..(n + 1)) = n + 1 BY <1>1, <1>2
<1> QED BY <1>1, <1>3

\* Numbers up to n have a greatest.
LEMMA MaxFacts ==
  ASSUME NEW n \in Nat, NEW A \in SUBSET (1..n), A # {}
  PROVE  Max(A) \in A /\ \A y \in A : Max(A) >= y
<1> DEFINE T == {n - y : y \in A}
<1>1. T \in SUBSET Nat /\ T # {}
  <2>1. \A y \in A : n - y \in Nat OBVIOUS
  <2> QED BY <2>1
<1>2. PICK m \in T : \A k \in T : m <= k BY <1>1, NatMinimum
<1>3. PICK x \in A : m = n - x BY <1>2
<1>4. \A y \in A : x >= y
  <2> TAKE y \in A
  <2>1. n - y \in T OBVIOUS
  <2>2. n - x <= n - y BY <1>2, <1>3, <2>1
  <2> QED BY <2>2
<1> QED BY <1>4 DEF Max
=============================================================================
