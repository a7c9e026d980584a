--------------------------- MODULE ManifestProofs ---------------------------
(***************************************************************************)
(* Proofs about the contents of what is mined, for every manifest and      *)
(* every list of records: what the readers make of a manifest, what a      *)
(* miner counts, and that it counts repositories.                          *)
(***************************************************************************)
EXTENDS MiningProperties, SequenceLemmas

-----------------------------------------------------------------------------
(* What the operators of Manifests return.                                 *)

\* Of the positions of a list of keys, those that are the first with theirs.
Lead(I, key, n) ==
  /\ I \in SUBSET (1..n)
  /\ \A i \in 1..n : i \in I <=> \A j \in 1..(i - 1) : key[j] # key[i]

LEMMA Leaders ==
  ASSUME NEW n \in Nat, NEW key, NEW I, Lead(I, key, n)
  PROVE  /\ \A i, j \in I : key[i] = key[j] => i = j
         /\ \A k \in 1..n : \E i \in I : key[i] = key[k]
<1> USE DEF Lead
<1>1. ASSUME NEW i \in I, NEW j \in I, key[i] = key[j] PROVE i = j
  <2>1. i \in 1..n /\ j \in 1..n OBVIOUS
  <2>2. ~(i < j)
    <3> SUFFICES ASSUME i < j PROVE FALSE OBVIOUS
    <3>1. i \in 1..(j - 1) BY <2>1
    <3> QED BY <1>1, <3>1
  <2>3. ~(j < i)
    <3> SUFFICES ASSUME j < i PROVE FALSE OBVIOUS
    <3>1. j \in 1..(i - 1) BY <2>1
    <3> QED BY <1>1, <3>1
  <2> QED BY <2>1, <2>2, <2>3
<1>2. ASSUME NEW k \in 1..n PROVE \E i \in I : key[i] = key[k]
  <2> DEFINE T == {i \in 1..n : key[i] = key[k]}
  <2>1. T \in SUBSET Nat /\ T # {} OBVIOUS
  <2>2. PICK i \in T : \A j \in T : i <= j
    <3> HIDE DEF T
    <3> QED BY <2>1, NatMinimum
  <2>3. ASSUME NEW j \in 1..(i - 1) PROVE key[j] # key[i]
    <3>1. j \in 1..n /\ ~(i <= j) OBVIOUS
    <3> QED BY <2>2, <3>1
  <2> QED BY <2>3
<1> QED BY <1>1, <1>2

\* The distinct values of a list.
LEMMA FirstsFacts ==
  ASSUME NEW S, NEW s \in Seq(S)
  PROVE  Firsts(s) \in Seq(S) /\ ToSet(Firsts(s)) = ToSet(s) /\ IsInjective(Firsts(s))
<1> DEFINE I == {i \in DOMAIN s : \A j \in 1..(i - 1) : s[j] # s[i]}
           t == Picked(s, I)
           before == [i \in I |-> {j \in I : j < i}]
<1>1. DOMAIN s = 1..Len(s) /\ Len(s) \in Nat OBVIOUS
<1>2. I \in SUBSET DOMAIN s OBVIOUS
<1>3. Firsts(s) = t BY DEF Firsts
<1>4. /\ \A i, j \in I : s[i] = s[j] => i = j
      /\ \A k \in DOMAIN s : \E i \in I : s[i] = s[k]
  <2> DEFINE n == Len(s)
  <2>1. n \in Nat /\ Lead(I, s, n) BY <1>1 DEF Lead
  <2> HIDE DEF I, n
  <2>2. /\ \A i, j \in I : s[i] = s[j] => i = j
        /\ \A k \in 1..n : \E i \in I : s[i] = s[k]
    BY <2>1, Leaders
  <2> QED BY <1>1, <2>2 DEF n
<1> HIDE DEF I, t
<1>5. Selection(t, s, I, before, S) BY <1>2, PickedFacts DEF t
<1>6. /\ t \in Seq(S) /\ ToSet(t) = {s[i] : i \in I} BY <1>5 DEF Selection
<1>7. PICK at : Draws(at, t, s, I) BY <1>5 DEF Selection
<1>8. ToSet(t) = ToSet(s)
  <2>1. ToSet(s) = {s[k] : k \in DOMAIN s} BY DEF ToSet
  <2> QED BY <1>2, <1>4, <1>6, <2>1
<1>9. ASSUME NEW j \in DOMAIN t, NEW k \in DOMAIN t, t[j] = t[k] PROVE j = k
  <2>1. at[j] \in I /\ at[k] \in I /\ s[at[j]] = s[at[k]] BY <1>7, <1>9 DEF Draws
  <2>2. at[j] = at[k] BY <1>4, <2>1
  <2> QED BY <1>7, <2>2 DEF Draws
<1> QED BY <1>3, <1>6, <1>8, <1>9 DEF IsInjective

\* A list of dependencies in which no name is twice.
Distinct(deps) == \A i, j \in DOMAIN deps : deps[i].name = deps[j].name => i = j

LEMMA FirstOfNameFacts ==
  ASSUME NEW S, NEW s \in Seq(S)
  PROVE  /\ FirstOfName(s) \in Seq(S) /\ ToSet(FirstOfName(s)) \subseteq ToSet(s)
         /\ Distinct(FirstOfName(s))
         /\ {d.name : d \in ToSet(FirstOfName(s))} = {d.name : d \in ToSet(s)}
<1> DEFINE key == [i \in DOMAIN s |-> s[i].name]
           I == {i \in DOMAIN s : \A j \in 1..(i - 1) : s[j].name # s[i].name}
           t == Picked(s, I)
           before == [i \in I |-> {j \in I : j < i}]
<1>1. DOMAIN s = 1..Len(s) /\ Len(s) \in Nat OBVIOUS
<1>2. I \in SUBSET DOMAIN s OBVIOUS
<1>3. FirstOfName(s) = t BY DEF FirstOfName
<1>4. /\ \A i, j \in I : s[i].name = s[j].name => i = j
      /\ \A k \in DOMAIN s : \E i \in I : s[i].name = s[k].name
  <2> DEFINE n == Len(s)
  <2>1. n \in Nat /\ DOMAIN s = 1..n BY <1>1
  <2>2. \A i \in DOMAIN s : key[i] = s[i].name OBVIOUS
  <2> HIDE DEF n, key
  <2>3. Lead(I, key, n)
    <3>1. \A i \in 1..n : \A j \in 1..(i - 1) : j \in DOMAIN s BY <2>1
    <3> QED BY <2>1, <2>2, <3>1 DEF Lead
  <2>4. I \subseteq DOMAIN s OBVIOUS
  <2> HIDE DEF I
  <2>5. /\ \A i, j \in I : key[i] = key[j] => i = j
        /\ \A k \in 1..n : \E i \in I : key[i] = key[k]
    BY <2>1, <2>3, Leaders
  <2> QED BY <2>1, <2>2, <2>4, <2>5
<1> HIDE DEF I, t
<1>5. Selection(t, s, I, before, S) BY <1>2, PickedFacts DEF t
<1>6. /\ t \in Seq(S) /\ ToSet(t) = {s[i] : i \in I} BY <1>5 DEF Selection
<1>7. PICK at : Draws(at, t, s, I) BY <1>5 DEF Selection
<1>8. ToSet(t) \subseteq ToSet(s) BY <1>2, <1>6 DEF ToSet
<1>9. ASSUME NEW j \in DOMAIN t, NEW k \in DOMAIN t, t[j].name = t[k].name PROVE j = k
  <2>1. at[j] \in I /\ at[k] \in I /\ s[at[j]].name = s[at[k]].name BY <1>7, <1>9 DEF Draws
  <2>2. at[j] = at[k] BY <1>4, <2>1
  <2> QED BY <1>7, <2>2 DEF Draws
<1>10. ASSUME NEW d \in ToSet(s) PROVE \E e \in ToSet(t) : e.name = d.name
  <2>1. PICK k \in DOMAIN s : d = s[k] BY DEF ToSet
  <2>2. PICK i \in I : s[i].name = s[k].name BY <1>4
  <2> QED BY <1>6, <2>1, <2>2
<1>11. {d.name : d \in ToSet(t)} = {d.name : d \in ToSet(s)} BY <1>8, <1>10
<1> QED BY <1>3, <1>6, <1>8, <1>9, <1>11 DEF Distinct

LEMMA FirstsOfName ==
  ASSUME NEW S, NEW s \in Seq(S)
  PROVE  ToSet(FirstOfName(s)) =
           {s[j] : j \in {i \in DOMAIN s : \A h \in 1..(i - 1) : s[h].name # s[i].name}}
<1> DEFINE I == {i \in DOMAIN s : \A h \in 1..(i - 1) : s[h].name # s[i].name}
<1>1. I \in SUBSET DOMAIN s OBVIOUS
<1>2. FirstOfName(s) = Picked(s, I) BY DEF FirstOfName
<1> HIDE DEF I
<1>3. ToSet(Picked(s, I)) = {s[i] : i \in I} BY <1>1, PickedFacts DEF Selection
<1> QED BY <1>2, <1>3 DEF I

\* A list in which no name is twice loses none.
LEMMA DistinctStays ==
  ASSUME NEW S, NEW s \in Seq(S), Distinct(s)
  PROVE  ToSet(FirstOfName(s)) = ToSet(s)
<1> DEFINE I == {i \in DOMAIN s : \A h \in 1..(i - 1) : s[h].name # s[i].name}
<1>1. DOMAIN s = 1..Len(s) /\ Len(s) \in Nat OBVIOUS
<1>2. ASSUME NEW i \in DOMAIN s, NEW h \in 1..(i - 1) PROVE s[h].name # s[i].name
  <2>1. h \in DOMAIN s /\ h # i BY <1>1
  <2> QED BY <2>1 DEF Distinct
<1>3. I = DOMAIN s BY <1>2
<1>4. ToSet(FirstOfName(s)) = {s[j] : j \in I} BY FirstsOfName
<1> HIDE DEF I
<1> QED BY <1>3, <1>4 DEF ToSet

\* How often a value is in a list.
Positions(s, x) == {i \in DOMAIN s : s[i] = x}

LEMMA CountFacts ==
  ASSUME NEW S, NEW s \in Seq(S), NEW x
  PROVE  /\ IsFiniteSet(Positions(s, x)) /\ Count(s, x) = Cardinality(Positions(s, x))
         /\ Count(s, x) \in Nat /\ Count(s, x) <= Len(s)
<1> DEFINE A == {i \in DOMAIN s : s[i] = x}
<1>1. DOMAIN s = 1..Len(s) /\ Len(s) \in Nat OBVIOUS
<1>2. IsFiniteSet(DOMAIN s) /\ Cardinality(DOMAIN s) = Len(s) BY <1>1, IntervalSize
<1>3. A \subseteq DOMAIN s OBVIOUS
<1> HIDE DEF A
<1>4. IsFiniteSet(A) /\ Cardinality(A) \in Nat /\ Cardinality(A) <= Len(s)
  BY <1>2, <1>3, FS_Subset, FS_CardinalityType
<1> QED BY <1>4 DEF Count, A, Positions

\* Counter.most_common: each value once, by how often it is there.
LEMMA MostCommonFacts ==
  ASSUME NEW S, NEW s \in Seq(S)
  PROVE  /\ MostCommon(s) \in Seq(S) /\ ToSet(MostCommon(s)) = ToSet(s)
         /\ IsInjective(MostCommon(s))
         /\ \A j, k \in DOMAIN MostCommon(s) :
              j < k => Count(s, MostCommon(s)[j]) >= Count(s, MostCommon(s)[k])
<1> DEFINE f == Firsts(s)
           D == DOMAIN f
           c == [i \in D |-> Count(s, f[i])]
           R == [i \in D |-> {j \in D : c[j] > c[i]}]
           before == [i \in D |-> {j \in D : j \in R[i] \/ (i \notin R[j] /\ j < i)}]
           t == PickedBy(f, D, before)
<1>1. f \in Seq(S) /\ ToSet(f) = ToSet(s) /\ IsInjective(f) BY FirstsFacts
<1>2. MostCommon(s) = t
  <2> DEFINE b == [i \in D |-> {j \in D : Count(s, f[j]) > Count(s, f[i])
                                          \/ (~(Count(s, f[i]) > Count(s, f[j])) /\ j < i)}]
  <2>1. MostCommon(s) = PickedBy(f, D, b) BY DEF MostCommon, Sorted
  <2>2. \A i \in D : c[i] = Count(s, f[i]) OBVIOUS
  <2>3. \A i, j \in D : j \in R[i] <=> c[j] > c[i] OBVIOUS
  <2> HIDE DEF f, c, R
  <2>4. b = before BY <2>2, <2>3
  <2> QED BY <2>1, <2>4
<1>3. \A i \in D : c[i] = Count(s, f[i]) /\ c[i] \in Nat BY CountFacts
<1>4. D = 1..Len(f) /\ Len(f) \in Nat /\ D \in SUBSET Nat BY <1>1
<1> HIDE DEF f, c, t
<1>5. /\ R \in [D -> SUBSET D]
      /\ \A i, j \in D : j \in R[i] <=> c[j] > c[i]
  OBVIOUS
<1> HIDE DEF R
<1>6. /\ \A i, j \in D : i \in R[j] => j \notin R[i]
      /\ \A i, j, k \in D : i \in R[j] => i \in R[k] \/ k \in R[j]
  BY <1>3, <1>5
<1> HIDE DEF D
<1>7. Orders(D, before) BY <1>4, <1>5, <1>6, StableOrder
<1>8. D \in SUBSET DOMAIN f BY DEF D
<1>9. \A i \in D : before[i] = {j \in D : j \in R[i] \/ (i \notin R[j] /\ j < i)} OBVIOUS
<1> HIDE DEF before
<1>10. Selection(t, f, D, before, S) BY <1>1, <1>7, <1>8, PickedByFacts DEF t
<1>11. /\ t \in Seq(S) /\ ToSet(t) = {f[i] : i \in D} /\ IsInjective(t)
  BY <1>1, <1>10 DEF Selection
<1>12. ToSet(t) = ToSet(s) BY <1>1, <1>11 DEF ToSet, D
<1>13. PICK at : /\ Draws(at, t, f, D)
                 /\ \A j, k \in DOMAIN t : j < k <=> at[j] \in before[at[k]]
  BY <1>10 DEF Selection
<1>14. ASSUME NEW j \in DOMAIN t, NEW k \in DOMAIN t, j < k
       PROVE  Count(s, t[j]) >= Count(s, t[k])
  <2>1. /\ at[j] \in D /\ at[k] \in D /\ t[j] = f[at[j]] /\ t[k] = f[at[k]]
        /\ at[j] \in before[at[k]]
    BY <1>13, <1>14 DEF Draws
  <2>2. at[j] \in R[at[k]] \/ at[k] \notin R[at[j]] BY <1>9, <2>1
  <2>3. ~(c[at[k]] > c[at[j]]) BY <1>5, <1>6, <2>1, <2>2
  <2> QED BY <1>3, <2>1, <2>3
<1> QED BY <1>2, <1>11, <1>12, <1>14

\* A list made from another one element by element.
LEMMA MapFacts ==
  ASSUME NEW S, NEW s \in Seq(S), NEW t, t = [i \in DOMAIN s |-> t[i]],
         NEW T, \A i \in DOMAIN s : t[i] \in T
  PROVE  /\ t \in Seq(T) /\ Len(t) = Len(s) /\ DOMAIN t = DOMAIN s
         /\ ToSet(t) = {t[i] : i \in DOMAIN s}
<1>1. DOMAIN s = 1..Len(s) /\ Len(s) \in Nat OBVIOUS
<1>2. t = [i \in 1..Len(s) |-> t[i]] /\ \A i \in 1..Len(s) : t[i] \in T BY <1>1
<1>3. t \in Seq(T) /\ Len(t) = Len(s) /\ DOMAIN t = DOMAIN s BY <1>1, <1>2
<1> QED BY <1>3 DEF ToSet

\* Who names a package: the lists that have it.
Naming(parts, x) == {i \in DOMAIN parts : \E d \in ToSet(parts[i]) : d.name = x}

\* A list of names has each as often as there are lists that name it.
Tallied(names, parts) ==
  \A x : /\ IsFiniteSet(Naming(parts, x)) /\ Count(names, x) = Cardinality(Naming(parts, x))
         /\ x \in ToSet(names) <=> Naming(parts, x) # {}

\* One vote per list: as often as a name is in lists without repetition put together,
\* so many of them have it.
LEMMA VotesCounted ==
  ASSUME NEW S, NEW parts \in Seq(Seq(S)), \A i \in DOMAIN parts : Distinct(parts[i]),
         NEW names, NEW T, names = Project(FlattenSeq(parts), "name"), \A d \in S : d.name \in T
  PROVE  FlattenSeq(parts) \in Seq(S) /\ names \in Seq(T) /\ Tallied(names, parts)
<1> DEFINE votes == FlattenSeq(parts)
<1>1. votes \in Seq(S) /\ ToSet(votes) = UNION {ToSet(parts[i]) : i \in DOMAIN parts}
  BY FlattenFacts
<1>2. PICK u, v : Spread(votes, parts, Len(parts), u, v) BY FlattenSpread
<1> HIDE DEF votes
<1>3. names = Project(votes, "name") BY DEF votes
<1>4. /\ names \in Seq(T) /\ DOMAIN names = DOMAIN votes
      /\ \A k \in DOMAIN votes : names[k] = votes[k].name
      /\ ToSet(names) = {d.name : d \in ToSet(votes)}
  <2>1. \A k \in DOMAIN votes : votes[k] \in S BY <1>1
  <2>2. names = [k \in DOMAIN votes |-> votes[k].name] BY <1>3 DEF Project
  <2>3. names = [k \in DOMAIN votes |-> names[k]] /\ \A k \in DOMAIN votes : names[k] = votes[k].name
    BY <2>2
  <2>4. \A k \in DOMAIN votes : names[k] \in T BY <2>1, <2>3
  <2>5. /\ names \in Seq(T) /\ DOMAIN names = DOMAIN votes
        /\ ToSet(names) = {names[k] : k \in DOMAIN votes}
    BY <1>1, <2>3, <2>4, MapFacts
  <2>6. ToSet(votes) = {votes[k] : k \in DOMAIN votes} BY DEF ToSet
  <2>7. ToSet(names) = {d.name : d \in ToSet(votes)} BY <2>3, <2>5, <2>6
  <2> QED BY <2>3, <2>5, <2>7
<1>5. DOMAIN parts = 1..Len(parts) OBVIOUS
<1>6. ASSUME NEW x
      PROVE  /\ IsFiniteSet(Naming(parts, x)) /\ Count(names, x) = Cardinality(Naming(parts, x))
             /\ x \in ToSet(names) <=> Naming(parts, x) # {}
  <2> DEFINE A == Positions(names, x)
             B == Naming(parts, x)
             h == [k \in A |-> u[k]]
  <2>1. \A k \in A : k \in DOMAIN votes /\ votes[k].name = x BY <1>4 DEF Positions
  <2>2. \A k \in DOMAIN votes : votes[k].name = x => k \in A BY <1>4 DEF Positions
  <2>3. IsFiniteSet(A) /\ Count(names, x) = Cardinality(A) BY <1>4, CountFacts
  <2>9. x \in ToSet(names) <=> A # {} BY DEF Positions, ToSet
  <2> HIDE DEF A
  <2>4. ASSUME NEW k \in A
        PROVE  /\ u[k] \in DOMAIN parts /\ v[k] \in DOMAIN parts[u[k]]
               /\ parts[u[k]][v[k]].name = x /\ u[k] \in B
    <3>1. k \in DOMAIN votes /\ votes[k].name = x BY <2>1
    <3>2. u[k] \in DOMAIN parts /\ v[k] \in DOMAIN parts[u[k]] /\ votes[k] = parts[u[k]][v[k]]
      BY <1>2, <1>5, <3>1 DEF Spread
    <3>3. parts[u[k]][v[k]] \in ToSet(parts[u[k]]) BY <3>2 DEF ToSet
    <3> QED BY <3>1, <3>2, <3>3 DEF Naming
  <2>5. \A k, m \in A : u[k] = u[m] => k = m
    <3> TAKE k \in A, m \in A
    <3> HAVE u[k] = u[m]
    <3>1. v[k] = v[m] BY <2>4 DEF Distinct
    <3> QED BY <1>2, <2>1, <3>1 DEF Spread
  <2>6. ASSUME NEW i \in B PROVE \E k \in A : u[k] = i
    <3>1. PICK d \in ToSet(parts[i]) : d.name = x BY DEF Naming
    <3>2. i \in DOMAIN parts BY DEF Naming
    <3>3. PICK j \in DOMAIN parts[i] : parts[i][j] = d BY <3>1 DEF ToSet
    <3>4. PICK k \in DOMAIN votes : u[k] = i /\ v[k] = j BY <1>2, <1>5, <3>2 DEF Spread
    <3>5. votes[k] = parts[i][j] BY <1>2, <3>4 DEF Spread
    <3> QED BY <2>2, <3>1, <3>3, <3>4, <3>5
  <2>7. h \in [A -> B] /\ \A k \in A : h[k] = u[k] BY <2>4
  <2> HIDE DEF h, B
  <2>8. IsFiniteSet(B) /\ Cardinality(B) = Cardinality(A)
    <3>1. \A k, m \in A : h[k] = h[m] => k = m BY <2>5, <2>7
    <3>2. \A i \in B : \E k \in A : h[k] = i BY <2>6, <2>7
    <3> QED BY <2>3, <2>7, <3>1, <3>2, SameSize
  <2>10. A # {} <=> B # {} BY <2>6, <2>7
  <2> QED BY <2>3, <2>8, <2>9, <2>10 DEF B
<1> QED BY <1>1, <1>4, <1>6 DEF votes, Tallied

\* A package's version is one of those it is named with.
LEMMA ModalFacts ==
  ASSUME NEW S, NEW votes \in Seq(S), NEW x, \E d \in ToSet(votes) : d.name = x
  PROVE  \E d \in ToSet(votes) : d.name = x /\ Modal(votes, x) = d.version
<1> DEFINE I == {i \in DOMAIN votes : votes[i].name = x}
           own == Picked(votes, I)
           V == {d.version : d \in S}
           versions == Project(own, "version")
<1>1. Modal(votes, x) = Head(MostCommon(versions)) BY DEF Modal, Kept
<1>2. own \in Seq(S) /\ ToSet(own) = {d \in ToSet(votes) : d.name = x}
  <2>1. I \in SUBSET DOMAIN votes OBVIOUS
  <2>2. {votes[i] : i \in I} = {d \in ToSet(votes) : d.name = x} BY DEF ToSet
  <2> HIDE DEF I
  <2> QED BY <2>1, <2>2, PickedFacts DEF Selection
<1> HIDE DEF own
<1>3. versions \in Seq(V) /\ ToSet(versions) = {d.version : d \in ToSet(own)}
  <2>1. \A d \in S : d.version \in V OBVIOUS
  <2> HIDE DEF V
  <2>2. versions = [k \in DOMAIN own |-> own[k].version] BY DEF Project
  <2> HIDE DEF versions
  <2>3. /\ versions = [k \in DOMAIN own |-> versions[k]]
        /\ \A k \in DOMAIN own : versions[k] = own[k].version
    BY <2>2
  <2>4. \A k \in DOMAIN own : versions[k] \in V BY <1>2, <2>1, <2>3
  <2>5. versions \in Seq(V) /\ ToSet(versions) = {versions[k] : k \in DOMAIN own}
    BY <1>2, <2>3, <2>4, MapFacts
  <2>6. ToSet(own) = {own[k] : k \in DOMAIN own} BY DEF ToSet
  <2> QED BY <2>3, <2>5, <2>6
<1> HIDE DEF versions, V
<1> DEFINE t == MostCommon(versions)
<1>4. t \in Seq(V) /\ ToSet(t) = ToSet(versions) BY <1>3, MostCommonFacts
<1> HIDE DEF t
<1>5. ToSet(versions) # {} BY <1>2, <1>3
<1>6. t # <<>>
  <2>1. ToSet(<<>>) = {} BY DEF ToSet
  <2> QED BY <1>4, <1>5, <2>1
<1>7. Head(t) \in ToSet(t) BY <1>4, <1>6, TailFacts
<1> QED BY <1>1, <1>2, <1>3, <1>4, <1>7 DEF t

\* Who gives a package a version, and which has the most behind it.
Bearing(parts, x, w) == {i \in DOMAIN parts : \E d \in ToSet(parts[i]) : d.name = x /\ d.version = w}
MostBorne(parts, x, w) ==
  /\ Bearing(parts, x, w) # {}
  /\ \A y : Cardinality(Bearing(parts, x, y)) <= Cardinality(Bearing(parts, x, w))

\* The votes for a version.
Cast(votes, x, w) == {k \in DOMAIN votes : votes[k].name = x /\ votes[k].version = w}

LEMMA VersionsCounted ==
  ASSUME NEW S, NEW parts \in Seq(Seq(S)), \A i \in DOMAIN parts : Distinct(parts[i]),
         NEW x, NEW w
  PROVE  /\ Cardinality(Cast(FlattenSeq(parts), x, w)) = Cardinality(Bearing(parts, x, w))
         /\ Cast(FlattenSeq(parts), x, w) # {} <=> Bearing(parts, x, w) # {}
<1> DEFINE votes == FlattenSeq(parts)
           A == Cast(votes, x, w)
           B == Bearing(parts, x, w)
<1>1. votes \in Seq(S) BY FlattenFacts
<1>2. PICK u, v : Spread(votes, parts, Len(parts), u, v) BY FlattenSpread
<1> HIDE DEF votes
<1>3. DOMAIN parts = 1..Len(parts) OBVIOUS
<1>4. \A k : k \in A <=> k \in DOMAIN votes /\ votes[k].name = x /\ votes[k].version = w BY DEF Cast
<1>5. \A i : i \in B <=> i \in DOMAIN parts /\ \E d \in ToSet(parts[i]) : d.name = x /\ d.version = w
  BY DEF Bearing
<1> HIDE DEF A, B
<1>6. ASSUME NEW k \in A
      PROVE  /\ u[k] \in DOMAIN parts /\ v[k] \in DOMAIN parts[u[k]]
             /\ parts[u[k]][v[k]].name = x /\ u[k] \in B
  <2>1. k \in DOMAIN votes /\ votes[k].name = x /\ votes[k].version = w BY <1>4
  <2>2. u[k] \in DOMAIN parts /\ v[k] \in DOMAIN parts[u[k]] /\ votes[k] = parts[u[k]][v[k]]
    BY <1>2, <1>3, <2>1 DEF Spread
  <2>3. parts[u[k]][v[k]] \in ToSet(parts[u[k]]) BY <2>2 DEF ToSet
  <2> QED BY <1>5, <2>1, <2>2, <2>3
<1>7. ASSUME NEW k \in A, NEW m \in A, u[k] = u[m] PROVE k = m
  <2>1. v[k] = v[m] BY <1>6, <1>7 DEF Distinct
  <2> QED BY <1>2, <1>4, <1>7, <2>1 DEF Spread
<1>8. ASSUME NEW i \in B PROVE \E k \in A : u[k] = i
  <2>1. i \in DOMAIN parts BY <1>5
  <2>2. PICK d \in ToSet(parts[i]) : d.name = x /\ d.version = w BY <1>5
  <2>3. PICK j \in DOMAIN parts[i] : parts[i][j] = d BY <2>2 DEF ToSet
  <2>4. PICK k \in DOMAIN votes : u[k] = i /\ v[k] = j BY <1>2, <1>3, <2>1 DEF Spread
  <2>5. votes[k] = parts[i][j] BY <1>2, <2>4 DEF Spread
  <2> QED BY <1>4, <2>2, <2>3, <2>4, <2>5
<1>9. IsFiniteSet(A)
  <2>1. DOMAIN votes = 1..Len(votes) /\ Len(votes) \in Nat BY <1>1
  <2>2. IsFiniteSet(DOMAIN votes) BY <2>1, IntervalSize
  <2>3. A \subseteq DOMAIN votes BY <1>4
  <2> QED BY <2>2, <2>3, FS_Subset
<1>10. Cardinality(B) = Cardinality(A)
  <2> DEFINE h == [k \in A |-> u[k]]
  <2>1. h \in [A -> B] /\ \A k \in A : h[k] = u[k] BY <1>6
  <2> HIDE DEF h
  <2>2. \A k, m \in A : h[k] = h[m] => k = m BY <1>7, <2>1
  <2>3. \A i \in B : \E k \in A : h[k] = i BY <1>8, <2>1
  <2> QED BY <1>9, <2>1, <2>2, <2>3, SameSize
<1>11. A # {} <=> B # {} BY <1>6, <1>8
<1> QED BY <1>10, <1>11 DEF A, B, votes

\* most_common(1): the version with the most votes.
LEMMA ModalCast ==
  ASSUME NEW S, NEW votes \in Seq(S), NEW x, \E d \in ToSet(votes) : d.name = x
  PROVE  /\ Cast(votes, x, Modal(votes, x)) # {}
         /\ \A w : Cardinality(Cast(votes, x, w)) <= Cardinality(Cast(votes, x, Modal(votes, x)))
<1> DEFINE I == {i \in DOMAIN votes : votes[i].name = x}
           own == Picked(votes, I)
           V == {d.version : d \in S}
           versions == Project(own, "version")
<1>1. Modal(votes, x) = Head(MostCommon(versions)) BY DEF Modal, Kept
<1>2. /\ own \in Seq(S) /\ ToSet(own) = {d \in ToSet(votes) : d.name = x}
      /\ \E at : Draws(at, own, votes, I)
  <2>1. I \in SUBSET DOMAIN votes OBVIOUS
  <2>2. {votes[i] : i \in I} = {d \in ToSet(votes) : d.name = x} BY DEF ToSet
  <2> HIDE DEF I
  <2>3. Selection(own, votes, I, [i \in I |-> {j \in I : j < i}], S) BY <2>1, PickedFacts
  <2> HIDE DEF own
  <2> QED BY <2>2, <2>3 DEF Selection
<1>3. PICK at : Draws(at, own, votes, I) BY <1>2
<1>4. \A i : i \in I <=> i \in DOMAIN votes /\ votes[i].name = x OBVIOUS
<1> HIDE DEF own, I
<1>5. /\ versions \in Seq(V) /\ DOMAIN versions = DOMAIN own
      /\ \A k \in DOMAIN own : versions[k] = own[k].version
  <2>1. \A d \in S : d.version \in V OBVIOUS
  <2> HIDE DEF V
  <2>2. versions = [k \in DOMAIN own |-> own[k].version] BY DEF Project
  <2> HIDE DEF versions
  <2>3. /\ versions = [k \in DOMAIN own |-> versions[k]]
        /\ \A k \in DOMAIN own : versions[k] = own[k].version
    BY <2>2
  <2>4. \A k \in DOMAIN own : versions[k] \in V BY <1>2, <2>1, <2>3
  <2> QED BY <1>2, <2>3, <2>4, MapFacts
<1> HIDE DEF versions, V
<1> DEFINE t == MostCommon(versions)
           m == Head(t)
<1>6. /\ t \in Seq(V) /\ ToSet(t) = ToSet(versions)
      /\ \A j, k \in DOMAIN t : j < k => Count(versions, t[j]) >= Count(versions, t[k])
  BY <1>5, MostCommonFacts
<1>7. ASSUME NEW w
      PROVE  /\ Count(versions, w) = Cardinality(Cast(votes, x, w)) /\ Count(versions, w) \in Nat
             /\ w \in ToSet(versions) <=> Cast(votes, x, w) # {}
  <2> DEFINE A == Positions(versions, w)
             B == Cast(votes, x, w)
             h == [k \in A |-> at[k]]
  <2>1. /\ \A k : k \in A <=> k \in DOMAIN own /\ own[k].version = w
        /\ \A k \in A : k \in DOMAIN own
    BY <1>5 DEF Positions
  <2>2. \A i : i \in B <=> i \in I /\ votes[i].version = w BY <1>4 DEF Cast
  <2>3. IsFiniteSet(A) /\ Count(versions, w) = Cardinality(A) /\ Count(versions, w) \in Nat
    BY <1>5, CountFacts
  <2>4. w \in ToSet(versions) <=> A # {} BY DEF Positions, ToSet
  <2> HIDE DEF A, B
  <2>5. h \in [A -> B] /\ \A k \in A : h[k] = at[k]
    <3>1. \A k \in A : at[k] \in B BY <1>3, <2>1, <2>2 DEF Draws
    <3> QED BY <3>1
  <2> HIDE DEF h
  <2>6. \A j, k \in A : h[j] = h[k] => j = k BY <1>3, <2>1, <2>5 DEF Draws
  <2>7. ASSUME NEW i \in B PROVE \E k \in A : h[k] = i
    <3>1. PICK k \in DOMAIN own : at[k] = i BY <1>3, <2>2 DEF Draws
    <3>2. own[k] = votes[i] BY <1>3, <3>1 DEF Draws
    <3> QED BY <2>1, <2>2, <2>5, <3>1, <3>2
  <2>8. Cardinality(B) = Cardinality(A) BY <2>3, <2>5, <2>6, <2>7, SameSize
  <2>9. A # {} <=> B # {} BY <2>5, <2>7
  <2> QED BY <2>3, <2>4, <2>8, <2>9 DEF B
<1>8. ToSet(versions) # {}
  <2>1. PICK d \in ToSet(own) : d.name = x BY <1>2
  <2>2. PICK k \in DOMAIN own : own[k] = d BY DEF ToSet
  <2> QED BY <1>5, <2>2 DEF ToSet
<1> HIDE DEF t
<1>9. t # <<>>
  <2>1. ToSet(<<>>) = {} BY DEF ToSet
  <2> QED BY <1>6, <1>8, <2>1
<1>10. m \in ToSet(versions) BY <1>6, <1>9, TailFacts
<1>11. 1 \in DOMAIN t /\ m = t[1] /\ DOMAIN t = 1..Len(t) BY <1>6, <1>9
<1> HIDE DEF m
<1>12. ASSUME NEW w PROVE Count(versions, w) <= Count(versions, m)
  <2>1. CASE w \in ToSet(versions)
    <3>1. PICK k \in DOMAIN t : t[k] = w BY <1>6, <2>1 DEF ToSet
    <3>2. k = 1 \/ 1 < k BY <1>11
    <3> QED BY <1>6, <1>7, <1>11, <3>1, <3>2
  <2>2. CASE w \notin ToSet(versions)
    <3>1. Count(versions, w) = 0 BY <1>7, <2>2, FS_EmptySet
    <3> QED BY <1>7, <3>1
  <2> QED BY <2>1, <2>2
<1>13. Cast(votes, x, m) # {} BY <1>7, <1>10
<1>14. \A w : Cardinality(Cast(votes, x, w)) <= Cardinality(Cast(votes, x, m)) BY <1>7, <1>12
<1> QED BY <1>1, <1>13, <1>14 DEF m, t

\* The version of a package that the most lists give it.
LEMMA ModalIsMostBorne ==
  ASSUME NEW S, NEW parts \in Seq(Seq(S)), \A i \in DOMAIN parts : Distinct(parts[i]),
         NEW x, Naming(parts, x) # {}
  PROVE  MostBorne(parts, x, Modal(FlattenSeq(parts), x))
<1> DEFINE votes == FlattenSeq(parts)
           m == Modal(votes, x)
<1>1. votes \in Seq(S) /\ ToSet(votes) = UNION {ToSet(parts[i]) : i \in DOMAIN parts} BY FlattenFacts
<1>2. \A w : /\ Cardinality(Cast(votes, x, w)) = Cardinality(Bearing(parts, x, w))
             /\ Cast(votes, x, w) # {} <=> Bearing(parts, x, w) # {}
  BY VersionsCounted
<1> HIDE DEF votes
<1>3. \E d \in ToSet(votes) : d.name = x BY <1>1 DEF Naming
<1>4. /\ Cast(votes, x, m) # {}
      /\ \A w : Cardinality(Cast(votes, x, w)) <= Cardinality(Cast(votes, x, m))
  BY <1>1, <1>3, ModalCast
<1> HIDE DEF m
<1>5. MostBorne(parts, x, m) BY <1>2, <1>4 DEF MostBorne
<1> QED BY <1>5 DEF m, votes

-----------------------------------------------------------------------------
(* The readers of the manifests.                                           *)

\* What the reader knows after each line: at[k] after the first k of them.
ReaderStates == [inBlock : BOOLEAN, deps : Seq(GoDeps)]

Reading(at, text) ==
  /\ at[0] = [inBlock |-> FALSE, deps |-> <<>>]
  /\ \A k \in Nat : k + 1 <= Len(text) => at[k + 1] = ReadGoLine(at[k], text[k + 1])
  /\ \A k \in Nat : k <= Len(text) => at[k] \in ReaderStates

LEMMA ReadGoLineType ==
  ASSUME NEW at \in ReaderStates, NEW line \in GoModLines
  PROVE  ReadGoLine(at, line) \in ReaderStates
<1> DEFINE b == IF at.inBlock THEN line.kind # "close" ELSE OpensRequire(line)
           d == IF line.kind = (IF at.inBlock THEN "entry" ELSE "single") /\ ~MarkedIndirect(line)
                THEN Append(at.deps, line.dep) ELSE at.deps
<1>1. ReadGoLine(at, line) = [inBlock |-> b, deps |-> d] BY DEF ReadGoLine
<1>2. b \in BOOLEAN
  <2>1. OpensRequire(line) \in BOOLEAN BY DEF OpensRequire
  <2> QED BY <2>1
<1>3. d \in Seq(GoDeps)
  <2>1. at.deps \in Seq(GoDeps) BY DEF ReaderStates
  <2>2. line.dep \in GoDeps BY DEF GoModLines
  <2>3. Append(at.deps, line.dep) \in Seq(GoDeps)
    <3> DEFINE a == at.deps
               e == line.dep
    <3> HIDE DEF a, e
    <3>1. a \in Seq(GoDeps) /\ e \in GoDeps BY <2>1, <2>2 DEF a, e
    <3>2. Append(a, e) \in Seq(GoDeps) BY <3>1
    <3> QED BY <3>2 DEF a, e
  <2> QED BY <2>1, <2>3
<1> HIDE DEF b, d
<1>4. ASSUME NEW B, NEW D, b \in B, d \in D
      PROVE  [inBlock |-> b, deps |-> d] \in [inBlock : B, deps : D]
  BY <1>4, Zenon
<1>5. [inBlock |-> b, deps |-> d] \in [inBlock : BOOLEAN, deps : Seq(GoDeps)]
  BY <1>2, <1>3, <1>4, Zenon
<1> QED BY <1>1, <1>5, Zenon DEF ReaderStates

LEMMA ParseSteps ==
  ASSUME NEW text \in Seq(GoModLines)
  PROVE  \E at : Reading(at, text) /\ ParseGoMod(text) = at[Len(text)].deps
<1> DEFINE n == Len(text)
           base == [inBlock |-> FALSE, deps |-> <<>>]
           step == [i \in 1..n |-> [r \in ReaderStates |-> ReadGoLine(r, text[i])]]
           pick == [A \in SUBSET (1..n) |-> Max(A)]
           IsFold(g) == g = [A \in SUBSET (1..n) |-> IF A = {} THEN base
                              ELSE ReadGoLine(g[A \ {Max(A)}], text[Max(A)])]
           fold == CHOOSE g : IsFold(g)
           at == [k \in Nat |-> fold[1..k]]
<1>1. n \in Nat /\ DOMAIN text = 1..n /\ \A i \in 1..n : text[i] \in GoModLines OBVIOUS
<1>2. ParseGoMod(text) = fold[1..n].deps
  <2>1. ParseGoMod(text) = fold[DOMAIN text].deps BY <1>1 DEF ParseGoMod, FoldLeft, MapThenFoldSet
  <2> QED BY <1>1, <2>1
<1> HIDE DEF n
<1>3. base \in ReaderStates
  <2>1. <<>> \in Seq(GoDeps) OBVIOUS
  <2> QED BY <2>1 DEF ReaderStates
<1> HIDE DEF base
<1>4. \A A \in SUBSET (1..n) : A # {} => Max(A) \in A BY <1>1, MaxFacts
<1>5. \E g : IsFold(g)
  <2>1. IsFiniteSet(1..n) BY <1>1, IntervalSize
  <2>2. \A A \in SUBSET (1..n) : A # {} => pick[A] \in A BY <1>4
  <2>3. \A i \in 1..n : \A r \in ReaderStates :
          step[i][r] = ReadGoLine(r, text[i]) /\ step[i][r] \in ReaderStates
    BY <1>1, ReadGoLineType
  <2>4. \A A \in SUBSET (1..n) : pick[A] = Max(A) OBVIOUS
  <2> HIDE DEF step, pick
  <2>8. \A i \in 1..n : \A r \in ReaderStates : step[i][r] \in ReaderStates BY <2>3
  <2>9. Foldable(1..n, pick, ReaderStates, step) BY <2>2, <2>8 DEF Foldable
  <2>5. PICK g : Folds(g, 1..n, pick, base, step) /\ \A A \in SUBSET (1..n) : g[A] \in ReaderStates
    BY <1>3, <2>1, <2>9, FoldExists
  <2>6. ASSUME NEW A \in SUBSET (1..n), A # {}
        PROVE  step[pick[A]][g[A \ {pick[A]}]] = ReadGoLine(g[A \ {Max(A)}], text[Max(A)])
    <3>1. pick[A] \in 1..n /\ pick[A] = Max(A) BY <2>2, <2>4, <2>6
    <3>2. A \ {pick[A]} \in SUBSET (1..n) OBVIOUS
    <3>3. g[A \ {pick[A]}] \in ReaderStates BY <2>5, <3>2
    <3> QED BY <2>3, <3>1, <3>3
  <2>7. IsFold(g) BY <2>5, <2>6 DEF Folds
  <2> HIDE DEF IsFold
  <2> QED BY <2>7
<1>6. IsFold(fold)
  <2> HIDE DEF IsFold
  <2> QED BY <1>5
<1>7. \A k \in Nat : at[k] = fold[1..k] OBVIOUS
<1> HIDE DEF fold, at
<1>8. at[0] = base
  <2>1. {} \in SUBSET (1..n) /\ 1..0 = {} OBVIOUS
  <2> QED BY <1>6, <1>7, <2>1
<1>9. ASSUME NEW k \in Nat, k + 1 <= n PROVE at[k + 1] = ReadGoLine(at[k], text[k + 1])
  <2> DEFINE A == 1..(k + 1)
  <2>0. A \in SUBSET (1..n) BY <1>1, <1>9
  <2>4. A # {} /\ Max(A) = k + 1 /\ A \ {k + 1} = 1..k BY LastOfInterval
  <2>1. A \in SUBSET (1..n) /\ A # {} /\ Max(A) = k + 1 /\ A \ {k + 1} = 1..k BY <2>0, <2>4
  <2>2. at[k + 1] = fold[A] /\ at[k] = fold[1..k] BY <1>7
  <2> HIDE DEF A
  <2>3. fold[A] = ReadGoLine(fold[A \ {Max(A)}], text[Max(A)]) BY <1>6, <2>1
  <2> QED BY <2>1, <2>2, <2>3
<1>10. \A k \in Nat : k <= n => at[k] \in ReaderStates
  <2> DEFINE T == {k \in Nat : k <= n => at[k] \in ReaderStates}
  <2>1. 0 \in T BY <1>3, <1>8
  <2>2. ASSUME NEW k \in Nat, k \in T PROVE k + 1 \in T
    <3> SUFFICES ASSUME k + 1 <= n PROVE at[k + 1] \in ReaderStates OBVIOUS
    <3>1. at[k] \in ReaderStates /\ k + 1 \in 1..n BY <1>1, <2>2
    <3> QED BY <1>1, <1>9, <3>1, ReadGoLineType
  <2> HIDE DEF T
  <2>3. Nat \subseteq T BY <2>1, <2>2, Induction
  <2> QED BY <2>3 DEF T
<1>11. Reading(at, text) BY <1>8, <1>9, <1>10 DEF Reading, n, base
<1>12. ParseGoMod(text) = at[n].deps BY <1>1, <1>2, <1>7
<1> QED BY <1>11, <1>12 DEF n

\* The last of the first k lines that is of one of some kinds, or 0.
Lasts(text, kinds, k) == {i \in 1..k : text[i].kind \in kinds}
LastOf(text, kinds, k) == IF Lasts(text, kinds, k) # {} THEN Max(Lasts(text, kinds, k)) ELSE 0

Opens == {"open", "open other"}
Brackets == {"open", "open other", "close"}

LEMMA LastOfFacts ==
  ASSUME NEW text, NEW kinds, NEW k \in Nat
  PROVE  /\ LastOf(text, kinds, k) \in 0..k
         /\ LastOf(text, kinds, k) # 0 => text[LastOf(text, kinds, k)].kind \in kinds
         /\ \A i \in 1..k : text[i].kind \in kinds => LastOf(text, kinds, k) # 0 /\ LastOf(text, kinds, k) >= i
<1> DEFINE I == Lasts(text, kinds, k)
           m == Max(I)
<1>1. I \in SUBSET (1..k) BY DEF Lasts
<1>2. CASE I = {} BY <1>2 DEF LastOf, Lasts
<1>3. CASE I # {}
  <2>1. LastOf(text, kinds, k) = m BY <1>3 DEF LastOf
  <2> HIDE DEF m
  <2>2. m \in I /\ \A y \in I : m >= y BY <1>1, <1>3, MaxFacts DEF m
  <2> QED BY <2>1, <2>2 DEF Lasts
<1> QED BY <1>2, <1>3

\* One line further it is that line or the same as before.
LEMMA LastOfStep ==
  ASSUME NEW text, NEW kinds, NEW k \in Nat
  PROVE  /\ text[k + 1].kind \in kinds => LastOf(text, kinds, k + 1) = k + 1
         /\ text[k + 1].kind \notin kinds => LastOf(text, kinds, k + 1) = LastOf(text, kinds, k)
<1>1. CASE text[k + 1].kind \in kinds
  <2> DEFINE m == LastOf(text, kinds, k + 1)
  <2>1. m \in 0..(k + 1) /\ \A i \in 1..(k + 1) : text[i].kind \in kinds => m # 0 /\ m >= i
    BY LastOfFacts
  <2> HIDE DEF m
  <2>2. m >= k + 1 BY <1>1, <2>1
  <2>3. m = k + 1 BY <2>1, <2>2
  <2> QED BY <1>1, <2>3 DEF m
<1>2. CASE text[k + 1].kind \notin kinds
  <2>1. Lasts(text, kinds, k + 1) = Lasts(text, kinds, k)
    <3>1. ASSUME NEW i \in 1..(k + 1), text[i].kind \in kinds PROVE i \in 1..k
      <4>1. i # k + 1 BY <1>2, <3>1
      <4> QED BY <4>1
    <3>2. 1..k \subseteq 1..(k + 1) OBVIOUS
    <3> QED BY <3>1, <3>2 DEF Lasts
  <2> QED BY <1>2, <2>1 DEF LastOf
<1> QED BY <1>1, <1>2

\* A last bracket that opens is the last that opens.
LEMMA LastOpening ==
  ASSUME NEW text, NEW k \in Nat, LastOf(text, Brackets, k) # 0,
         text[LastOf(text, Brackets, k)].kind \in Opens
  PROVE  LastOf(text, Opens, k) = LastOf(text, Brackets, k)
<1> DEFINE m == LastOf(text, Brackets, k)
           o == LastOf(text, Opens, k)
<1>1. m \in 0..k /\ \A i \in 1..k : text[i].kind \in Brackets => m >= i BY LastOfFacts
<1>2. /\ o \in 0..k /\ (o # 0 => text[o].kind \in Opens)
      /\ \A i \in 1..k : text[i].kind \in Opens => o # 0 /\ o >= i
  BY LastOfFacts
<1>3. m # 0 /\ text[m].kind \in Opens /\ Opens \subseteq Brackets BY DEF Opens, Brackets
<1> HIDE DEF m, o
<1>4. o # 0 /\ o >= m BY <1>1, <1>2, <1>3
<1>5. m >= o BY <1>1, <1>2, <1>3, <1>4
<1>6. o = m BY <1>1, <1>2, <1>4, <1>5
<1> QED BY <1>6 DEF m, o

\* Blocks by their last brackets.
LEMMA BlocksByBrackets ==
  ASSUME NEW text \in Seq(GoModLines), NEW k \in Nat, k + 1 <= Len(text)
  PROVE  /\ InBlock(text, k + 1) <=> LastOf(text, Brackets, k) # 0
                                     /\ text[LastOf(text, Brackets, k)].kind # "close"
         /\ text[k + 1].kind \notin Opens =>
              (InRequireBlock(text, k + 1) <=> LastOf(text, Opens, k) # 0
                                               /\ text[LastOf(text, Opens, k)].kind = "open")
<1>1. InBlock(text, k + 1) <=> LastOf(text, Brackets, k + 1 - 1) # 0
                               /\ text[LastOf(text, Brackets, k + 1 - 1)].kind # "close"
  BY DEF InBlock, SelectLastInSubSeq, LastOf, Lasts, Brackets
<1>2. InRequireBlock(text, k + 1) <=> LastOf(text, Opens, k + 1) # 0
                                      /\ text[LastOf(text, Opens, k + 1)].kind = "open"
  BY DEF InRequireBlock, SelectLastInSubSeq, LastOf, Lasts, Opens
<1>3. k + 1 - 1 = k OBVIOUS
<1>4. text[k + 1].kind \notin Opens => LastOf(text, Opens, k + 1) = LastOf(text, Opens, k)
  BY LastOfStep
<1> QED BY <1>1, <1>2, <1>3, <1>4

\* The reader's step, field by field.
LEMMA ReadGoLineFields ==
  ASSUME NEW r, NEW l
  PROVE  /\ ReadGoLine(r, l).inBlock = IF r.inBlock THEN l.kind # "close" ELSE OpensRequire(l)
         /\ ReadGoLine(r, l).deps =
              IF l.kind = (IF r.inBlock THEN "entry" ELSE "single") /\ ~MarkedIndirect(l)
              THEN Append(r.deps, l.dep) ELSE r.deps
<1> DEFINE b == IF r.inBlock THEN l.kind # "close" ELSE OpensRequire(l)
           d == IF l.kind = (IF r.inBlock THEN "entry" ELSE "single") /\ ~MarkedIndirect(l)
                THEN Append(r.deps, l.dep) ELSE r.deps
<1>1. ReadGoLine(r, l) = [inBlock |-> b, deps |-> d] BY DEF ReadGoLine
<1> HIDE DEF b, d
<1>2. ReadGoLine(r, l).inBlock = b BY <1>1
<1>3. ReadGoLine(r, l).deps = d BY <1>1
<1> QED BY <1>2, <1>3 DEF b, d

\* After k lines the reader is in a require block only if the last bracket opens one,
\* and always then if no comment confuses it.
InStep(at, text, k) ==
  LET m == LastOf(text, Brackets, k) IN
  /\ at[k].inBlock => m # 0 /\ text[m].kind = "open"
  /\ Plain(text) /\ m # 0 /\ text[m].kind = "open" => at[k].inBlock

LEMMA ReaderInStep ==
  ASSUME NEW text \in Seq(GoModLines), WellFormed(text), NEW at, Reading(at, text)
  PROVE  \A k \in Nat : k <= Len(text) => InStep(at, text, k)
<1> DEFINE T == {k \in Nat : k <= Len(text) => InStep(at, text, k)}
<1>1. 0 \in T
  <2>1. LastOf(text, Brackets, 0) \in 0..0 BY LastOfFacts
  <2>2. LastOf(text, Brackets, 0) = 0 BY <2>1
  <2>3. at[0].inBlock = FALSE BY DEF Reading
  <2>4. InStep(at, text, 0) BY <2>2, <2>3, Zenon DEF InStep
  <2> QED BY <2>4
<1>2. ASSUME NEW k \in Nat, k \in T PROVE k + 1 \in T
  <2> SUFFICES ASSUME k + 1 <= Len(text) PROVE InStep(at, text, k + 1) OBVIOUS
  <2>12. /\ text[k + 1].kind \in Brackets => LastOf(text, Brackets, k + 1) = k + 1
         /\ text[k + 1].kind \notin Brackets =>
              LastOf(text, Brackets, k + 1) = LastOf(text, Brackets, k)
    BY <1>2, LastOfStep, Zenon
  <2> DEFINE m == LastOf(text, Brackets, k)
             n == LastOf(text, Brackets, k + 1)
             l == text[k + 1]
             b == at[k].inBlock
             c == at[k + 1].inBlock
  <2>1. InStep(at, text, k) BY <1>2
  <2>2. k + 1 \in DOMAIN text /\ l \in GoModLines OBVIOUS
  <2>3. n = IF l.kind \in Brackets THEN k + 1 ELSE m BY <2>12
  <2>4. l.kind = "other" \/ ((m # 0 /\ text[m].kind # "close") <=> l.kind \in {"entry", "close"})
    BY <2>2, BlocksByBrackets DEF WellFormed
  <2>5. c = (IF b THEN l.kind # "close" ELSE OpensRequire(l))
    <3>1. at[k + 1] = ReadGoLine(at[k], l) BY DEF Reading
    <3> QED BY <3>1, ReadGoLineFields
  <2>6. Plain(text) /\ l.kind = "open" => l.note = "none" BY <2>2 DEF Plain
  <2>7. (b => m # 0 /\ text[m].kind = "open") /\ (Plain(text) /\ m # 0 /\ text[m].kind = "open" => b)
    BY <2>1 DEF InStep
  <2>8. l.kind \in {"open", "open other", "single", "entry", "close", "other"}
    BY <2>2 DEF GoModLines
  <2>9. k + 1 # 0 /\ text[k + 1] = l OBVIOUS
  <2> HIDE DEF m, n, l, b, c
  <2>10. CASE b
    <3>1. m # 0 /\ text[m].kind = "open" /\ l.kind \in {"other", "entry", "close"}
      BY <2>4, <2>7, <2>8, <2>10
    <3>2. c <=> l.kind # "close" BY <2>5, <2>10
    <3>3. CASE l.kind = "close"
      <4>1. n = k + 1 /\ text[n].kind = "close" /\ ~c BY <2>3, <2>9, <3>2, <3>3 DEF Brackets
      <4> QED BY <4>1 DEF InStep, n, c
    <3>4. CASE l.kind # "close"
      <4>1. n = m /\ c BY <2>3, <3>1, <3>2, <3>4 DEF Brackets
      <4> QED BY <3>1, <4>1 DEF InStep, n, c
    <3> QED BY <3>3, <3>4
  <2>11. CASE ~b
    <3>1. c <=> l.kind = "open" /\ l.note = "none" BY <2>5, <2>11 DEF OpensRequire
    <3>2. CASE l.kind \in Brackets
      <4>1. n = k + 1 /\ text[n] = l BY <2>3, <2>9, <3>2
      <4>2. (c => n # 0 /\ text[n].kind = "open")
            /\ (Plain(text) /\ n # 0 /\ text[n].kind = "open" => c)
        BY <2>6, <2>9, <3>1, <4>1
      <4> QED BY <4>2 DEF InStep, n, c
    <3>3. CASE l.kind \notin Brackets
      <4>1. n = m /\ ~c BY <2>3, <3>1, <3>3 DEF Brackets
      <4>2. Plain(text) /\ n # 0 /\ text[n].kind = "open" => c BY <2>7, <2>11, <4>1
      <4> QED BY <4>1, <4>2 DEF InStep, n, c
    <3> QED BY <3>2, <3>3
  <2> QED BY <2>10, <2>11
<1> HIDE DEF T
<1>3. Nat \subseteq T BY <1>1, <1>2, Induction
<1> QED BY <1>3 DEF T

\* The lines up to k that Go takes for direct requirements.
Direct(text, k) ==
  {j \in 1..k : /\ text[j].kind = "single" \/ (text[j].kind = "entry" /\ InRequireBlock(text, j))
                /\ text[j].note # "indirect"}
DirectDeps(text, k) == {text[j].dep : j \in Direct(text, k)}

\* What has been extracted after k lines.
ReadSoFar(at, text, k) ==
  /\ ToSet(at[k].deps) \subseteq DirectDeps(text, k)
  /\ Plain(text) => DirectDeps(text, k) \subseteq ToSet(at[k].deps)

\* One line more.
LEMMA DirectStep ==
  ASSUME NEW text, NEW k \in Nat
  PROVE  /\ k + 1 \in Direct(text, k + 1) =>
              DirectDeps(text, k + 1) = DirectDeps(text, k) \cup {text[k + 1].dep}
         /\ k + 1 \notin Direct(text, k + 1) => DirectDeps(text, k + 1) = DirectDeps(text, k)
<1>1. \A j \in 1..k : j \in Direct(text, k) <=> j \in Direct(text, k + 1) BY DEF Direct
<1>2. Direct(text, k) \subseteq 1..k /\ Direct(text, k + 1) \subseteq 1..(k + 1) BY DEF Direct
<1>3. \A j \in 1..(k + 1) : j \in 1..k \/ j = k + 1 OBVIOUS
<1>4. Direct(text, k) = Direct(text, k + 1) \ {k + 1}
  <2>1. \A j \in 1..k : j # k + 1 OBVIOUS
  <2> QED BY <1>1, <1>2, <1>3, <2>1
<1> QED BY <1>4 DEF DirectDeps

\* A line is extracted only if it is direct, and each that is unless a comment confuses.
LEMMA LineIsRead ==
  ASSUME NEW text \in Seq(GoModLines), WellFormed(text), NEW at, Reading(at, text),
         NEW k \in Nat, k + 1 <= Len(text)
  PROVE  LET l == text[k + 1]
             taken == l.kind = (IF at[k].inBlock THEN "entry" ELSE "single") /\ ~MarkedIndirect(l)
         IN /\ taken => k + 1 \in Direct(text, k + 1)
            /\ Plain(text) /\ k + 1 \in Direct(text, k + 1) => taken
<1> DEFINE l == text[k + 1]
           m == LastOf(text, Brackets, k)
           o == LastOf(text, Opens, k)
           b == at[k].inBlock
           direct == k + 1 \in Direct(text, k + 1)
           inside == InRequireBlock(text, k + 1)
<1>1. k + 1 \in DOMAIN text /\ l \in GoModLines OBVIOUS
<1>2. (b => m # 0 /\ text[m].kind = "open") /\ (Plain(text) /\ m # 0 /\ text[m].kind = "open" => b)
  <2>1. InStep(at, text, k) BY ReaderInStep
  <2> QED BY <2>1 DEF InStep
<1>3. l.kind = "other" \/ ((m # 0 /\ text[m].kind # "close") <=> l.kind \in {"entry", "close"})
  BY <1>1, BlocksByBrackets DEF WellFormed
<1>4. m # 0 /\ text[m].kind \in Opens => o = m BY LastOpening
<1>5. l.kind \notin Opens => (inside <=> o # 0 /\ text[o].kind = "open") BY BlocksByBrackets
<1>6. direct <=> (l.kind = "single" \/ (l.kind = "entry" /\ inside)) /\ l.note # "indirect"
  <2>1. k + 1 \in 1..(k + 1) OBVIOUS
  <2> QED BY <2>1 DEF Direct
<1>7. Plain(text) => l.note # "mentions indirect" BY <1>1 DEF Plain
<1>8. MarkedIndirect(l) <=> l.note \in {"indirect", "mentions indirect"} BY DEF MarkedIndirect
<1>9. m # 0 => text[m].kind \in Brackets BY LastOfFacts
<1>10. b \in BOOLEAN
  <2>1. at[k] \in ReaderStates BY DEF Reading
  <2> QED BY <2>1 DEF ReaderStates
<1> SUFFICES /\ l.kind = (IF b THEN "entry" ELSE "single") /\ ~MarkedIndirect(l) => direct
             /\ Plain(text) /\ direct =>
                  l.kind = (IF b THEN "entry" ELSE "single") /\ ~MarkedIndirect(l)
  OBVIOUS
<1> HIDE DEF l, m, o, b, direct, inside
<1>11. ASSUME l.kind = (IF b THEN "entry" ELSE "single"), ~MarkedIndirect(l) PROVE direct
  <2>1. CASE b
    <3>1. l.kind = "entry" /\ m # 0 /\ text[m].kind = "open" BY <1>2, <1>11, <2>1
    <3>2. inside BY <1>4, <1>5, <3>1 DEF Opens
    <3> QED BY <1>6, <1>8, <1>11, <3>1, <3>2
  <2>2. CASE ~b BY <1>6, <1>8, <1>11, <2>2
  <2> QED BY <1>10, <2>1, <2>2
<1>12. ASSUME Plain(text), direct
       PROVE  l.kind = (IF b THEN "entry" ELSE "single") /\ ~MarkedIndirect(l)
  <2>1. ~MarkedIndirect(l) BY <1>6, <1>7, <1>8, <1>12
  <2>2. CASE l.kind = "single"
    <3>1. ~(m # 0 /\ text[m].kind # "close") BY <1>3, <2>2
    <3>2. ~b BY <1>2, <3>1
    <3> QED BY <2>1, <2>2, <3>2
  <2>3. CASE l.kind = "entry" /\ inside
    <3>1. m # 0 /\ text[m].kind # "close" BY <1>3, <2>3
    <3>2. text[m].kind \in Opens BY <1>9, <3>1 DEF Brackets, Opens
    <3>3. o = m /\ text[o].kind = "open" BY <1>4, <1>5, <2>3, <3>1, <3>2 DEF Opens
    <3>4. b BY <1>2, <1>12, <3>1, <3>3
    <3> QED BY <2>1, <2>3, <3>4
  <2> QED BY <1>6, <1>12, <2>2, <2>3
<1> QED BY <1>11, <1>12

LEMMA ReaderReads ==
  ASSUME NEW text \in Seq(GoModLines), WellFormed(text), NEW at, Reading(at, text)
  PROVE  \A k \in Nat : k <= Len(text) => ReadSoFar(at, text, k)
<1> DEFINE T == {k \in Nat : k <= Len(text) => ReadSoFar(at, text, k)}
<1>1. 0 \in T
  <2>1. at[0].deps = <<>> BY DEF Reading
  <2>2. ToSet(<<>>) = {} BY DEF ToSet
  <2>3. DirectDeps(text, 0) = {} BY DEF DirectDeps, Direct
  <2>4. ReadSoFar(at, text, 0) BY <2>1, <2>2, <2>3, Zenon DEF ReadSoFar
  <2> QED BY <2>4
<1>2. ASSUME NEW k \in Nat, k \in T PROVE k + 1 \in T
  <2> SUFFICES ASSUME k + 1 <= Len(text) PROVE ReadSoFar(at, text, k + 1) OBVIOUS
  <2> DEFINE l == text[k + 1]
             taken == l.kind = (IF at[k].inBlock THEN "entry" ELSE "single") /\ ~MarkedIndirect(l)
             direct == k + 1 \in Direct(text, k + 1)
  <2>1. ReadSoFar(at, text, k) BY <1>2
  <2>2. at[k] \in ReaderStates BY DEF Reading
  <2>3. at[k + 1].deps = IF taken THEN Append(at[k].deps, l.dep) ELSE at[k].deps
    <3>1. at[k + 1] = ReadGoLine(at[k], l) BY DEF Reading
    <3> QED BY <3>1, ReadGoLineFields
  <2>4. at[k].deps \in Seq(GoDeps) /\ l.dep \in GoDeps
    <3>1. l \in GoModLines OBVIOUS
    <3> QED BY <2>2, <3>1 DEF ReaderStates, GoModLines
  <2>5. ToSet(Append(at[k].deps, l.dep)) = ToSet(at[k].deps) \cup {l.dep} BY <2>4, AppendFacts
  <2>6. (taken => direct) /\ (Plain(text) /\ direct => taken) BY LineIsRead
  <2>7. /\ direct => DirectDeps(text, k + 1) = DirectDeps(text, k) \cup {l.dep}
        /\ ~direct => DirectDeps(text, k + 1) = DirectDeps(text, k)
    BY DirectStep
  <2> HIDE DEF taken, direct, l
  <2>8. CASE taken
    <3>1. ToSet(at[k + 1].deps) = ToSet(at[k].deps) \cup {l.dep} BY <2>3, <2>5, <2>8
    <3>2. DirectDeps(text, k + 1) = DirectDeps(text, k) \cup {l.dep} BY <2>6, <2>7, <2>8
    <3> QED BY <2>1, <3>1, <3>2, Zenon DEF ReadSoFar
  <2>9. CASE ~taken
    <3>1. at[k + 1].deps = at[k].deps BY <2>3, <2>9
    <3>2. DirectDeps(text, k) \subseteq DirectDeps(text, k + 1) BY <2>7
    <3>3. Plain(text) => DirectDeps(text, k + 1) = DirectDeps(text, k) BY <2>6, <2>7, <2>9
    <3> QED BY <2>1, <3>1, <3>2, <3>3, Zenon DEF ReadSoFar
  <2> QED BY <2>8, <2>9
<1> HIDE DEF T
<1>3. Nat \subseteq T BY <1>1, <1>2, Induction
<1> QED BY <1>3 DEF T

\* For every go.mod, of any length: the reader extracts only direct requirements, and
\* all of them unless a comment confuses it.
THEOREM RequirementsRead == Spec => []GoRequirementsRead
<1>1. ASSUME NEW text \in ShortGoMods
      PROVE  /\ ToSet(ParseGoMod(text)) \subseteq DirectRequires(text)
             /\ Plain(text) => ToSet(ParseGoMod(text)) = DirectRequires(text)
  <2>1. text \in Seq(GoModLines) /\ WellFormed(text)
    BY ShortGoModsAssumption DEF ShortGoModsAssumption
  <2>2. PICK at : Reading(at, text) /\ ParseGoMod(text) = at[Len(text)].deps BY <2>1, ParseSteps
  <2>3. ReadSoFar(at, text, Len(text)) BY <2>1, <2>2, ReaderReads
  <2>4. DirectRequires(text) = DirectDeps(text, Len(text))
    <3>1. DOMAIN text = 1..Len(text) BY <2>1
    <3> QED BY <3>1 DEF DirectRequires, DirectDeps, Direct
  <2> DEFINE read == ToSet(ParseGoMod(text))
  <2>5. /\ read \subseteq DirectDeps(text, Len(text))
        /\ Plain(text) => DirectDeps(text, Len(text)) \subseteq read
    BY <2>2, <2>3, Zenon DEF ReadSoFar
  <2> HIDE DEF read
  <2>6. read \subseteq DirectRequires(text) /\ (Plain(text) => read = DirectRequires(text))
    BY <2>4, <2>5
  <2> QED BY <2>6 DEF read
<1>2. GoRequirementsRead BY <1>1 DEF GoRequirementsRead
<1> QED BY <1>2, PTL

-----------------------------------------------------------------------------
(* The records of the miners.                                              *)

\* No package twice, and none without a manifest.
GoodRecords(l) ==
  IF l = "go" THEN {rec \in GoRecords : /\ Distinct(rec.direct_deps)
                                        /\ ~rec.has_gomod => rec.direct_deps = <<>>}
  ELSE {rec \in RustRecords : ~rec.cargo_toml_found => rec.direct_deps = <<>>}

LEMMA GoRecordIsGood ==
  ASSUME NEW r \in Repos, NEW text \in {Missing} \cup Seq(GoModLines)
  PROVE  GoRecord(r, text) \in GoodRecords("go")
<1> DEFINE deps == IF text = Missing THEN <<>> ELSE FirstOfName(ParseGoMod(text))
           has == text # Missing
           rec == GoRecord(r, text)
<1>1. deps \in Seq(GoDeps) /\ Distinct(deps) /\ (~has => deps = <<>>)
  <2>1. CASE text = Missing
    <3>1. deps = <<>> BY <2>1
    <3>2. deps \in Seq(GoDeps) /\ Distinct(deps)
      <4>1. <<>> \in Seq(GoDeps) /\ DOMAIN <<>> = {} OBVIOUS
      <4>2. Distinct(<<>>) BY <4>1 DEF Distinct
      <4> HIDE DEF deps
      <4> QED BY <3>1, <4>1, <4>2
    <3> QED BY <3>1, <3>2
  <2>2. CASE text # Missing
    <3>1. PICK at : Reading(at, text) /\ ParseGoMod(text) = at[Len(text)].deps BY <2>2, ParseSteps
    <3>2. Len(text) \in Nat BY <2>2
    <3>3. at[Len(text)] \in ReaderStates BY <3>1, <3>2 DEF Reading
    <3>4. ParseGoMod(text) \in Seq(GoDeps) BY <3>1, <3>3 DEF ReaderStates
    <3>5. deps = FirstOfName(ParseGoMod(text)) /\ has BY <2>2
    <3> HIDE DEF deps, has
    <3> QED BY <3>4, <3>5, FirstOfNameFacts
  <2> QED BY <2>1, <2>2
<1>2. has \in BOOLEAN OBVIOUS
<1>3. rec = [full_name |-> r, has_gomod |-> has, direct_deps |-> deps] BY DEF GoRecord
<1> HIDE DEF deps, has, rec
<1>4. rec.has_gomod = has BY <1>3, Zenon
<1>5. rec.direct_deps = deps BY <1>3
<1>6. rec \in GoRecords BY <1>1, <1>2, <1>3, Zenon DEF GoRecords
<1>7. Distinct(rec.direct_deps) /\ (~rec.has_gomod => rec.direct_deps = <<>>)
  BY <1>1, <1>4, <1>5, Zenon
<1>8. rec \in GoodRecords("go") BY <1>6, <1>7, Zenon DEF GoodRecords
<1> QED BY <1>8 DEF rec

\* What mine_rust.py writes of a dependency.
CrateDeps == [crate : STRING, version : CrateVersions \cup {Sourced("git"), Sourced("path")}]

LEMMA ExtractDepsType ==
  ASSUME NEW table \in Seq(CargoEntries)
  PROVE  ExtractDeps(table) \in Seq(CrateDeps)
<1> DEFINE I == {i \in DOMAIN table : ~table[i].table \/ table[i].version # NoVersion
                                      \/ table[i].source # ""}
           named == Picked(table, I)
           Version(e) == IF e.table /\ e.version = NoVersion THEN Sourced(e.source) ELSE e.version
           t == [i \in DOMAIN named |-> [crate |-> named[i].crate, version |-> Version(named[i])]]
<1>0. \A i \in DOMAIN table : table[i] \in CargoEntries
  <2> HIDE DEF t, named
  <2> QED OBVIOUS
<1>1. ExtractDeps(table) = t BY DEF ExtractDeps, Kept
<1>2. named \in Seq(CargoEntries) /\ ToSet(named) = {table[i] : i \in I}
  <2>1. I \in SUBSET DOMAIN table OBVIOUS
  <2> HIDE DEF I
  <2> QED BY <2>1, PickedFacts DEF Selection
<1>3. ASSUME NEW e \in ToSet(named) PROVE [crate |-> e.crate, version |-> Version(e)] \in CrateDeps
  <2>1. PICK i \in DOMAIN table : e = table[i] /\ (~e.table \/ e.version # NoVersion \/ e.source # "")
    BY <1>2
  <2>2. table[i] \in CargoEntries BY <1>0
  <2>3. /\ e.crate \in STRING /\ e.version \in CrateVersions /\ e.source \in {"", "git", "path"}
    BY <2>1, <2>2 DEF CargoEntries
  <2>4. Version(e) \in CrateVersions \cup {Sourced("git"), Sourced("path")}
    <3>1. CASE e.table /\ e.version = NoVersion
      <4>1. e.source = "git" \/ e.source = "path" BY <2>1, <2>3, <3>1
      <4> QED BY <3>1, <4>1
    <3>2. CASE ~(e.table /\ e.version = NoVersion) BY <2>3, <3>2
    <3> QED BY <3>1, <3>2
  <2> HIDE DEF Version
  <2> QED BY <2>3, <2>4 DEF CrateDeps
<1> HIDE DEF named
<1>4. \A i \in DOMAIN named : t[i] \in CrateDeps
  <2>1. \A i \in DOMAIN named : named[i] \in ToSet(named) BY DEF ToSet
  <2> HIDE DEF Version
  <2> QED BY <1>3, <2>1
<1>5. t = [i \in DOMAIN named |-> t[i]] OBVIOUS
<1> HIDE DEF t
<1>6. t \in Seq(CrateDeps) BY <1>2, <1>4, <1>5, MapFacts
<1> QED BY <1>1, <1>6

LEMMA ParseCargoType ==
  ASSUME NEW doc \in CargoTomls
  PROVE  ParseCargo(doc).deps \in Seq(CrateDeps)
<1> DEFINE table == IF doc.deps # <<>> THEN doc.deps ELSE doc.wsDeps
<1>1. table \in Seq(CargoEntries) BY DEF CargoTomls
<1> HIDE DEF table
<1>2. ExtractDeps(table) \in Seq(CrateDeps) BY <1>1, ExtractDepsType
<1>3. ParseCargo(doc).deps = IF doc.parses THEN ExtractDeps(table) ELSE <<>>
  BY DEF ParseCargo, table
<1>4. <<>> \in Seq(CrateDeps) OBVIOUS
<1> HIDE DEF table
<1> QED BY <1>2, <1>3, <1>4

LEMMA RustRecordIsGood ==
  ASSUME NEW r \in Repos, NEW doc \in {Missing} \cup CargoTomls, NEW sub \in {Missing} \cup CargoTomls
  PROVE  RustRecord(r, doc, sub) \in GoodRecords("rust")
<1> DEFINE inner == IF ParseCargo(doc).needsSubcrate /\ sub # Missing THEN ParseCargo(sub).deps ELSE <<>>
           deps == IF doc = Missing THEN <<>> ELSE IF inner = <<>> THEN ParseCargo(doc).deps ELSE inner
           source == IF doc = Missing THEN "none" ELSE IF inner = <<>> THEN "root" ELSE "subcrate"
           found == IF doc = Missing THEN FALSE ELSE TRUE
           rec == RustRecord(r, doc, sub)
<1>1. rec = [repo |-> r, cargo_toml_found |-> found, source |-> source, direct_deps |-> deps]
  BY DEF RustRecord
<1>2. <<>> \in Seq(CrateDeps) OBVIOUS
<1>3. inner \in Seq(CrateDeps) BY <1>2, ParseCargoType
<1>4. deps \in Seq(CrateDeps)
  <2> HIDE DEF inner
  <2> QED BY <1>2, <1>3, ParseCargoType
<1>5. source \in {"none", "root", "subcrate"} /\ found \in BOOLEAN /\ (~found => deps = <<>>) OBVIOUS
<1> HIDE DEF deps, source, found, rec
<1>6. rec.cargo_toml_found = found BY <1>1, Zenon
<1>7. rec.direct_deps = deps BY <1>1
<1>8. rec \in RustRecords BY <1>1, <1>4, <1>5, Zenon DEF RustRecords, CrateDeps
<1>9. rec \in GoodRecords("rust") BY <1>5, <1>6, <1>7, <1>8, Zenon DEF GoodRecords
<1> QED BY <1>9 DEF rec

\* guess_primary_subcrate returns one of the members it is given.
LEMMA GuessIsMember ==
  ASSUME NEW S, NEW members \in Seq(S), members # <<>>,
         \A i \in DOMAIN members : members[i].path \in {"exact", "suffix", "other"}
  PROVE  GuessPrimary(members) \in ToSet(members)
<1> DEFINE n == Len(members)
           Likeness(i) == CHOOSE k \in 1..3 : <<"exact", "suffix", "other">>[k] = members[i].path
           First(i) == \A j \in DOMAIN members :
                         Likeness(i) < Likeness(j) \/ (Likeness(i) = Likeness(j) /\ i <= j)
           rank == [i \in DOMAIN members |-> Likeness(i)]
           T == {rank[i] : i \in DOMAIN members}
<1>1. n \in Nat /\ n # 0 /\ DOMAIN members = 1..n OBVIOUS
<1>2. \A i \in DOMAIN members : Likeness(i) \in 1..3
  <2> TAKE i \in DOMAIN members
  <2>1. \E k \in 1..3 : <<"exact", "suffix", "other">>[k] = members[i].path
    <3>1. members[i].path \in {"exact", "suffix", "other"} OBVIOUS
    <3>2. /\ <<"exact", "suffix", "other">>[1] = "exact" /\ <<"exact", "suffix", "other">>[2] = "suffix"
          /\ <<"exact", "suffix", "other">>[3] = "other" /\ 1 \in 1..3 /\ 2 \in 1..3 /\ 3 \in 1..3
      OBVIOUS
    <3> QED BY <3>1, <3>2, Zenon
  <2> QED BY <2>1
<1>3. GuessPrimary(members) = members[CHOOSE i \in DOMAIN members : First(i)]
  BY DEF GuessPrimary
<1> HIDE DEF n, Likeness
<1>4. \A i \in DOMAIN members : rank[i] = Likeness(i) /\ rank[i] \in 1..3 BY <1>2
<1> HIDE DEF rank
<1>5. T \in SUBSET Nat /\ T # {} BY <1>1, <1>4
<1>6. PICK m \in T : \A k \in T : m <= k
  <2> HIDE DEF T
  <2> QED BY <1>5, NatMinimum
<1> DEFINE I == {i \in DOMAIN members : rank[i] = m}
<1>7. I \in SUBSET Nat /\ I # {} BY <1>1, <1>6
<1>8. PICK i \in I : \A k \in I : i <= k
  <2> HIDE DEF I
  <2> QED BY <1>7, NatMinimum
<1>9. i \in DOMAIN members /\ First(i)
  <2>1. i \in DOMAIN members /\ rank[i] = m OBVIOUS
  <2>2. ASSUME NEW j \in DOMAIN members
        PROVE  Likeness(i) < Likeness(j) \/ (Likeness(i) = Likeness(j) /\ i <= j)
    <3>1. m <= rank[j] /\ rank[j] \in 1..3 /\ m \in 1..3 BY <1>4, <1>6, <2>1
    <3>2. CASE rank[j] = m
      <4>1. i <= j BY <1>8, <3>2
      <4> QED BY <1>4, <2>1, <3>2, <4>1
    <3>3. CASE rank[j] # m
      <4>1. m < rank[j] BY <3>1, <3>3
      <4> QED BY <1>4, <2>1, <4>1
    <3> QED BY <3>2, <3>3
  <2> QED BY <2>1, <2>2
<1> DEFINE g == CHOOSE x \in DOMAIN members : First(x)
<1>10. g \in DOMAIN members
  <2> HIDE DEF First
  <2> QED BY <1>9
<1> HIDE DEF g
<1> QED BY <1>3, <1>10 DEF g, ToSet

\* What the miner makes of a repository it fetches.
LEMMA FetchedIsGood ==
  ASSUME NEW l \in Langs, NEW r \in Repos,
         NEW text \in Published[l][r] \cup (IF r \in Flaky THEN {Missing} ELSE {}),
         NEW rec \in IF l = "go" THEN {GoRecord(r, text)}
                     ELSE {RustRecord(r, text, sub) : sub \in SubcrateText(text)}
  PROVE  rec \in GoodRecords(l)
<1>1. CASE l = "go"
  <2>1. text \in {Missing} \cup Seq(GoModLines)
    BY <1>1, PublishedAssumption DEF PublishedAssumption
  <2>2. rec = GoRecord(r, text) BY <1>1
  <2> QED BY <1>1, <2>1, <2>2, GoRecordIsGood
<1>2. CASE l = "rust"
  <2>1. text = Missing \/ text \in Published["rust"][r] \ {Missing} BY <1>2
  <2>2. text # Missing => /\ text \in CargoTomls
                          /\ \A m \in ToSet(text.members) : m.path = "glob" \/ m.doc \in DOMAIN Subcrates
    BY <2>1, PublishedAssumption DEF PublishedAssumption
  <2>3. text \in {Missing} \cup CargoTomls BY <2>1, <2>2
  <2>4. SubcrateText(text) \subseteq {Missing} \cup CargoTomls
    <3>1. ASSUME text # Missing, WorkspaceMembers(text) # <<>>
          PROVE  Subcrates[GuessPrimary(WorkspaceMembers(text)).doc] \in CargoTomls
      <4> DEFINE P == {"exact", "suffix", "other", "glob"}
                 M == [path : P, doc : STRING]
                 s == text.members
                 I == {i \in DOMAIN s : s[i].path # "glob"}
                 w == Picked(s, I)
      <4>1. s \in Seq(M) BY <2>2, <3>1 DEF CargoTomls
      <4>2. WorkspaceMembers(text) = w BY DEF WorkspaceMembers, Kept
      <4>3. \A m \in M : m.path \in P OBVIOUS
      <4>4. I \in SUBSET DOMAIN s OBVIOUS
      <4>5. ASSUME NEW i \in I PROVE s[i] \in M /\ s[i].path # "glob" /\ s[i] \in ToSet(s)
        <5>1. i \in DOMAIN s /\ s[i].path # "glob" OBVIOUS
        <5> HIDE DEF s, M
        <5>2. s[i] \in M BY <4>1, <5>1
        <5> QED BY <5>1, <5>2 DEF ToSet
      <4>9. \A m \in ToSet(s) : m.path = "glob" \/ m.doc \in DOMAIN Subcrates BY <2>2, <3>1
      <4> HIDE DEF M, s, I, w
      <4>6. w \in Seq(M) /\ ToSet(w) = {s[i] : i \in I}
        BY <4>1, <4>4, PickedFacts DEF Selection, w
      <4>7. \A m \in ToSet(w) : m.path \in {"exact", "suffix", "other"} /\ m.doc \in DOMAIN Subcrates
        BY <4>3, <4>5, <4>6, <4>9
      <4>8. GuessPrimary(w) \in ToSet(w)
        <5>1. \A i \in DOMAIN w : w[i].path \in {"exact", "suffix", "other"}
          BY <4>7 DEF ToSet
        <5>2. w # <<>> BY <3>1, <4>2
        <5> QED BY <4>6, <5>1, <5>2, GuessIsMember
      <4> QED BY <4>2, <4>7, <4>8, PublishedAssumption DEF PublishedAssumption
    <3> QED BY <3>1 DEF SubcrateText
  <2>5. PICK sub \in SubcrateText(text) : rec = RustRecord(r, text, sub) BY <1>2
  <2> QED BY <1>2, <2>3, <2>4, <2>5, RustRecordIsGood
<1> QED BY <1>1, <1>2 DEF Langs

-----------------------------------------------------------------------------
(* The rankings.                                                           *)

\* A ranking of the packages that some lists of dependencies name, by how many do.
RankedBy(curve, parts) ==
  /\ Len(curve) \in Nat /\ DOMAIN curve = 1..Len(curve)
  /\ \A k \in DOMAIN curve :
       /\ IsFiniteSet(Naming(parts, curve[k].name)) /\ Naming(parts, curve[k].name) # {}
       /\ curve[k].repos_count = Cardinality(Naming(parts, curve[k].name))
  /\ \A x : Naming(parts, x) # {} => \E k \in DOMAIN curve : curve[k].name = x
  /\ \A j, k \in DOMAIN curve : curve[j].name = curve[k].name => j = k
  /\ \A j, k \in DOMAIN curve : j < k => curve[j].repos_count >= curve[k].repos_count

LEMMA Tally ==
  ASSUME NEW S, NEW T, \A d \in S : d.name \in T,
         NEW parts \in Seq(Seq(S)), \A i \in DOMAIN parts : Distinct(parts[i]),
         NEW names, names = Project(FlattenSeq(parts), "name"),
         NEW C, NEW curve \in Seq(C), DOMAIN curve = DOMAIN MostCommon(names),
         \A k \in DOMAIN curve : /\ curve[k].name = MostCommon(names)[k]
                                 /\ curve[k].repos_count = Count(names, MostCommon(names)[k])
  PROVE  RankedBy(curve, parts)
<1> DEFINE r == MostCommon(names)
<1>1. /\ names \in Seq(T)
      /\ \A x : /\ IsFiniteSet(Naming(parts, x)) /\ Count(names, x) = Cardinality(Naming(parts, x))
                /\ x \in ToSet(names) <=> Naming(parts, x) # {}
  <2>1. FlattenSeq(parts) \in Seq(S) /\ names \in Seq(T) /\ Tallied(names, parts)
    BY VotesCounted
  <2> QED BY <2>1 DEF Tallied
<1>2. /\ r \in Seq(T) /\ ToSet(r) = ToSet(names) /\ IsInjective(r)
      /\ \A j, k \in DOMAIN r : j < k => Count(names, r[j]) >= Count(names, r[k])
  BY <1>1, MostCommonFacts
<1>3. /\ DOMAIN curve = DOMAIN r
      /\ \A k \in DOMAIN curve : curve[k].name = r[k] /\ curve[k].repos_count = Count(names, r[k])
  OBVIOUS
<1> HIDE DEF r
<1>4. Len(curve) \in Nat /\ DOMAIN curve = 1..Len(curve) OBVIOUS
<1>5. \A k \in DOMAIN curve :
        /\ IsFiniteSet(Naming(parts, curve[k].name)) /\ Naming(parts, curve[k].name) # {}
        /\ curve[k].repos_count = Cardinality(Naming(parts, curve[k].name))
  <2> TAKE k \in DOMAIN curve
  <2>1. r[k] \in ToSet(r) BY <1>3 DEF ToSet
  <2>2. Naming(parts, r[k]) # {} BY <1>1, <1>2, <2>1
  <2> QED BY <1>1, <1>3, <2>2
<1>6. ASSUME NEW x, Naming(parts, x) # {} PROVE \E k \in DOMAIN curve : curve[k].name = x
  <2>1. x \in ToSet(r) BY <1>1, <1>2, <1>6
  <2>2. PICK k \in DOMAIN r : r[k] = x BY <2>1 DEF ToSet
  <2> QED BY <1>3, <2>2
<1>7. \A j, k \in DOMAIN curve : curve[j].name = curve[k].name => j = k
  BY <1>2, <1>3 DEF IsInjective
<1>8. \A j, k \in DOMAIN curve : j < k => curve[j].repos_count >= curve[k].repos_count
  BY <1>2, <1>3
<1> QED BY <1>4, <1>5, <1>6, <1>7, <1>8 DEF RankedBy

-----------------------------------------------------------------------------
(* The mined files.                                                        *)

\* What the records of a run list.
Parts(records) == [i \in DOMAIN records |-> records[i].direct_deps]

LEMMA GoRecordFields ==
  ASSUME NEW records \in Seq(GoodRecords("go"))
  PROVE  /\ records \in Seq(GoRecords)
         /\ \A i \in DOMAIN records :
              /\ records[i].has_gomod \in BOOLEAN /\ records[i].full_name \in Repos
              /\ records[i].direct_deps \in Seq(GoDeps) /\ Distinct(records[i].direct_deps)
              /\ ~records[i].has_gomod => records[i].direct_deps = <<>>
         /\ Parts(records) \in Seq(Seq(GoDeps)) /\ DOMAIN Parts(records) = DOMAIN records
         /\ \A i \in DOMAIN records : Parts(records)[i] = records[i].direct_deps
<1> DEFINE G == GoodRecords("go")
<1>1. \A rec \in G : /\ rec \in GoRecords /\ Distinct(rec.direct_deps)
                     /\ ~rec.has_gomod => rec.direct_deps = <<>>
  BY DEF GoodRecords
<1>2. \A rec \in G : /\ rec.has_gomod \in BOOLEAN /\ rec.full_name \in Repos
                     /\ rec.direct_deps \in Seq(GoDeps)
  BY <1>1 DEF GoRecords
<1> HIDE DEF G
<1>3. records \in Seq(G) BY DEF G
<1>4. \A i \in DOMAIN records : records[i] \in G BY <1>3
<1>5. records \in Seq(GoRecords)
  <2>1. ToSet(records) \subseteq GoRecords BY <1>1, <1>4 DEF ToSet
  <2> QED BY <1>3, <2>1, OwnElements
<1>6. \A i \in DOMAIN records : Parts(records)[i] = records[i].direct_deps BY DEF Parts
<1>7. Parts(records) = [i \in DOMAIN records |-> Parts(records)[i]] BY DEF Parts
<1>8. Parts(records) \in Seq(Seq(GoDeps)) /\ DOMAIN Parts(records) = DOMAIN records
  <2>1. \A i \in DOMAIN records : Parts(records)[i] \in Seq(GoDeps) BY <1>2, <1>4, <1>6
  <2> QED BY <1>3, <1>7, <2>1, MapFacts
<1> QED BY <1>1, <1>2, <1>4, <1>5, <1>6, <1>8

\* The output of the Go miner.
GoCounts == [name : STRING, repos_count : Nat, most_common_version : GoVersions]

\* What a Go file says of the records it was made from.
GoFileOf(c, records, n) ==
  /\ c.repos = records /\ c.mined_at = n /\ c.repos_attempted = Len(records)
  /\ c.repos_with_gomod = Cardinality({i \in DOMAIN records : records[i].has_gomod})
  /\ c.total_occurrences = Len(FlattenSeq(Parts(records)))
  /\ c.package_counts \in Seq(GoCounts) /\ RankedBy(c.package_counts, Parts(records))
  /\ \A p \in ToSet(c.package_counts) : \E i \in DOMAIN records :
       \E d \in ToSet(records[i].direct_deps) :
         d.name = p.name /\ d.version = p.most_common_version
  /\ \A p \in ToSet(c.package_counts) : MostBorne(Parts(records), p.name, p.most_common_version)
  /\ c \in GoFiles

LEMMA GoRawFacts ==
  ASSUME NEW records \in Seq(GoodRecords("go")), NEW n \in Nat, NEW c, c = GoRaw(records, n)
  PROVE  GoFileOf(c, records, n)
<1> DEFINE parts == Project(records, "direct_deps")
           votes == FlattenSeq(parts)
           names == Project(votes, "name")
           ranked == MostCommon(names)
           Counted(name) == [name |-> name, repos_count |-> Count(names, name),
                             most_common_version |-> Modal(votes, name)]
           counts == [i \in DOMAIN ranked |-> Counted(ranked[i])]
           has == Project(records, "has_gomod")
<1>1. c = [mined_at |-> n, repos_attempted |-> Len(records),
           repos_with_gomod |-> Count(has, TRUE),
           total_occurrences |-> Len(votes), unique_packages |-> Len(ranked),
           package_counts |-> counts, repos |-> records]
  BY DEF GoRaw
<1>2. parts = Parts(records) BY DEF Project, Parts
<1>3. /\ has \in Seq(BOOLEAN) /\ DOMAIN has = DOMAIN records
      /\ \A i \in DOMAIN records : has[i] = records[i].has_gomod
  <2>1. has = [i \in DOMAIN records |-> has[i]] /\ \A i \in DOMAIN records : has[i] = records[i].has_gomod
    BY DEF Project
  <2>2. \A i \in DOMAIN records : has[i] \in BOOLEAN BY <2>1, GoRecordFields
  <2> HIDE DEF has
  <2> QED BY <2>1, <2>2, GoRecordFields, MapFacts
<1> HIDE DEF parts
<1>4. parts \in Seq(Seq(GoDeps)) /\ \A i \in DOMAIN parts : Distinct(parts[i])
  BY <1>2, GoRecordFields
<1>5. \A d \in GoDeps : d.name \in STRING /\ d.version \in GoVersions BY DEF GoDeps
<1>6. /\ votes \in Seq(GoDeps) /\ names \in Seq(STRING)
      /\ \A x : /\ Count(names, x) = Cardinality(Naming(parts, x))
                /\ x \in ToSet(names) <=> Naming(parts, x) # {}
  BY <1>4, <1>5, VotesCounted DEF Tallied
<1>7. ranked \in Seq(STRING) /\ ToSet(ranked) = ToSet(names) BY <1>6, MostCommonFacts
<1>8. ToSet(votes) = UNION {ToSet(parts[i]) : i \in DOMAIN parts} BY <1>4, FlattenFacts
<1> HIDE DEF votes
<1>9. ASSUME NEW k \in DOMAIN ranked
      PROVE  /\ counts[k].name = ranked[k] /\ counts[k].repos_count = Count(names, ranked[k])
             /\ counts[k] \in GoCounts
             /\ \E i \in DOMAIN records : \E d \in ToSet(records[i].direct_deps) :
                  d.name = counts[k].name /\ d.version = counts[k].most_common_version
             /\ MostBorne(parts, counts[k].name, counts[k].most_common_version)
  <2> DEFINE x == ranked[k]
             num == Count(names, x)
             ver == Modal(votes, x)
  <2>1. x \in ToSet(names) BY <1>7 DEF ToSet
  <2>2. PICK i \in DOMAIN parts : \E d \in ToSet(parts[i]) : d.name = x BY <1>6, <2>1 DEF Naming
  <2>3. \E d \in ToSet(votes) : d.name = x BY <1>8, <2>2
  <2>4. PICK d \in ToSet(votes) : d.name = x /\ ver = d.version BY <1>6, <2>3, ModalFacts
  <2>5. PICK j \in DOMAIN parts : d \in ToSet(parts[j]) BY <1>8
  <2>6. d \in GoDeps BY <1>6 DEF ToSet
  <2>7. num \in Nat BY <1>6, CountFacts
  <2>8. counts[k] = [name |-> x, repos_count |-> num, most_common_version |-> ver] OBVIOUS
  <2>9. x \in STRING
    <3>1. \A s \in Seq(STRING) : \A m \in DOMAIN s : s[m] \in STRING OBVIOUS
    <3> QED BY <1>7, <3>1, Zenon
  <2> HIDE DEF x, num, ver, counts
  <2>10. ver \in GoVersions BY <1>5, <2>4, <2>6
  <2>11. j \in DOMAIN records /\ parts[j] = records[j].direct_deps BY <1>2, GoRecordFields
  <2>12. counts[k] \in GoCounts BY <2>7, <2>8, <2>9, <2>10 DEF GoCounts
  <2>13. counts[k].name = x /\ counts[k].repos_count = num /\ counts[k].most_common_version = ver
    BY <2>8
  <2>14. MostBorne(parts, x, ver)
    <3>1. Naming(parts, x) # {} BY <2>2 DEF Naming
    <3>2. MostBorne(parts, x, Modal(FlattenSeq(parts), x)) BY <1>4, <3>1, ModalIsMostBorne
    <3> QED BY <3>2 DEF ver, votes
  <2> QED BY <2>4, <2>5, <2>11, <2>12, <2>13, <2>14 DEF x, num
<1>10. counts = [k \in DOMAIN ranked |-> counts[k]] OBVIOUS
<1> HIDE DEF counts
<1>11. /\ counts \in Seq(GoCounts) /\ DOMAIN counts = DOMAIN ranked
       /\ ToSet(counts) = {counts[k] : k \in DOMAIN ranked}
  <2> HIDE DEF ranked
  <2>1. \A k \in DOMAIN ranked : counts[k] \in GoCounts BY <1>9
  <2> QED BY <1>7, <1>10, <2>1, MapFacts
<1>12. RankedBy(counts, parts)
  <2>1. \A k \in DOMAIN counts : /\ counts[k].name = MostCommon(names)[k]
                                 /\ counts[k].repos_count = Count(names, MostCommon(names)[k])
    BY <1>9, <1>11
  <2>2. names = Project(FlattenSeq(parts), "name") BY DEF votes
  <2>3. DOMAIN counts = DOMAIN MostCommon(names) BY <1>11
  <2> HIDE DEF names
  <2> QED BY <1>4, <1>5, <1>11, <2>1, <2>2, <2>3, Tally
<1>13. Count(has, TRUE) = Cardinality({i \in DOMAIN records : records[i].has_gomod})
  <2>1. {i \in DOMAIN has : has[i] = TRUE} = {i \in DOMAIN records : records[i].has_gomod}
    BY <1>3, GoRecordFields
  <2> HIDE DEF has
  <2> QED BY <2>1 DEF Count
<1>14. Count(has, TRUE) \in Nat
  <2> HIDE DEF has
  <2> QED BY <1>3, CountFacts
<1>15. Len(records) \in Nat /\ Len(votes) \in Nat /\ Len(ranked) \in Nat
  <2> HIDE DEF ranked
  <2> QED BY <1>6, <1>7
<1> HIDE DEF has, ranked, names
<1>16. /\ c.repos = records /\ c.mined_at = n /\ c.repos_attempted = Len(records)
       /\ c.repos_with_gomod = Count(has, TRUE) /\ c.total_occurrences = Len(votes)
       /\ c.package_counts = counts
  BY <1>1
<1>17. \A p \in ToSet(counts) : \E i \in DOMAIN records :
         \E d \in ToSet(records[i].direct_deps) :
           d.name = p.name /\ d.version = p.most_common_version
  BY <1>9, <1>11
<1>18. \A p \in ToSet(counts) : MostBorne(Parts(records), p.name, p.most_common_version)
  BY <1>2, <1>9, <1>11
<1>19. c \in GoFiles
  <2>1. records \in Seq(GoRecords) BY GoRecordFields
  <2>2. GoFiles = [mined_at : Nat, repos_attempted : Nat, repos_with_gomod : Nat,
                   total_occurrences : Nat, unique_packages : Nat, repos : Seq(GoRecords),
                   package_counts : Seq(GoCounts)]
    BY DEF GoFiles, GoCounts
  <2> DEFINE R == Seq(GoRecords)
             P == Seq(GoCounts)
             a == Len(records)
             b == Count(has, TRUE)
             o == Len(votes)
             u == Len(ranked)
  <2>3. /\ records \in R /\ counts \in P /\ a \in Nat /\ b \in Nat /\ o \in Nat /\ u \in Nat
        /\ c = [mined_at |-> n, repos_attempted |-> a, repos_with_gomod |-> b, total_occurrences |-> o,
                unique_packages |-> u, package_counts |-> counts, repos |-> records]
        /\ GoFiles = [mined_at : Nat, repos_attempted : Nat, repos_with_gomod : Nat,
                      total_occurrences : Nat, unique_packages : Nat, repos : R, package_counts : P]
    BY <1>1, <1>11, <1>14, <1>15, <2>1, <2>2
  <2> HIDE DEF R, P, a, b, o, u, counts
  <2> QED BY <2>3
<1> QED BY <1>2, <1>11, <1>12, <1>13, <1>16, <1>17, <1>18, <1>19 DEF votes, GoFileOf

\* Records of the Rust miner, and who names a crate.
Crating(records, x) == {i \in DOMAIN records : \E d \in ToSet(records[i].direct_deps) : d.crate = x}
Voters(records, x) == {records[i].repo : i \in Crating(records, x)}

LEMMA RustRecordFields ==
  ASSUME NEW records \in Seq(GoodRecords("rust"))
  PROVE  /\ records \in Seq(RustRecords)
         /\ \A i \in DOMAIN records :
              /\ records[i].cargo_toml_found \in BOOLEAN /\ records[i].repo \in Repos
              /\ records[i].direct_deps \in Seq(CrateDeps)
              /\ ~records[i].cargo_toml_found => records[i].direct_deps = <<>>
<1> DEFINE G == GoodRecords("rust")
<1>1. \A rec \in G : rec \in RustRecords /\ (~rec.cargo_toml_found => rec.direct_deps = <<>>)
  BY DEF GoodRecords
<1>2. \A rec \in G : /\ rec.cargo_toml_found \in BOOLEAN /\ rec.repo \in Repos
                     /\ rec.direct_deps \in Seq(CrateDeps)
  BY <1>1 DEF RustRecords, CrateDeps
<1> HIDE DEF G
<1>3. records \in Seq(G) BY DEF G
<1>4. \A i \in DOMAIN records : records[i] \in G BY <1>3
<1>5. records \in Seq(RustRecords)
  <2>1. ToSet(records) \subseteq RustRecords BY <1>1, <1>4 DEF ToSet
  <2> QED BY <1>3, <2>1, OwnElements
<1> QED BY <1>1, <1>2, <1>4, <1>5

\* Mentions of crates by repositories.
Mention == [crate : STRING, repo : Repos]

\* Each crate has as many distinct mentions as repositories name it.
LEMMA MentionsCounted ==
  ASSUME NEW records \in Seq(GoodRecords("rust")),
         NEW votes \in Seq(Mention), IsInjective(votes),
         \A m \in Mention : m \in ToSet(votes) <=> m.repo \in Voters(records, m.crate),
         NEW names, names = [k \in DOMAIN votes |-> names[k]],
         \A k \in DOMAIN votes : names[k] = votes[k].crate
  PROVE  /\ names \in Seq(STRING)
         /\ \A x \in STRING : /\ Count(names, x) = Cardinality(Voters(records, x))
                              /\ x \in ToSet(names) <=> Crating(records, x) # {}
<1>1. names \in Seq(STRING) /\ DOMAIN names = DOMAIN votes
  <2>1. \A k \in DOMAIN votes : votes[k] \in Mention OBVIOUS
  <2>2. \A k \in DOMAIN votes : names[k] \in STRING BY <2>1 DEF Mention
  <2> QED BY <2>2, MapFacts
<1>2. ASSUME NEW x \in STRING
      PROVE  /\ Count(names, x) = Cardinality(Voters(records, x))
             /\ x \in ToSet(names) <=> Crating(records, x) # {}
  <2> DEFINE A == Positions(names, x)
             B == Voters(records, x)
             h == [k \in A |-> votes[k].repo]
  <2>1. \A k : k \in A <=> k \in DOMAIN votes /\ votes[k].crate = x BY <1>1 DEF Positions
  <2>2. IsFiniteSet(A) /\ Count(names, x) = Cardinality(A) BY <1>1, CountFacts
  <2>3. x \in ToSet(names) <=> A # {} BY DEF Positions, ToSet
  <2>4. B # {} <=> Crating(records, x) # {} BY DEF Voters
  <2> HIDE DEF A, B
  <2>5. ASSUME NEW k \in A PROVE votes[k].repo \in B /\ votes[k] = [crate |-> x, repo |-> votes[k].repo]
    <3>1. k \in DOMAIN votes /\ votes[k].crate = x BY <2>1
    <3>2. votes[k] \in Mention /\ votes[k] \in ToSet(votes) BY <3>1 DEF ToSet
    <3>3. votes[k].repo \in Voters(records, votes[k].crate) BY <3>2
    <3>4. votes[k] = [crate |-> votes[k].crate, repo |-> votes[k].repo] BY <3>2 DEF Mention
    <3> QED BY <3>1, <3>3, <3>4 DEF B
  <2>6. \A j, k \in A : votes[j].repo = votes[k].repo => j = k
    <3> TAKE j \in A, k \in A
    <3> HAVE votes[j].repo = votes[k].repo
    <3>1. votes[j] = votes[k] BY <2>5
    <3> QED BY <2>1, <3>1 DEF IsInjective
  <2>7. ASSUME NEW r \in B PROVE \E k \in A : votes[k].repo = r
    <3> DEFINE m == [crate |-> x, repo |-> r]
    <3>1. r \in Repos
      <4>1. PICK i \in DOMAIN records : r = records[i].repo BY DEF B, Voters, Crating
      <4> QED BY <4>1, RustRecordFields
    <3>2. m \in Mention /\ m.crate = x /\ m.repo = r BY <3>1 DEF Mention
    <3> HIDE DEF m
    <3>3. m \in ToSet(votes) BY <3>2 DEF B
    <3>4. PICK k \in DOMAIN votes : votes[k] = m BY <3>3 DEF ToSet
    <3> QED BY <2>1, <3>2, <3>4
  <2>8. h \in [A -> B] /\ \A k \in A : h[k] = votes[k].repo BY <2>5
  <2> HIDE DEF h
  <2>9. Cardinality(B) = Cardinality(A)
    <3>1. \A j, k \in A : h[j] = h[k] => j = k BY <2>6, <2>8
    <3>2. \A r \in B : \E k \in A : h[k] = r BY <2>7, <2>8
    <3> QED BY <2>2, <2>8, <3>1, <3>2, SameSize
  <2>10. A # {} <=> B # {} BY <2>7, <2>8
  <2> QED BY <2>2, <2>3, <2>4, <2>9, <2>10 DEF B
<1> QED BY <1>1, <1>2

\* The output of the Rust miner.
CrateCounts == [crate : STRING, repo_count : Nat]

\* And what a Rust file says of them.
RustFileOf(c, records, n) ==
  /\ c.raw = records /\ c.mined_at = n /\ c.corpus_size = Len(records)
  /\ c.repos_with_cargo_toml = Cardinality({i \in DOMAIN records : records[i].cargo_toml_found})
  /\ c.prevalence \in Seq(CrateCounts)
  /\ \A p \in ToSet(c.prevalence) : p.repo_count = Cardinality(Voters(records, p.crate))
  /\ {p.crate : p \in ToSet(c.prevalence)} = {x \in STRING : Crating(records, x) # {}}
  /\ c \in RustFiles

LEMMA RustRawFacts ==
  ASSUME NEW records \in Seq(GoodRecords("rust")), NEW n \in Nat, NEW c, c = RustRaw(records, n)
  PROVE  RustFileOf(c, records, n)
<1> DEFINE Mentions(rec) ==
             [j \in DOMAIN rec.direct_deps |-> [crate |-> rec.direct_deps[j].crate, repo |-> rec.repo]]
           parts == [i \in DOMAIN records |-> Mentions(records[i])]
           mentions == FlattenSeq(parts)
           votes == Firsts(mentions)
           names == Project(votes, "crate")
           ranked == MostCommon(names)
           prevalence == [i \in DOMAIN ranked |->
                            [crate |-> ranked[i], repo_count |-> Count(names, ranked[i])]]
           found == Project(records, "cargo_toml_found")
<1>1. c = [mined_at |-> n, corpus_size |-> Len(records),
           repos_with_cargo_toml |-> Count(found, TRUE), unique_crates |-> Len(ranked),
           prevalence |-> prevalence, raw |-> records]
  BY DEF RustRaw
<1>2. /\ found \in Seq(BOOLEAN) /\ DOMAIN found = DOMAIN records
      /\ \A i \in DOMAIN records : found[i] = records[i].cargo_toml_found
  <2>1. found = [i \in DOMAIN records |-> found[i]]
        /\ \A i \in DOMAIN records : found[i] = records[i].cargo_toml_found
    BY DEF Project
  <2>2. \A i \in DOMAIN records : found[i] \in BOOLEAN BY <2>1, RustRecordFields
  <2> HIDE DEF found
  <2> QED BY <2>1, <2>2, RustRecordFields, MapFacts
<1>3. ASSUME NEW i \in DOMAIN records
      PROVE  /\ parts[i] \in Seq(Mention)
             /\ \A m \in Mention : m \in ToSet(parts[i]) <=>
                  m.repo = records[i].repo /\ \E d \in ToSet(records[i].direct_deps) : d.crate = m.crate
  <2> DEFINE deps == records[i].direct_deps
             r == records[i].repo
             t == parts[i]
  <2>1. deps \in Seq(CrateDeps) /\ r \in Repos BY RustRecordFields
  <2>2. t = [j \in DOMAIN deps |-> t[j]] /\ \A j \in DOMAIN deps : t[j] = [crate |-> deps[j].crate, repo |-> r]
    OBVIOUS
  <2> HIDE DEF deps, r, t
  <2>3. \A j \in DOMAIN deps : deps[j] \in CrateDeps BY <2>1
  <2>4. \A d \in CrateDeps : d.crate \in STRING BY DEF CrateDeps
  <2>5. \A j \in DOMAIN deps : t[j] \in Mention BY <2>1, <2>2, <2>3, <2>4 DEF Mention
  <2>6. t \in Seq(Mention) /\ ToSet(t) = {t[j] : j \in DOMAIN deps} BY <2>1, <2>2, <2>5, MapFacts
  <2>7. \A m \in Mention : m = [crate |-> m.crate, repo |-> m.repo] BY DEF Mention
  <2>8. ASSUME NEW m \in Mention
        PROVE  m \in ToSet(t) <=> m.repo = r /\ \E d \in ToSet(deps) : d.crate = m.crate
    <3>1. m \in ToSet(t) => m.repo = r /\ \E d \in ToSet(deps) : d.crate = m.crate
      <4> HAVE m \in ToSet(t)
      <4>1. PICK j \in DOMAIN deps : m = t[j] BY <2>6
      <4>2. deps[j] \in ToSet(deps) /\ m = [crate |-> deps[j].crate, repo |-> r]
        BY <2>2, <4>1 DEF ToSet
      <4> QED BY <4>2
    <3>2. ASSUME m.repo = r, NEW d \in ToSet(deps), d.crate = m.crate PROVE m \in ToSet(t)
      <4>1. PICK j \in DOMAIN deps : d = deps[j] BY DEF ToSet
      <4>2. t[j] = m BY <2>2, <2>7, <3>2, <4>1
      <4> QED BY <2>6, <4>1, <4>2
    <3> QED BY <3>1, <3>2
  <2> QED BY <2>6, <2>8 DEF t, deps, r
<1>4. parts \in Seq(Seq(Mention)) /\ DOMAIN parts = DOMAIN records
  <2>1. parts = [i \in DOMAIN records |-> parts[i]] OBVIOUS
  <2> HIDE DEF parts
  <2>2. \A i \in DOMAIN records : parts[i] \in Seq(Mention) BY <1>3
  <2> QED BY <2>1, <2>2, RustRecordFields, MapFacts
<1> HIDE DEF parts
<1>5. mentions \in Seq(Mention) /\ ToSet(mentions) = UNION {ToSet(parts[i]) : i \in DOMAIN parts}
  BY <1>4, FlattenFacts
<1> HIDE DEF mentions
<1>6. votes \in Seq(Mention) /\ ToSet(votes) = ToSet(mentions) /\ IsInjective(votes)
  BY <1>5, FirstsFacts
<1>7. names = [k \in DOMAIN votes |-> names[k]] /\ \A k \in DOMAIN votes : names[k] = votes[k].crate
  <2> HIDE DEF votes
  <2>1. names = [k \in DOMAIN votes |-> votes[k].crate] BY DEF Project
  <2> QED BY <2>1
<1> HIDE DEF votes
<1>8. \A m \in Mention : m \in ToSet(votes) <=> m.repo \in Voters(records, m.crate)
  <2> TAKE m \in Mention
  <2>1. m \in ToSet(votes) <=> \E i \in DOMAIN records : m \in ToSet(parts[i]) BY <1>4, <1>5, <1>6
  <2>2. m.repo \in Voters(records, m.crate) <=>
          \E i \in DOMAIN records : /\ m.repo = records[i].repo
                                    /\ \E d \in ToSet(records[i].direct_deps) : d.crate = m.crate
    BY DEF Voters, Crating
  <2> QED BY <1>3, <2>1, <2>2
<1> HIDE DEF names
<1>9. /\ names \in Seq(STRING)
      /\ \A x \in STRING : /\ Count(names, x) = Cardinality(Voters(records, x))
                           /\ x \in ToSet(names) <=> Crating(records, x) # {}
  BY <1>6, <1>7, <1>8, MentionsCounted
<1>10. ranked \in Seq(STRING) /\ ToSet(ranked) = ToSet(names) BY <1>9, MostCommonFacts
<1> HIDE DEF ranked
<1>11. \A k \in DOMAIN ranked : ranked[k] \in STRING BY <1>10
<1>12. ASSUME NEW k \in DOMAIN ranked
       PROVE  /\ prevalence[k] \in CrateCounts /\ prevalence[k].crate = ranked[k]
              /\ prevalence[k].repo_count = Cardinality(Voters(records, ranked[k]))
  <2> DEFINE x == ranked[k]
             num == Count(names, x)
  <2>1. prevalence[k] = [crate |-> x, repo_count |-> num] OBVIOUS
  <2>2. x \in STRING /\ num \in Nat BY <1>9, <1>11, CountFacts
  <2>3. num = Cardinality(Voters(records, x)) BY <1>9, <2>2
  <2> HIDE DEF x, num, prevalence
  <2> QED BY <2>1, <2>2, <2>3 DEF x, CrateCounts
<1>13. prevalence = [k \in DOMAIN ranked |-> prevalence[k]] OBVIOUS
<1> HIDE DEF prevalence
<1>14. prevalence \in Seq(CrateCounts) /\ ToSet(prevalence) = {prevalence[k] : k \in DOMAIN ranked}
  <2>1. \A k \in DOMAIN ranked : prevalence[k] \in CrateCounts BY <1>12
  <2> QED BY <1>10, <1>13, <2>1, MapFacts
<1>15. \A p \in ToSet(prevalence) : p.repo_count = Cardinality(Voters(records, p.crate))
  BY <1>12, <1>14
<1>16. {p.crate : p \in ToSet(prevalence)} = {x \in STRING : Crating(records, x) # {}}
  <2>1. ASSUME NEW p \in ToSet(prevalence) PROVE p.crate \in STRING /\ Crating(records, p.crate) # {}
    <3>1. PICK k \in DOMAIN ranked : p = prevalence[k] BY <1>14
    <3>2. p.crate = ranked[k] /\ ranked[k] \in ToSet(ranked) BY <1>12, <3>1 DEF ToSet
    <3> QED BY <1>9, <1>10, <1>11, <3>2
  <2>2. ASSUME NEW x \in STRING, Crating(records, x) # {} PROVE \E p \in ToSet(prevalence) : p.crate = x
    <3>1. x \in ToSet(ranked) BY <1>9, <1>10, <2>2
    <3>2. PICK k \in DOMAIN ranked : ranked[k] = x BY <3>1 DEF ToSet
    <3> QED BY <1>12, <1>14, <3>2
  <2> QED BY <2>1, <2>2
<1>17. Count(found, TRUE) = Cardinality({i \in DOMAIN records : records[i].cargo_toml_found})
       /\ Count(found, TRUE) \in Nat
  <2>1. {i \in DOMAIN found : found[i] = TRUE} = {i \in DOMAIN records : records[i].cargo_toml_found}
    BY <1>2, RustRecordFields
  <2> HIDE DEF found
  <2> QED BY <1>2, <2>1, CountFacts DEF Count
<1> HIDE DEF found
<1>18. /\ c.raw = records /\ c.mined_at = n /\ c.corpus_size = Len(records)
       /\ c.repos_with_cargo_toml = Count(found, TRUE) /\ c.prevalence = prevalence
  BY <1>1
<1>19. c \in RustFiles
  <2> DEFINE R == Seq(RustRecords)
             P == Seq(CrateCounts)
             a == Len(records)
             b == Count(found, TRUE)
             u == Len(ranked)
  <2>1. RustFiles = [mined_at : Nat, corpus_size : Nat, repos_with_cargo_toml : Nat, unique_crates : Nat,
                     prevalence : P, raw : R]
    BY DEF RustFiles, CrateCounts
  <2>3. records \in R /\ prevalence \in P BY <1>14, RustRecordFields
  <2>4. a \in Nat OBVIOUS
  <2>5. b \in Nat BY <1>17
  <2>6. u \in Nat BY <1>10
  <2>2. /\ c = [mined_at |-> n, corpus_size |-> a, repos_with_cargo_toml |-> b, unique_crates |-> u,
                prevalence |-> prevalence, raw |-> records]
    BY <1>1
  <2> HIDE DEF R, P, a, b, u
  <2> QED BY <2>1, <2>2, <2>3, <2>4, <2>5, <2>6
<1> QED BY <1>14, <1>15, <1>16, <1>17, <1>18, <1>19 DEF RustFileOf

\* What a miner writes.
Output(l, records, n) == IF l = "go" THEN GoRaw(records, n) ELSE RustRaw(records, n)
Holds(l, content) == \E records \in Seq(GoodRecords(l)), n \in Nat : content = Output(l, records, n)

LEMMA HeldIsThere ==
  ASSUME NEW l \in Langs, NEW content, Holds(l, content)
  PROVE  content \in MinedFiles(l) /\ content # Missing
<1>1. PICK records \in Seq(GoodRecords(l)), n \in Nat : content = Output(l, records, n) BY DEF Holds
<1>2. CASE l = "go"
  <2>1. content \in GoFiles BY <1>1, <1>2, GoRawFacts DEF Output, GoFileOf
  <2> QED BY <1>2, <2>1, MiningAssumption DEF MiningAssumption, MinedFiles
<1>3. CASE l = "rust"
  <2>1. content \in RustFiles BY <1>1, <1>3, RustRawFacts DEF Output, RustFileOf
  <2> QED BY <1>3, <2>1, MiningAssumption DEF MiningAssumption, MinedFiles
<1> QED BY <1>2, <1>3 DEF Langs

-----------------------------------------------------------------------------
(* The second reading of a mined file.                                     *)

\* The second reading of a Go file, in terms of its records.
LEMMA GoReading ==
  ASSUME NEW records \in Seq(GoodRecords("go")), NEW n \in Nat, NEW c, c = GoRaw(records, n)
  PROVE  /\ Records("go", c) = records
         /\ \A x : Users("go", c, x) = Naming(Parts(records), x)
         /\ \A x : x \in Names("go", c) <=> Naming(Parts(records), x) # {}
         /\ WithManifest("go", c) = {i \in DOMAIN records : records[i].has_gomod}
         /\ \A x : Users("go", c, x) \subseteq WithManifest("go", c)
         /\ IsFiniteSet(WithManifest("go", c))
         /\ \A i \in DOMAIN records : Repo("go", records[i]) = records[i].full_name
<1>1. Records("go", c) = records
  <2>1. GoFileOf(c, records, n) BY GoRawFacts
  <2> QED BY <2>1 DEF Records, GoFileOf
<1>2. /\ DOMAIN Parts(records) = DOMAIN records
      /\ \A i \in DOMAIN records : Parts(records)[i] = records[i].direct_deps
  BY GoRecordFields
<1>3. ASSUME NEW x PROVE Users("go", c, x) = Naming(Parts(records), x)
  BY <1>1, <1>2 DEF Users, Uses, NameOf, Naming
<1>4. ASSUME NEW x PROVE x \in Names("go", c) <=> Naming(Parts(records), x) # {}
  <2>1. Names("go", c) = UNION {{dep.name : dep \in ToSet(rec.direct_deps)} : rec \in ToSet(records)}
    BY <1>1 DEF Names, NameOf
  <2>2. x \in Names("go", c) <=>
          \E rec \in ToSet(records) : \E dep \in ToSet(rec.direct_deps) : dep.name = x
    BY <2>1
  <2>3. ToSet(records) = {records[i] : i \in DOMAIN records} BY DEF ToSet
  <2>4. x \in Names("go", c) <=>
          \E i \in DOMAIN records : \E dep \in ToSet(records[i].direct_deps) : dep.name = x
    BY <2>2, <2>3
  <2> QED BY <1>2, <2>4 DEF Naming
<1>5. WithManifest("go", c) = {i \in DOMAIN records : records[i].has_gomod}
  BY <1>1 DEF WithManifest, Found
<1>6. ASSUME NEW x, NEW i \in Users("go", c, x) PROVE i \in WithManifest("go", c)
  <2>1. i \in DOMAIN records /\ \E d \in ToSet(records[i].direct_deps) : d.name = x
    BY <1>2, <1>3 DEF Naming
  <2>2. records[i].direct_deps # <<>>
    <3>1. ToSet(<<>>) = {} BY DEF ToSet
    <3> QED BY <2>1, <3>1
  <2>3. records[i].has_gomod BY <2>1, <2>2, GoRecordFields
  <2> QED BY <1>5, <2>1, <2>3
<1>7. IsFiniteSet(WithManifest("go", c))
  <2>1. DOMAIN records = 1..Len(records) /\ Len(records) \in Nat OBVIOUS
  <2>2. IsFiniteSet(DOMAIN records) BY <2>1, IntervalSize
  <2> QED BY <1>5, <2>2, FS_Subset
<1> QED BY <1>1, <1>3, <1>4, <1>5, <1>6, <1>7 DEF Repo

\* And that of a Rust file.
LEMMA RustReading ==
  ASSUME NEW records \in Seq(GoodRecords("rust")), NEW n \in Nat, NEW c, c = RustRaw(records, n)
  PROVE  /\ Records("rust", c) = records
         /\ \A x : Users("rust", c, x) = Crating(records, x)
         /\ \A x : UserRepos("rust", c, x) = Voters(records, x)
         /\ Names("rust", c) = {x \in STRING : Crating(records, x) # {}}
         /\ WithManifest("rust", c) = {i \in DOMAIN records : records[i].cargo_toml_found}
         /\ \A x : Users("rust", c, x) \subseteq WithManifest("rust", c)
         /\ IsFiniteSet(WithManifest("rust", c))
<1>1. Records("rust", c) = records BY RustRawFacts DEF Records, RustFileOf
<1>2. ASSUME NEW x PROVE Users("rust", c, x) = Crating(records, x)
  BY <1>1 DEF Users, Uses, NameOf, Crating
<1>3. ASSUME NEW x PROVE UserRepos("rust", c, x) = Voters(records, x)
  BY <1>1, <1>2 DEF UserRepos, Voters, Repo
<1>4. Names("rust", c) = {x \in STRING : Crating(records, x) # {}}
  <2>1. Names("rust", c) = UNION {{dep.crate : dep \in ToSet(rec.direct_deps)} : rec \in ToSet(records)}
    BY <1>1 DEF Names, NameOf
  <2>2. ToSet(records) = {records[i] : i \in DOMAIN records} BY DEF ToSet
  <2>3. \A i \in DOMAIN records : \A d \in ToSet(records[i].direct_deps) : d.crate \in STRING
    <3> TAKE i \in DOMAIN records
    <3>1. records[i].direct_deps \in Seq(CrateDeps) BY RustRecordFields
    <3>2. \A d \in CrateDeps : d.crate \in STRING BY DEF CrateDeps
    <3>3. \A d \in ToSet(records[i].direct_deps) : d \in CrateDeps BY <3>1 DEF ToSet
    <3> QED BY <3>2, <3>3
  <2>4. ASSUME NEW x PROVE x \in Names("rust", c) <=> x \in STRING /\ Crating(records, x) # {}
    <3>1. x \in Names("rust", c) <=>
            \E rec \in ToSet(records) : \E dep \in ToSet(rec.direct_deps) : dep.crate = x
      BY <2>1
    <3>2. x \in Names("rust", c) <=>
            \E i \in DOMAIN records : \E dep \in ToSet(records[i].direct_deps) : dep.crate = x
      BY <2>2, <3>1
    <3> QED BY <2>3, <3>2 DEF Crating
  <2> QED BY <2>4
<1>5. WithManifest("rust", c) = {i \in DOMAIN records : records[i].cargo_toml_found}
  BY <1>1 DEF WithManifest, Found
<1>6. ASSUME NEW x, NEW i \in Users("rust", c, x) PROVE i \in WithManifest("rust", c)
  <2>1. i \in DOMAIN records /\ \E d \in ToSet(records[i].direct_deps) : d.crate = x
    BY <1>2 DEF Crating
  <2>2. records[i].direct_deps # <<>>
    <3>1. ToSet(<<>>) = {} BY DEF ToSet
    <3> QED BY <2>1, <3>1
  <2>3. records[i].cargo_toml_found BY <2>1, <2>2, RustRecordFields
  <2> QED BY <1>5, <2>1, <2>3
<1>7. IsFiniteSet(WithManifest("rust", c))
  <2>1. DOMAIN records = 1..Len(records) /\ Len(records) \in Nat OBVIOUS
  <2>2. IsFiniteSet(DOMAIN records) BY <2>1, IntervalSize
  <2> QED BY <1>5, <2>2, FS_Subset
<1> QED BY <1>1, <1>2, <1>3, <1>4, <1>5, <1>6, <1>7

-----------------------------------------------------------------------------
(* One vote per repository.                                                *)

OneVote(l, content) ==
  /\ {v[1] : v \in Votes(l, content)} = Names(l, content)
  /\ \A v \in Votes(l, content) :
       /\ v[2] <= Cardinality(WithManifest(l, content))
       /\ v[2] = IF l = "go" THEN Cardinality(Users(l, content, v[1]))
                 ELSE Cardinality(UserRepos(l, content, v[1]))

LEMMA GoVotes ==
  ASSUME NEW records \in Seq(GoodRecords("go")), NEW n \in Nat, NEW c, c = GoRaw(records, n)
  PROVE  OneVote("go", c)
<1> DEFINE counts == c.package_counts
           parts == Parts(records)
<1>1. counts \in Seq(GoCounts) /\ RankedBy(counts, parts) BY GoRawFacts DEF GoFileOf
<1>2. Votes("go", c) = {<<p.name, p.repos_count>> : p \in ToSet(counts)} BY DEF Votes
<1> HIDE DEF counts
<1>3. \A p : p \in ToSet(counts) <=> \E k \in DOMAIN counts : p = counts[k] BY DEF ToSet
<1>4. {v[1] : v \in Votes("go", c)} = Names("go", c)
  <2>1. ASSUME NEW x
        PROVE  x \in {v[1] : v \in Votes("go", c)} <=> \E k \in DOMAIN counts : counts[k].name = x
    <3>1. ASSUME NEW v \in Votes("go", c), v[1] = x PROVE \E k \in DOMAIN counts : counts[k].name = x
      <4>1. PICK p \in ToSet(counts) : v = <<p.name, p.repos_count>> BY <1>2, <3>1
      <4>2. PICK k \in DOMAIN counts : p = counts[k] BY <1>3
      <4>3. p.name = x BY <3>1, <4>1
      <4> QED BY <4>2, <4>3
    <3>2. ASSUME NEW k \in DOMAIN counts, counts[k].name = x PROVE \E v \in Votes("go", c) : v[1] = x
      <4>1. counts[k] \in ToSet(counts) BY <1>3
      <4>2. <<counts[k].name, counts[k].repos_count>> \in Votes("go", c) BY <1>2, <4>1
      <4>3. <<counts[k].name, counts[k].repos_count>>[1] = x BY <3>2
      <4> QED BY <4>2, <4>3
    <3> QED BY <3>1, <3>2
  <2>2. \A x : x \in Names("go", c) <=> Naming(parts, x) # {} BY GoReading
  <2> HIDE DEF parts
  <2>3. \A x : (\E k \in DOMAIN counts : counts[k].name = x) <=> Naming(parts, x) # {}
    BY <1>1 DEF RankedBy
  <2> QED BY <2>1, <2>2, <2>3
<1>5. ASSUME NEW v \in Votes("go", c)
      PROVE  /\ v[2] <= Cardinality(WithManifest("go", c))
             /\ v[2] = Cardinality(Users("go", c, v[1]))
  <2>1. PICK k \in DOMAIN counts : v = <<counts[k].name, counts[k].repos_count>> BY <1>2, <1>3
  <2> DEFINE x == counts[k].name
             A == Users("go", c, x)
             W == WithManifest("go", c)
  <2>2. v[1] = x /\ v[2] = counts[k].repos_count BY <2>1
  <2>3. A = Naming(parts, x) BY GoReading
  <2>4. IsFiniteSet(A) /\ v[2] = Cardinality(A)
    <3> HIDE DEF parts
    <3> QED BY <1>1, <2>2, <2>3 DEF RankedBy
  <2>5. A \subseteq W /\ IsFiniteSet(W) BY GoReading
  <2>6. v[2] <= Cardinality(W)
    <3> HIDE DEF A, W
    <3> QED BY <2>4, <2>5, FS_Subset
  <2> QED BY <2>2, <2>4, <2>6
<1> QED BY <1>4, <1>5 DEF OneVote

LEMMA RustVotes ==
  ASSUME NEW records \in Seq(GoodRecords("rust")), NEW n \in Nat, NEW c, c = RustRaw(records, n)
  PROVE  OneVote("rust", c)
<1> DEFINE counts == c.prevalence
<1>1. /\ counts \in Seq(CrateCounts)
      /\ \A p \in ToSet(counts) : p.repo_count = Cardinality(Voters(records, p.crate))
      /\ {p.crate : p \in ToSet(counts)} = {x \in STRING : Crating(records, x) # {}}
  <2>1. RustFileOf(c, records, n) BY RustRawFacts
  <2> QED BY <2>1 DEF RustFileOf
<1>2. Votes("rust", c) = {<<p.crate, p.repo_count>> : p \in ToSet(counts)} BY DEF Votes
<1> HIDE DEF counts
<1>3. {v[1] : v \in Votes("rust", c)} = Names("rust", c)
  <2>1. ASSUME NEW v \in Votes("rust", c) PROVE v[1] \in {p.crate : p \in ToSet(counts)}
    <3>1. PICK p \in ToSet(counts) : v = <<p.crate, p.repo_count>> BY <1>2
    <3>2. v[1] = p.crate BY <3>1
    <3> QED BY <3>2
  <2>2. ASSUME NEW p \in ToSet(counts) PROVE \E v \in Votes("rust", c) : v[1] = p.crate
    <3>1. <<p.crate, p.repo_count>> \in Votes("rust", c) BY <1>2
    <3>2. <<p.crate, p.repo_count>>[1] = p.crate OBVIOUS
    <3> QED BY <3>1, <3>2
  <2>3. {v[1] : v \in Votes("rust", c)} = {p.crate : p \in ToSet(counts)} BY <2>1, <2>2
  <2>4. Names("rust", c) = {x \in STRING : Crating(records, x) # {}} BY RustReading
  <2> QED BY <1>1, <2>3, <2>4
<1>4. ASSUME NEW v \in Votes("rust", c)
      PROVE  /\ v[2] <= Cardinality(WithManifest("rust", c))
             /\ v[2] = Cardinality(UserRepos("rust", c, v[1]))
  <2>1. PICK p \in ToSet(counts) : v = <<p.crate, p.repo_count>> BY <1>2
  <2> DEFINE x == p.crate
             A == Users("rust", c, x)
             W == WithManifest("rust", c)
             B == UserRepos("rust", c, x)
  <2>2. v[1] = x /\ v[2] = p.repo_count BY <2>1
  <2>3. B = Voters(records, x) /\ A \subseteq W /\ IsFiniteSet(W) BY RustReading
  <2>4. v[2] = Cardinality(B) BY <1>1, <2>2, <2>3
  <2>5. B = {Repo("rust", records[i]) : i \in A}
    <3>1. Records("rust", c) = records BY RustReading
    <3> QED BY <3>1 DEF UserRepos
  <2> HIDE DEF A, B, W
  <2>6. IsFiniteSet(A) /\ Cardinality(A) <= Cardinality(W) /\ Cardinality(A) \in Nat /\ Cardinality(W) \in Nat
    BY <2>3, FS_Subset, FS_CardinalityType
  <2>7. IsFiniteSet(B) /\ Cardinality(B) <= Cardinality(A) /\ Cardinality(B) \in Nat
    <3> DEFINE h == [i \in A |-> Repo("rust", records[i])]
    <3>1. h \in [A -> B] /\ \A r \in B : \E i \in A : h[i] = r BY <2>5
    <3> HIDE DEF h
    <3>2. h \in Surjection(A, B) BY <3>1 DEF Surjection
    <3> QED BY <2>6, <3>2, FS_Surjection, FS_CardinalityType
  <2> QED BY <2>2, <2>4, <2>6, <2>7 DEF B, W
<1> QED BY <1>3, <1>4 DEF OneVote

LEMMA HeldVotes ==
  ASSUME NEW l \in Langs, NEW content, Holds(l, content)
  PROVE  OneVote(l, content)
<1>1. PICK records \in Seq(GoodRecords(l)), n \in Nat : content = Output(l, records, n) BY DEF Holds
<1>2. CASE l = "go" BY <1>1, <1>2, GoVotes DEF Output
<1>3. CASE l = "rust" BY <1>1, <1>3, RustVotes DEF Output
<1> QED BY <1>2, <1>3 DEF Langs
=============================================================================
