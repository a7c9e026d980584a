----------------------------- MODULE SuiteProofs -----------------------------
(***************************************************************************)
(* Proofs about the task suite and the bench workload, for any sources,    *)
(* any seeded draw and any number of builds.                               *)
(***************************************************************************)
EXTENDS Workload, SequenceLemmas

-----------------------------------------------------------------------------
(* What 02_build_split.py puts in its two lists.                           *)

\* Each source is a list of problems with distinct integer ids.
LEMMA SourceFacts ==
  ASSUME NEW r \in Releases, NEW src \in {"mbpp", "he", "hex"}
  PROVE  /\ r[src] \in Seq(ToSet(r[src])) /\ IsInjective(r[src])
         /\ DOMAIN r[src] = 1..Len(r[src]) /\ Len(r[src]) \in Nat
         /\ \A p, q \in ToSet(r[src]) : p.uid = q.uid => p = q
         /\ \A p \in ToSet(r[src]) : p.uid \in Int
<1> DEFINE s == r[src]
<1>1. s \in Seq(ToSet(s)) /\ IsInjective(Uids(s)) /\ \A p \in ToSet(s) : p.uid \in Int
  BY SuiteAssumption
<1> HIDE DEF s
<1>2. \A i, j \in DOMAIN s : s[i].uid = s[j].uid => i = j
  BY <1>1 DEF Uids, IsInjective
<1>3. IsInjective(s) BY <1>2 DEF IsInjective
<1>4. \A p, q \in ToSet(s) : p.uid = q.uid => p = q BY <1>2 DEF ToSet
<1>5. DOMAIN s = 1..Len(s) /\ Len(s) \in Nat BY <1>1
<1> QED BY <1>1, <1>3, <1>4, <1>5 DEF s

\* The sorted ids: every one once, in increasing order.
LEMMA MbppIdsFacts ==
  ASSUME NEW r \in Releases
  PROVE  /\ MbppIds(r) \in Seq(Int) /\ Len(MbppIds(r)) = Len(r.mbpp)
         /\ ToSet(MbppIds(r)) = {p.uid : p \in ToSet(r.mbpp)} /\ IsInjective(MbppIds(r))
         /\ \A j, k \in DOMAIN MbppIds(r) : j < k <=> MbppIds(r)[j] < MbppIds(r)[k]
<1> DEFINE s == Uids(r.mbpp)
           t == MbppIds(r)
           R == [i \in DOMAIN s |-> {j \in DOMAIN s : s[j] < s[i]}]
<1>1. /\ r.mbpp \in Seq(ToSet(r.mbpp)) /\ DOMAIN r.mbpp = 1..Len(r.mbpp) /\ Len(r.mbpp) \in Nat
      /\ \A p \in ToSet(r.mbpp) : p.uid \in Int
  BY SourceFacts
<1>2. s \in Seq(Int) /\ Len(s) = Len(r.mbpp) /\ IsInjective(s)
  <2>1. s = [i \in 1..Len(r.mbpp) |-> r.mbpp[i].uid] BY <1>1 DEF Uids
  <2>2. \A i \in 1..Len(r.mbpp) : r.mbpp[i] \in ToSet(r.mbpp) BY <1>1 DEF ToSet
  <2>3. s \in Seq(Int) /\ Len(s) = Len(r.mbpp) BY <1>1, <2>1, <2>2
  <2>4. IsInjective(s) BY SuiteAssumption
  <2> QED BY <2>3, <2>4
<1>3. ToSet(s) = {p.uid : p \in ToSet(r.mbpp)} BY <1>1 DEF ToSet, Uids
<1>4. t = PickedBy(s, DOMAIN s, [i \in DOMAIN s |-> {j \in DOMAIN s :
             j \in R[i] \/ (i \notin R[j] /\ j < i)}])
  BY DEF MbppIds, Sorted
<1> HIDE DEF s, t
<1>5. /\ R \in [DOMAIN s -> SUBSET DOMAIN s]
      /\ \A i, j \in DOMAIN s : i \in R[j] <=> s[i] < s[j]
      /\ \A i \in DOMAIN s : s[i] \in Int
      /\ \A i, j \in DOMAIN s : s[i] = s[j] => i = j
  BY <1>2 DEF IsInjective
<1> HIDE DEF R
<1>6. /\ \A i, j \in DOMAIN s : i \in R[j] => j \notin R[i]
      /\ \A i, j, k \in DOMAIN s : i \in R[j] => i \in R[k] \/ k \in R[j]
      /\ \A i, j \in DOMAIN s : i = j \/ i \in R[j] \/ j \in R[i]
  BY <1>5
<1>7. Sorting(t, s, R, Int) BY <1>2, <1>4, <1>5, <1>6, SortedFacts
<1>8. PICK at : /\ at \in [DOMAIN t -> DOMAIN s] /\ \A k \in DOMAIN t : t[k] = s[at[k]]
                /\ \A j, k \in DOMAIN t : j < k <=> at[j] \in R[at[k]]
  BY <1>7 DEF Sorting
<1>9. \A j, k \in DOMAIN t : j < k <=> t[j] < t[k] BY <1>5, <1>8
<1> QED BY <1>2, <1>3, <1>7, <1>9 DEF Sorting, t

\* A list of records of one source has one of each of its problems.
LEMMA RecordsFacts ==
  ASSUME NEW lines, lines \in Seq(ToSet(lines)), IsInjective(lines),
         NEW src, NEW family, NEW train
  PROVE  /\ IsInjective(Records(src, family, lines, train))
         /\ Records(src, family, lines, train) \in Seq(ToSet(Records(src, family, lines, train)))
         /\ ToSet(Records(src, family, lines, train)) =
              {Record(src, family, p, train) : p \in ToSet(lines)}
<1> DEFINE t == Records(src, family, lines, train)
<1>1. DOMAIN lines = 1..Len(lines) /\ Len(lines) \in Nat OBVIOUS
<1>2. t = [i \in 1..Len(lines) |-> Record(src, family, lines[i], train)]
  BY <1>1 DEF Records
<1>3. \A p, q : Record(src, family, p, train) = Record(src, family, q, train) => p = q
  BY DEF Record
<1>4. t \in Seq(ToSet(t)) BY <1>1, <1>2 DEF ToSet
<1>5. ToSet(t) = {Record(src, family, p, train) : p \in ToSet(lines)} BY <1>1, <1>2 DEF ToSet
<1>6. IsInjective(t)
  <2> SUFFICES ASSUME NEW i \in 1..Len(lines), NEW j \in 1..Len(lines), t[i] = t[j] PROVE i = j
    BY <1>2 DEF IsInjective
  <2>1. lines[i] = lines[j] BY <1>1, <1>2, <1>3
  <2> QED BY <1>1, <2>1 DEF IsInjective
<1> QED BY <1>4, <1>5, <1>6

\* The records a build makes of its sources: it depends on the sets of problems only.
Made(r) ==
  {Record("multipl-e-mbpp", "mbpp", p, MbppTrain(r)) : p \in ToSet(r.mbpp)}
    \cup {Record("multipl-e-humaneval", "humaneval", p, heTrain) :
            p \in {q \in ToSet(r.he) : q.uid \in heTrain}}
    \cup {Record("humaneval-x", "humaneval", p, heTrain) : p \in ToSet(r.hex)}

\* Both lists together have each of those records once.
LEMMA CombinedFacts ==
  ASSUME NEW r \in Releases
  PROVE  /\ Combined(r) \in Seq(Made(r)) /\ IsInjective(Combined(r))
         /\ ToSet(Combined(r)) = Made(r)
<1> DEFINE k == Kept(r.he, LAMBDA p : p.uid \in heTrain)
           a == Records("multipl-e-mbpp", "mbpp", r.mbpp, MbppTrain(r))
           b == Records("multipl-e-humaneval", "humaneval", k, heTrain)
           c == Records("humaneval-x", "humaneval", r.hex, heTrain)
           A == {Record("multipl-e-mbpp", "mbpp", p, MbppTrain(r)) : p \in ToSet(r.mbpp)}
           B == {Record("multipl-e-humaneval", "humaneval", p, heTrain) :
                   p \in {q \in ToSet(r.he) : q.uid \in heTrain}}
           C == {Record("humaneval-x", "humaneval", p, heTrain) : p \in ToSet(r.hex)}
<1>1. /\ r.mbpp \in Seq(ToSet(r.mbpp)) /\ IsInjective(r.mbpp)
      /\ r.he \in Seq(ToSet(r.he)) /\ IsInjective(r.he)
      /\ r.hex \in Seq(ToSet(r.hex)) /\ IsInjective(r.hex)
  BY SourceFacts
<1>2. k \in Seq(ToSet(k)) /\ IsInjective(k) /\ ToSet(k) = {q \in ToSet(r.he) : q.uid \in heTrain}
  <2> DEFINE I == {i \in DOMAIN r.he : r.he[i].uid \in heTrain}
  <2>1. k = Picked(r.he, I) BY DEF Kept
  <2>2. I \in SUBSET DOMAIN r.he OBVIOUS
  <2>3. {r.he[i] : i \in I} = {q \in ToSet(r.he) : q.uid \in heTrain} BY DEF ToSet
  <2> HIDE DEF k, I
  <2>4. k \in Seq(ToSet(r.he)) /\ IsInjective(k) /\ ToSet(k) = {r.he[i] : i \in I}
    BY <1>1, <2>1, <2>2, PickedFacts DEF Selection
  <2> QED BY <2>3, <2>4, OwnElements
<1> HIDE DEF k
<1>3. a \in Seq(ToSet(a)) /\ IsInjective(a) /\ ToSet(a) = A BY <1>1, RecordsFacts
<1>4. b \in Seq(ToSet(b)) /\ IsInjective(b) /\ ToSet(b) = B BY <1>2, RecordsFacts
<1>5. c \in Seq(ToSet(c)) /\ IsInjective(c) /\ ToSet(c) = C BY <1>1, RecordsFacts
<1>6. /\ \A x \in A : x.source = "multipl-e-mbpp"
      /\ \A x \in B : x.source = "multipl-e-humaneval"
      /\ \A x \in C : x.source = "humaneval-x"
  BY DEF Record
<1>7. Combined(r) = a \o b \o c BY DEF Combined, HeRecords, k
<1>8. Made(r) = A \cup B \cup C BY DEF Made
<1> HIDE DEF a, b, c, A, B, C
<1>9. A \cap B = {} /\ (A \cup B) \cap C = {} BY <1>6
<1>10. a \in Seq(Made(r)) /\ b \in Seq(Made(r)) /\ c \in Seq(Made(r))
  BY <1>3, <1>4, <1>5, <1>8, OwnElements
<1>11. a \o b \in Seq(Made(r)) /\ IsInjective(a \o b) /\ ToSet(a \o b) = A \cup B
  BY <1>3, <1>4, <1>9, <1>10, ConcatFacts
<1> DEFINE ab == a \o b
<1>12. ab \in Seq(Made(r)) /\ IsInjective(ab) /\ ToSet(ab) = A \cup B BY <1>11
<1> HIDE DEF ab
<1>13. ab \o c \in Seq(Made(r)) /\ IsInjective(ab \o c) /\ ToSet(ab \o c) = Made(r)
  BY <1>5, <1>8, <1>9, <1>10, <1>12, ConcatFacts
<1> QED BY <1>7, <1>13 DEF ab

\* Two of them with the same source are of different problems, and a problem is on
\* one side only.
LEMMA MadeFacts ==
  ASSUME NEW r \in Releases
  PROVE  /\ \A x \in Made(r) :
              /\ x.split \in {"train", "heldout"} /\ x.problem.uid \in Int
              /\ x.source \in {"humaneval-x", "multipl-e-humaneval", "multipl-e-mbpp"}
              /\ x.family = IF x.source = "multipl-e-mbpp" THEN "mbpp" ELSE "humaneval"
              /\ x.split = IF x.problem.uid \in IF x.family = "mbpp" THEN MbppTrain(r) ELSE heTrain
                           THEN "train" ELSE "heldout"
              /\ x.source = "multipl-e-humaneval" => x.split = "train"
         /\ \A x, y \in Made(r) :
              x.source = y.source /\ x.problem.uid = y.problem.uid => x = y
         /\ {x.problem : x \in {z \in Made(r) : z.source = "multipl-e-mbpp"}} = ToSet(r.mbpp)
         /\ {x.problem : x \in {z \in Made(r) : z.source = "humaneval-x"}} = ToSet(r.hex)
<1>1. /\ \A p \in ToSet(r.mbpp) \cup ToSet(r.he) \cup ToSet(r.hex) : p.uid \in Int
      /\ \A p, q \in ToSet(r.mbpp) : p.uid = q.uid => p = q
      /\ \A p, q \in ToSet(r.he) : p.uid = q.uid => p = q
      /\ \A p, q \in ToSet(r.hex) : p.uid = q.uid => p = q
  BY SourceFacts
<1>2. ASSUME NEW x \in Made(r)
      PROVE  /\ x.split \in {"train", "heldout"} /\ x.problem.uid \in Int
             /\ x.source \in {"humaneval-x", "multipl-e-humaneval", "multipl-e-mbpp"}
             /\ x.family = IF x.source = "multipl-e-mbpp" THEN "mbpp" ELSE "humaneval"
             /\ x.split = IF x.problem.uid \in IF x.family = "mbpp" THEN MbppTrain(r) ELSE heTrain
                          THEN "train" ELSE "heldout"
             /\ x.source = "multipl-e-humaneval" => x.split = "train"
  BY <1>1 DEF Made, Record
<1>3. ASSUME NEW x \in Made(r), NEW y \in Made(r),
             x.source = y.source, x.problem.uid = y.problem.uid
      PROVE  x = y
  BY <1>1, <1>3 DEF Made, Record
<1>4. {x.problem : x \in {z \in Made(r) : z.source = "multipl-e-mbpp"}} = ToSet(r.mbpp)
  <2> DEFINE rec(p) == Record("multipl-e-mbpp", "mbpp", p, MbppTrain(r))
  <2>1. {z \in Made(r) : z.source = "multipl-e-mbpp"} = {rec(p) : p \in ToSet(r.mbpp)}
    BY DEF Made, Record
  <2>2. \A p : rec(p).problem = p BY DEF Record
  <2> HIDE DEF rec
  <2> QED BY <2>1, <2>2
<1>5. {x.problem : x \in {z \in Made(r) : z.source = "humaneval-x"}} = ToSet(r.hex)
  <2> DEFINE rec(p) == Record("humaneval-x", "humaneval", p, heTrain)
  <2>1. {z \in Made(r) : z.source = "humaneval-x"} = {rec(p) : p \in ToSet(r.hex)}
    BY DEF Made, Record
  <2>2. \A p : rec(p).problem = p BY DEF Record
  <2> HIDE DEF rec
  <2> QED BY <2>1, <2>2
<1> QED BY <1>2, <1>3, <1>4, <1>5

\* The order of the ids is total on the records of one build.
LEMMA BeforeFacts ==
  ASSUME NEW r \in Releases
  PROVE  /\ \A x, y \in Made(r) : Before(x, y) => ~Before(y, x)
         /\ \A x, y, z \in Made(r) : Before(x, y) => Before(x, z) \/ Before(z, y)
         /\ \A x, y \in Made(r) : x = y \/ Before(x, y) \/ Before(y, x)
<1> DEFINE names == <<"humaneval-x", "multipl-e-humaneval", "multipl-e-mbpp">>
<1>1. ASSUME NEW x \in Made(r) PROVE Rank(x) \in 1..3 /\ x.source = names[Rank(x)]
  <2>1. x.source \in {names[1], names[2], names[3]} BY MadeFacts
  <2>2. 1 \in 1..3 /\ 2 \in 1..3 /\ 3 \in 1..3 OBVIOUS
  <2>3. \E i \in 1..3 : x.source = names[i]
    <3> HIDE DEF names
    <3> QED BY <2>1, <2>2
  <2>4. Rank(x) = CHOOSE i \in 1..3 : x.source = names[i] BY DEF Rank
  <2> HIDE DEF names
  <2> QED BY <2>3, <2>4
<1> HIDE DEF names
<1>2. \A x \in Made(r) : Rank(x) \in Int /\ x.problem.uid \in Int BY <1>1, MadeFacts
<1>3. ASSUME NEW x \in Made(r), NEW y \in Made(r),
             Rank(x) = Rank(y), x.problem.uid = y.problem.uid
      PROVE  x = y
  <2>1. x.source = y.source BY <1>1, <1>3
  <2> QED BY <1>3, <2>1, MadeFacts
<1>4. \A x, y \in Made(r) : Before(x, y) => ~Before(y, x) BY <1>2 DEF Before
<1>5. \A x, y, z \in Made(r) : Before(x, y) => Before(x, z) \/ Before(z, y)
  BY <1>2 DEF Before
<1>6. \A x, y \in Made(r) : x = y \/ Before(x, y) \/ Before(y, x) BY <1>2, <1>3 DEF Before
<1> QED BY <1>4, <1>5, <1>6

\* A side has the records of that side, each once, in the order of the ids.
LEMMA SideFacts ==
  ASSUME NEW r \in Releases, NEW split
  PROVE  /\ Side(r, split) \in Seq(Made(r)) /\ IsInjective(Side(r, split))
         /\ ToSet(Side(r, split)) = {x \in Made(r) : x.split = split}
         /\ \A j, k \in DOMAIN Side(r, split) :
              j < k <=> Before(Side(r, split)[j], Side(r, split)[k])
<1> DEFINE c == Combined(r)
           s == Kept(c, LAMBDA rec : rec.split = split)
           t == Side(r, split)
           R == [i \in DOMAIN s |-> {j \in DOMAIN s : Before(s[j], s[i])}]
           S == Made(r)
<1>1. c \in Seq(S) /\ IsInjective(c) /\ ToSet(c) = S BY CombinedFacts
<1>2. t = PickedBy(s, DOMAIN s, [i \in DOMAIN s |-> {j \in DOMAIN s :
             j \in R[i] \/ (i \notin R[j] /\ j < i)}])
  BY DEF Side, Sorted
<1>3. s \in Seq(S) /\ IsInjective(s) /\ ToSet(s) = {x \in S : x.split = split}
  <2> DEFINE I == {i \in DOMAIN c : c[i].split = split}
  <2>1. s = Picked(c, I) BY DEF Kept
  <2> HIDE DEF s, c
  <2>2. I \in SUBSET DOMAIN c OBVIOUS
  <2>3. {c[i] : i \in I} = {x \in ToSet(c) : x.split = split} BY DEF ToSet
  <2> HIDE DEF I
  <2> QED BY <1>1, <2>1, <2>2, <2>3, PickedFacts DEF Selection
<1> HIDE DEF c, s, t
<1>4. /\ R \in [DOMAIN s -> SUBSET DOMAIN s]
      /\ \A i, j \in DOMAIN s : i \in R[j] <=> Before(s[i], s[j])
  OBVIOUS
<1>5. /\ \A i \in DOMAIN s : s[i] \in S
      /\ \A i, j \in DOMAIN s : s[i] = s[j] => i = j
  BY <1>3 DEF IsInjective
<1> HIDE DEF R, S
<1>6. /\ \A x, y \in S : Before(x, y) => ~Before(y, x)
      /\ \A x, y, z \in S : Before(x, y) => Before(x, z) \/ Before(z, y)
      /\ \A x, y \in S : x = y \/ Before(x, y) \/ Before(y, x)
  BY BeforeFacts DEF S
<1>7. /\ \A i, j \in DOMAIN s : i \in R[j] => j \notin R[i]
      /\ \A i, j, k \in DOMAIN s : i \in R[j] => i \in R[k] \/ k \in R[j]
      /\ \A i, j \in DOMAIN s : i = j \/ i \in R[j] \/ j \in R[i]
  BY <1>4, <1>5, <1>6
<1>8. Sorting(t, s, R, S) BY <1>2, <1>3, <1>4, <1>7, SortedFacts
<1>9. PICK at : /\ at \in [DOMAIN t -> DOMAIN s] /\ \A k \in DOMAIN t : t[k] = s[at[k]]
                /\ \A j, k \in DOMAIN t : j < k <=> at[j] \in R[at[k]]
  BY <1>8 DEF Sorting
<1>10. \A j, k \in DOMAIN t : j < k <=> Before(t[j], t[k]) BY <1>4, <1>9
<1> QED BY <1>3, <1>8, <1>10 DEF Sorting, t, S

\* The training ids and the sides depend on which problems there are, not on the
\* order of their lines.
LEMMA SideIgnoresOrder ==
  ASSUME NEW r \in Releases, NEW q \in Releases,
         \A src \in {"mbpp", "he", "hex"} : ToSet(r[src]) = ToSet(q[src]), NEW split
  PROVE  Side(r, split) = Side(q, split)
<1>1. ToSet(r.mbpp) = ToSet(q.mbpp) /\ ToSet(r.he) = ToSet(q.he) /\ ToSet(r.hex) = ToSet(q.hex)
  OBVIOUS
<1>2. MbppIds(r) = MbppIds(q)
  <2> DEFINE a == MbppIds(r)
             b == MbppIds(q)
             S == {p.uid : p \in ToSet(r.mbpp)}
             before == [x \in S |-> {y \in S : y < x}]
  <2>1. /\ a \in Seq(Int) /\ b \in Seq(Int) /\ ToSet(a) = S /\ ToSet(b) = S
        /\ \A j, k \in DOMAIN a : j < k <=> a[j] < a[k]
        /\ \A j, k \in DOMAIN b : j < k <=> b[j] < b[k]
    BY <1>1, MbppIdsFacts
  <2>2. S \subseteq Int BY SourceFacts
  <2> HIDE DEF a, b, S
  <2>3. Orders(S, before)
    <3>1. before \in [S -> SUBSET S] /\ \A x, y \in S : y \in before[x] <=> y < x OBVIOUS
    <3>2. /\ \A x, y \in S : x < y => ~(y < x)
          /\ \A x, y, z \in S : x < y => x < z \/ z < y
          /\ \A x, y \in S : x = y \/ x < y \/ y < x
      BY <2>2
    <3> HIDE DEF before
    <3> QED BY <3>1, <3>2 DEF Orders
  <2>4. a \in Seq(S) /\ b \in Seq(S) BY <2>1, OwnElements
  <2>5. /\ \A j, k \in DOMAIN a : j < k <=> a[j] \in before[a[k]]
        /\ \A j, k \in DOMAIN b : j < k <=> b[j] \in before[b[k]]
    BY <2>1, <2>4
  <2> HIDE DEF before
  <2>6. a = b BY <2>1, <2>3, <2>4, <2>5, SortedUnique
  <2> QED BY <2>6 DEF a, b
<1>3. Len(r.mbpp) = Len(q.mbpp) BY <1>2, MbppIdsFacts
<1>4. MbppTrain(r) = MbppTrain(q) BY <1>2, <1>3 DEF MbppTrain
<1>5. Made(r) = Made(q) BY <1>1, <1>4 DEF Made
<1> DEFINE a == Side(r, split)
           b == Side(q, split)
           S == {x \in Made(r) : x.split = split}
           before == [x \in S |-> {y \in S : Before(y, x)}]
<1>6. /\ a \in Seq(Made(r)) /\ b \in Seq(Made(r)) /\ ToSet(a) = S /\ ToSet(b) = S
      /\ \A j, k \in DOMAIN a : j < k <=> Before(a[j], a[k])
      /\ \A j, k \in DOMAIN b : j < k <=> Before(b[j], b[k])
  BY <1>5, SideFacts
<1>7. /\ \A x, y \in S : Before(x, y) => ~Before(y, x)
      /\ \A x, y, z \in S : Before(x, y) => Before(x, z) \/ Before(z, y)
      /\ \A x, y \in S : x = y \/ Before(x, y) \/ Before(y, x)
  BY BeforeFacts
<1> HIDE DEF a, b, S
<1>8. Orders(S, before)
  <2>1. before \in [S -> SUBSET S] /\ \A x, y \in S : y \in before[x] <=> Before(y, x) OBVIOUS
  <2> HIDE DEF before
  <2> QED BY <1>7, <2>1 DEF Orders
<1>9. a \in Seq(S) /\ b \in Seq(S) BY <1>6, OwnElements
<1>10. /\ \A j, k \in DOMAIN a : j < k <=> a[j] \in before[a[k]]
       /\ \A j, k \in DOMAIN b : j < k <=> b[j] \in before[b[k]]
  BY <1>6, <1>9
<1> HIDE DEF before
<1>11. a = b BY <1>6, <1>8, <1>9, <1>10, SortedUnique
<1> QED BY <1>11 DEF a, b

-----------------------------------------------------------------------------
(* What the files hold, whatever builds and interruptions there have been.  *)

\* The variables no split file depends on have their types, and a build that
\* is running has not ended.
SuiteTypes ==
  /\ input \in Releases /\ next \in 0..5 /\ builds \in 0..MaxBuilds
  /\ built \in {"no", "ok", "leak"} /\ verdict \in {"none", "pass", "fail"}
  /\ next > 0 => built = "no"
  /\ DOMAIN files = {"mbpp", "hex", "train", "heldout"}

\* The files a build has written, all of them when it has ended, are what it read
\* and what it made of it.
Written ==
  \A i \in 1..4 : i < next \/ built # "no" => files[Writes[i]] = Contents(Writes[i])

\* The first lines of a list, perhaps with a torn one after them.
BeginningOf(lines, s) ==
  \E k \in 0..Len(s) : lines \in {SubSeq(s, 1, k), Append(SubSeq(s, 1, k), Torn)}

\* What a build writes to a file when it has read r.
ContentsOf(r, f) == IF f \in {"mbpp", "hex"} THEN r[f] ELSE Side(r, f)

\* A file is the beginning of what some build has made of some sources.
OfOneBuild ==
  \A f \in {"mbpp", "hex", "train", "heldout"} :
    files[f] = Missing \/ \E r \in Releases : BeginningOf(files[f], ContentsOf(r, f))

\* The verification vouches for the files that are there.
Cleared ==
  verdict = "pass" => ~Problem /\ \A f \in DOMAIN files : files[f] # Missing

SuiteInv == SuiteTypes /\ Written /\ OfOneBuild /\ Cleared

\* The split is decided once: the draws are seeded.
LEMMA SideConstant ==
  ASSUME heTrain' = heTrain, drawn' = drawn, NEW r, NEW split
  PROVE  Side(r, split)' = Side(r, split)
<1>1. MbppTrain(r)' = MbppTrain(r) BY DEF MbppTrain, MbppIds, Sorted, Uids
<1>2. HeRecords(r)' = HeRecords(r) BY DEF HeRecords, Records, Record, Kept
<1>3. Combined(r)' = Combined(r) BY <1>1, <1>2 DEF Combined, Records, Record
<1> QED BY <1>3 DEF Side, Sorted, Kept

\* The whole of a list is its longest beginning.
LEMMA WholeBeginning ==
  ASSUME NEW S, NEW s \in Seq(S)
  PROVE  BeginningOf(s, s)
<1>1. Len(s) \in 0..Len(s) /\ s = SubSeq(s, 1, Len(s)) OBVIOUS
<1> QED BY <1>1 DEF BeginningOf

\* What an interrupted write leaves is a beginning.
LEMMA PartialBeginning ==
  ASSUME NEW S, NEW s \in Seq(S), NEW part \in Partial(s)
  PROVE  BeginningOf(part, s)
<1>1. PICK k \in 0..(Len(s) - 1) : part \in {SubSeq(s, 1, k), Append(SubSeq(s, 1, k), Torn)}
  BY DEF Partial
<1>2. k \in 0..Len(s) OBVIOUS
<1> QED BY <1>1, <1>2 DEF BeginningOf

\* The order of the writes.
LEMMA WritesFacts ==
  /\ DOMAIN Writes = 1..4 /\ Len(Writes) = 4
  /\ ToSet(Writes) = {"mbpp", "hex", "train", "heldout"}
  /\ Writes[1] = "mbpp" /\ Writes[2] = "hex" /\ Writes[3] = "train" /\ Writes[4] = "heldout"
  /\ \A i, j \in 1..4 : Writes[i] = Writes[j] => i = j
  /\ \A f \in {"mbpp", "hex", "train", "heldout"} : \E i \in 1..4 : f = Writes[i]
<1>1. DOMAIN Writes = 1..4 /\ Len(Writes) = 4 BY DEF Writes
<1>2. Writes[1] = "mbpp" /\ Writes[2] = "hex" /\ Writes[3] = "train" /\ Writes[4] = "heldout"
  BY DEF Writes
<1>3. 1..4 = {1, 2, 3, 4} OBVIOUS
<1>4. ToSet(Writes) = {"mbpp", "hex", "train", "heldout"} BY <1>1, <1>2, <1>3 DEF ToSet
<1>5. \A i, j \in 1..4 : Writes[i] = Writes[j] => i = j BY <1>2, <1>3
<1>6. \A f \in {"mbpp", "hex", "train", "heldout"} : \E i \in 1..4 : f = Writes[i]
  BY <1>2, <1>3
<1> QED BY <1>1, <1>2, <1>4, <1>5, <1>6

\* What a build writes is a list.
LEMMA ContentsFacts ==
  ASSUME NEW r \in Releases, NEW f \in {"mbpp", "hex", "train", "heldout"}
  PROVE  ContentsOf(r, f) \in Seq(ToSet(ContentsOf(r, f))) /\ IsInjective(ContentsOf(r, f))
<1>1. CASE f \in {"mbpp", "hex"} BY <1>1, SourceFacts DEF ContentsOf
<1>2. CASE f \notin {"mbpp", "hex"}
  <2>1. ContentsOf(r, f) = Side(r, f) BY <1>2 DEF ContentsOf
  <2>2. Side(r, f) \in Seq(Made(r)) /\ IsInjective(Side(r, f)) BY SideFacts
  <2> QED BY <2>1, <2>2, OwnElements
<1> QED BY <1>1, <1>2

LEMMA SuiteInvInit == SuiteInit => SuiteInv
<1> SUFFICES ASSUME SuiteInit PROVE SuiteInv OBVIOUS
<1>1. SuiteTypes BY SuiteAssumption, WritesFacts DEF SuiteInit, SuiteTypes
<1>2. Written BY DEF SuiteInit, Written
<1>3. OfOneBuild BY WritesFacts DEF SuiteInit, OfOneBuild
<1>4. Cleared BY DEF SuiteInit, Cleared
<1> QED BY <1>1, <1>2, <1>3, <1>4 DEF SuiteInv

\* A step of a build, an interruption or a verification preserves the invariant.
LEMMA SuiteInvStep == SuiteInv /\ [SuiteNext]_suiteVars => SuiteInv'
<1> SUFFICES ASSUME SuiteInv, [SuiteNext]_suiteVars PROVE SuiteInv' OBVIOUS
<1> USE DEF SuiteInv, SuiteTypes
<1>1. heTrain' = heTrain /\ drawn' = drawn
  BY DEF SuiteNext, BuildReads, BuildWrites, BuildDies, BuildEnds, Verify, suiteVars
<1>2. \A r, f : Side(r, f)' = Side(r, f) BY <1>1, SideConstant
<1>12. \A r, f : ContentsOf(r, f)' = ContentsOf(r, f) BY <1>2 DEF ContentsOf
<1>3. ASSUME files' = files PROVE OfOneBuild'
  BY <1>3, <1>12 DEF OfOneBuild, BeginningOf
<1>4. ASSUME input' = input PROVE \A f : Contents(f)' = Contents(f)
  BY <1>2, <1>4 DEF Contents
<1>5. ASSUME files' = files, verdict' = verdict PROVE Cleared'
  BY <1>5 DEF Cleared, Problem, NewCollision, GroupHeldOut, NewGroup, BuggyLeaked,
              HexCopy, HeldHex, Suspects
<1>6. CASE BuildReads
  <2>1. SuiteTypes' BY <1>6, SuiteAssumption DEF BuildReads
  <2>2. Written' BY <1>6 DEF BuildReads, Written
  <2> QED BY <1>3, <1>5, <1>6, <2>1, <2>2 DEF BuildReads
<1>7. CASE BuildWrites
  <2> DEFINE w == Writes[next]
  <2>1. next \in 1..4 /\ w \in DOMAIN files /\ built = "no" BY <1>7, WritesFacts DEF BuildWrites
  <2>2. /\ DOMAIN files' = DOMAIN files /\ files'[w] = Contents(w)
        /\ \A f \in DOMAIN files : f # w => files'[f] = files[f]
    BY <1>7, <2>1 DEF BuildWrites
  <2>3. SuiteTypes' BY <1>7, <2>1, <2>2 DEF BuildWrites
  <2>4. Written'
    <3> SUFFICES ASSUME NEW i \in 1..4, i < next' \/ built' # "no"
                 PROVE  files'[Writes[i]] = Contents(Writes[i])'
      BY DEF Written
    <3>1. i < next \/ i = next BY <1>7, <2>1 DEF BuildWrites
    <3>2. Contents(Writes[i])' = Contents(Writes[i]) BY <1>4, <1>7 DEF BuildWrites
    <3>3. CASE i = next BY <2>2, <3>2, <3>3
    <3>4. CASE i < next
      <4>1. Writes[i] # w /\ Writes[i] \in DOMAIN files BY <2>1, <3>4, WritesFacts
      <4> QED BY <2>2, <3>2, <3>4, <4>1 DEF Written
    <3> QED BY <3>1, <3>3, <3>4
  <2>5. OfOneBuild'
    <3> SUFFICES ASSUME NEW f \in {"mbpp", "hex", "train", "heldout"}
                 PROVE  files'[f] = Missing
                          \/ \E r \in Releases : BeginningOf(files'[f], ContentsOf(r, f))
      BY <1>12 DEF OfOneBuild, BeginningOf
    <3>1. CASE f = w
      <4>1. files'[f] = ContentsOf(input, f) BY <2>2, <3>1 DEF Contents, ContentsOf
      <4> QED BY <4>1, ContentsFacts, WholeBeginning
    <3>2. CASE f # w BY <2>2, <3>2 DEF OfOneBuild
    <3> QED BY <3>1, <3>2
  <2>6. Cleared' BY <1>7 DEF BuildWrites, Cleared
  <2> QED BY <2>3, <2>4, <2>5, <2>6
<1>8. CASE BuildDies
  <2>1. built' = "no" /\ next' = 0 /\ input' = input /\ builds' = builds
    BY <1>8 DEF BuildDies
  <2>2. Written' BY <2>1 DEF Written
  <2>3. CASE files' = files /\ verdict' = verdict
    <3>1. SuiteTypes' BY <2>1, <2>3
    <3> QED BY <1>3, <1>5, <2>2, <2>3, <3>1
  <2>4. CASE /\ next \in DOMAIN Writes /\ verdict' = "none"
             /\ \E part \in Partial(Contents(Writes[next])) :
                  files' = [files EXCEPT ![Writes[next]] = part]
    <3> DEFINE w == Writes[next]
    <3>1. PICK part \in Partial(Contents(w)) : files' = [files EXCEPT ![w] = part] BY <2>4
    <3>2. w \in DOMAIN files BY <2>4, WritesFacts
    <3>3. /\ DOMAIN files' = DOMAIN files /\ files'[w] = part
          /\ \A f \in DOMAIN files : f # w => files'[f] = files[f]
      BY <3>1, <3>2
    <3>4. SuiteTypes' BY <2>1, <2>4, <3>3
    <3>5. OfOneBuild'
      <4> SUFFICES ASSUME NEW f \in {"mbpp", "hex", "train", "heldout"}
                   PROVE  files'[f] = Missing
                            \/ \E r \in Releases : BeginningOf(files'[f], ContentsOf(r, f))
        BY <1>12 DEF OfOneBuild, BeginningOf
      <4>1. CASE f = w
        <5>1. part \in Partial(ContentsOf(input, f)) BY <3>1, <4>1 DEF Contents, ContentsOf
        <5>2. BeginningOf(part, ContentsOf(input, f)) BY <5>1, ContentsFacts, PartialBeginning
        <5> QED BY <3>3, <4>1, <5>2
      <4>2. CASE f # w BY <3>3, <4>2 DEF OfOneBuild
      <4> QED BY <4>1, <4>2
    <3>6. Cleared' BY <2>4 DEF Cleared
    <3> QED BY <2>2, <3>4, <3>5, <3>6
  <2> QED BY <1>8, <2>3, <2>4 DEF BuildDies
<1>9. CASE BuildEnds
  <2>1. next = 5 BY <1>9, WritesFacts DEF BuildEnds
  <2>2. SuiteTypes' BY <1>9 DEF BuildEnds
  <2>3. Written'
    <3> SUFFICES ASSUME NEW i \in 1..4 PROVE files'[Writes[i]] = Contents(Writes[i])'
      BY DEF Written
    <3>1. i < next BY <2>1
    <3> QED BY <1>4, <1>9, <3>1 DEF BuildEnds, Written
  <2> QED BY <1>3, <1>5, <1>9, <2>2, <2>3 DEF BuildEnds
<1>10. CASE Verify
  <2>1. SuiteTypes' BY <1>10 DEF Verify
  <2>2. Written' BY <1>4, <1>10 DEF Verify, Written
  <2>3. Cleared'
    <3> SUFFICES ASSUME verdict' = "pass"
                 PROVE  ~Problem' /\ \A f \in DOMAIN files' : files'[f] # Missing
      BY DEF Cleared
    <3>1. ~Problem /\ \A f \in ToSet(Writes) : files[f] # Missing BY <1>10 DEF Verify
    <3>2. files' = files BY <1>10 DEF Verify
    <3> QED BY <3>1, <3>2, WritesFacts
        DEF Problem, NewCollision, GroupHeldOut, NewGroup, BuggyLeaked, HexCopy, HeldHex, Suspects
  <2> QED BY <1>3, <1>10, <2>1, <2>2, <2>3 DEF Verify
<1>11. CASE UNCHANGED suiteVars
  <2>1. SuiteTypes' BY <1>11 DEF suiteVars
  <2>2. Written' BY <1>4, <1>11 DEF suiteVars, Written
  <2> QED BY <1>3, <1>5, <1>11, <2>1, <2>2 DEF suiteVars
<1> QED BY <1>6, <1>7, <1>8, <1>9, <1>10, <1>11 DEF SuiteNext

\* What conversion and bench do leaves the suite alone.
LEMMA SuiteInvariant == Spec => []SuiteInv
<1>1. Init => SuiteInv BY SuiteInvInit DEF Init
<1>2. SuiteInv /\ [Next]_vars => SuiteInv'
  <2>1. [Next]_vars => [SuiteNext]_suiteVars BY DEF Next, Suite, GenBench, BenchReads, vars
  <2> QED BY <2>1, SuiteInvStep
<1> QED BY <1>1, <1>2, PTL DEF Spec

-----------------------------------------------------------------------------
(* The split.                                                              *)

\* A build that ended has left what it made of the sources it read.
LEMMA FilesOfBuild ==
  ASSUME SuiteInv, built # "no"
  PROVE  /\ input \in Releases
         /\ files["mbpp"] = input.mbpp /\ files["hex"] = input.hex
         /\ files["train"] = Side(input, "train") /\ files["heldout"] = Side(input, "heldout")
<1>1. \A i \in 1..4 : files[Writes[i]] = Contents(Writes[i]) BY DEF SuiteInv, Written
<1>2. \A f \in {"mbpp", "hex", "train", "heldout"} : files[f] = Contents(f)
  BY <1>1, WritesFacts
<1>3. Contents("mbpp") = input["mbpp"] /\ Contents("hex") = input["hex"] BY DEF Contents
<1>4. /\ Contents("train") = Side(input, "train")
      /\ Contents("heldout") = Side(input, "heldout")
  BY DEF Contents
<1> QED BY <1>2, <1>3, <1>4 DEF SuiteInv, SuiteTypes

\* The two sides of one build: nothing is on both, and together they are all of it.
LEMMA BothSides ==
  ASSUME NEW r \in Releases
  PROVE  /\ Side(r, "train") \o Side(r, "heldout") \in Seq(Made(r))
         /\ IsInjective(Side(r, "train") \o Side(r, "heldout"))
         /\ ToSet(Side(r, "train") \o Side(r, "heldout")) = Made(r)
         /\ ~Leaks(Side(r, "train"), Side(r, "heldout"))
<1> DEFINE a == Side(r, "train")
           b == Side(r, "heldout")
<1>1. /\ a \in Seq(Made(r)) /\ IsInjective(a) /\ ToSet(a) = {x \in Made(r) : x.split = "train"}
      /\ b \in Seq(Made(r)) /\ IsInjective(b) /\ ToSet(b) = {x \in Made(r) : x.split = "heldout"}
  BY SideFacts
<1> HIDE DEF a, b
<1>2. ToSet(a) \cap ToSet(b) = {} BY <1>1
<1>3. ToSet(a) \cup ToSet(b) = Made(r) BY <1>1, MadeFacts
<1>4. a \o b \in Seq(Made(r)) /\ IsInjective(a \o b) /\ ToSet(a \o b) = Made(r)
  <2> DEFINE M == Made(r)
  <2>1. a \in Seq(M) /\ b \in Seq(M) /\ IsInjective(a) /\ IsInjective(b) BY <1>1
  <2>2. ToSet(a) \cap ToSet(b) = {} /\ ToSet(a) \cup ToSet(b) = M BY <1>2, <1>3
  <2> HIDE DEF M
  <2>3. /\ a \o b \in Seq(M) /\ ToSet(a \o b) = ToSet(a) \cup ToSet(b)
        /\ IsInjective(a \o b)
    BY <2>1, <2>2, ConcatFacts
  <2> QED BY <2>2, <2>3 DEF M
<1>5. ~Leaks(a, b)
  <2> SUFFICES ASSUME NEW x \in ToSet(a), NEW y \in ToSet(b),
                      x.family = y.family, x.problem.uid = y.problem.uid
               PROVE  FALSE
    BY DEF Leaks, UnderlyingIds
  <2>1. x \in Made(r) /\ y \in Made(r) /\ x.split = "train" /\ y.split = "heldout" BY <1>1
  <2> QED BY <2>1, MadeFacts
<1> QED BY <1>4, <1>5 DEF a, b

\* A list of records has each problem of a source once.
EachProblem(k, r, src) ==
  /\ IsInjective([i \in DOMAIN k |-> k[i].problem])
  /\ ToSet([i \in DOMAIN k |-> k[i].problem]) =
       {x.problem : x \in {z \in Made(r) : z.source = src}}

\* It is so for the records of that source, in any list of all records.
LEMMA ProblemsOfSource ==
  ASSUME NEW r \in Releases, NEW src,
         NEW all \in Seq(Made(r)), IsInjective(all), ToSet(all) = Made(r),
         NEW k, k = Picked(all, {i \in DOMAIN all : all[i].source = src})
  PROVE  EachProblem(k, r, src)
<1> DEFINE I == {i \in DOMAIN all : all[i].source = src}
<1>1. k = Picked(all, I) OBVIOUS
<1>2. I \in SUBSET DOMAIN all OBVIOUS
<1>3. {all[i] : i \in I} = {z \in Made(r) : z.source = src} BY DEF ToSet
<1> HIDE DEF I
<1>4. IsInjective(k) /\ ToSet(k) = {z \in Made(r) : z.source = src}
  <2>1. IsInjective(Picked(all, I)) /\ ToSet(Picked(all, I)) = {all[i] : i \in I}
    BY <1>2, PickedFacts DEF Selection
  <2> QED BY <1>1, <1>3, <2>1
<1>5. \A i, j \in DOMAIN k : k[i].problem = k[j].problem => i = j
  <2> SUFFICES ASSUME NEW i \in DOMAIN k, NEW j \in DOMAIN k, k[i].problem = k[j].problem
               PROVE  i = j
    OBVIOUS
  <2>1. /\ k[i] \in Made(r) /\ k[j] \in Made(r) /\ k[i].source = src /\ k[j].source = src
    BY <1>4 DEF ToSet
  <2>2. k[i] = k[j] BY <2>1, MadeFacts
  <2> QED BY <1>4, <2>2 DEF IsInjective
<1>6. IsInjective([i \in DOMAIN k |-> k[i].problem]) BY <1>5 DEF IsInjective
<1>7. ToSet([i \in DOMAIN k |-> k[i].problem]) = {x.problem : x \in ToSet(k)}
  <2>1. ToSet([i \in DOMAIN k |-> k[i].problem]) = {k[i].problem : i \in DOMAIN k} BY DEF ToSet
  <2>2. ASSUME NEW x \in ToSet(k) PROVE x.problem \in {k[i].problem : i \in DOMAIN k}
    <3>1. PICK i \in DOMAIN k : k[i] = x BY DEF ToSet
    <3> QED BY <3>1
  <2>3. ASSUME NEW i \in DOMAIN k PROVE k[i] \in ToSet(k) BY DEF ToSet
  <2> QED BY <2>1, <2>2, <2>3
<1> QED BY <1>4, <1>6, <1>7 DEF EachProblem

\* For any sources and any seeded draw the assertions that end a build hold, and
\* of its files: no problem is trained on and held out, none is lost or twice there.
THEOREM CleanSplit == Spec => []SplitIsClean
<1>1. SuiteInv => SplitIsClean
  <2> SUFFICES ASSUME SuiteInv, built # "no" PROVE SplitIsClean BY DEF SplitIsClean
  <2> DEFINE all == files["train"] \o files["heldout"]
             Of(src) == Kept(all, LAMBDA rec : rec.source = src)
             Problems(src) == [i \in DOMAIN Of(src) |-> Of(src)[i].problem]
  <2>1. /\ input \in Releases /\ files["mbpp"] = input.mbpp /\ files["hex"] = input.hex
        /\ files["train"] = Side(input, "train") /\ files["heldout"] = Side(input, "heldout")
    BY FilesOfBuild
  <2>2. /\ all \in Seq(Made(input)) /\ IsInjective(all) /\ ToSet(all) = Made(input)
        /\ ~Leaks(files["train"], files["heldout"])
    BY <2>1, BothSides
  <2> HIDE DEF all
  <2>3. \A src : /\ IsInjective(Problems(src))
                 /\ ToSet(Problems(src)) = {x.problem : x \in {z \in Made(input) : z.source = src}}
    <3> TAKE src
    <3> DEFINE k == Picked(all, {i \in DOMAIN all : all[i].source = src})
    <3>1. Of(src) = k BY DEF Kept
    <3>2. k = Picked(all, {i \in DOMAIN all : all[i].source = src}) OBVIOUS
    <3> HIDE DEF Of, k
    <3>3. EachProblem(k, input, src) BY <2>1, <2>2, <3>2, ProblemsOfSource
    <3> QED BY <3>1, <3>3 DEF EachProblem
  <2> HIDE DEF Problems
  <2>4. /\ ToSet(Problems("multipl-e-mbpp")) = ToSet(input["mbpp"])
        /\ ToSet(Problems("humaneval-x")) = ToSet(input["hex"])
    BY <2>1, <2>3, MadeFacts
  <2>5. \A f \in {"mbpp", "hex"} :
          /\ ToSet(Problems(IF f = "hex" THEN "humaneval-x" ELSE "multipl-e-mbpp")) = ToSet(input[f])
          /\ IsInjective(Problems(IF f = "hex" THEN "humaneval-x" ELSE "multipl-e-mbpp"))
    BY <2>3, <2>4
  <2>6. \A i \in DOMAIN files["heldout"] : files["heldout"][i].source # "multipl-e-humaneval"
    <3> SUFFICES ASSUME NEW x \in ToSet(files["heldout"]) PROVE x.source # "multipl-e-humaneval"
      BY DEF ToSet
    <3>1. x \in Made(input) /\ x.split = "heldout" BY <2>1, SideFacts
    <3> QED BY <2>1, <3>1, MadeFacts
  <2> QED BY <2>2, <2>5, <2>6 DEF SplitIsClean, Problems, all
<1> QED BY SuiteInvariant, <1>1, PTL

\* A build from the same problems in any order writes the same two files.
THEOREM LineOrder == Spec => []SplitIgnoresLineOrder
<1>1. SuiteInv => SplitIgnoresLineOrder
  <2> SUFFICES ASSUME SuiteInv, built = "ok", NEW r \in Releases,
                      \A src \in {"mbpp", "he", "hex"} : ToSet(r[src]) = ToSet(input[src])
               PROVE  Side(r, "train") = files["train"] /\ Side(r, "heldout") = files["heldout"]
    BY DEF SplitIgnoresLineOrder
  <2>1. /\ input \in Releases
        /\ files["train"] = Side(input, "train") /\ files["heldout"] = Side(input, "heldout")
    BY FilesOfBuild
  <2> QED BY <2>1, SideIgnoresOrder
<1> QED BY SuiteInvariant, <1>1, PTL

-----------------------------------------------------------------------------
(* Types and the verification.                                             *)

\* The beginning of a list has nothing that is not in the list but a torn line,
\* and nothing twice when the list has not.
LEMMA BeginningFacts ==
  ASSUME NEW S, NEW s \in Seq(S), NEW lines, BeginningOf(lines, s)
  PROVE  /\ lines \in Seq(S \cup {Torn})
         /\ \A l \in ToSet(lines) : l = Torn \/ l \in ToSet(s)
         /\ IsInjective(s) /\ Torn \notin ToSet(lines) => IsInjective(lines)
<1>1. PICK k \in 0..Len(s) : lines \in {SubSeq(s, 1, k), Append(SubSeq(s, 1, k), Torn)}
  BY DEF BeginningOf
<1> DEFINE b == SubSeq(s, 1, k)
<1>2. k \in Nat /\ Len(s) \in Nat /\ k <= Len(s) OBVIOUS
<1>3. b \in Seq(S) /\ DOMAIN b = 1..k /\ Len(b) = k /\ \A i \in 1..k : b[i] = s[i] /\ i \in DOMAIN s
  BY <1>2
<1> HIDE DEF b
<1>4. CASE lines = b
  <2>1. lines \in Seq(S \cup {Torn}) BY <1>3, <1>4
  <2>2. \A l \in ToSet(lines) : l \in ToSet(s) BY <1>3, <1>4 DEF ToSet
  <2>3. IsInjective(s) => IsInjective(lines) BY <1>3, <1>4 DEF IsInjective
  <2> QED BY <2>1, <2>2, <2>3
<1>5. CASE lines = Append(b, Torn)
  <2>1. /\ lines \in Seq(S \cup {Torn}) /\ DOMAIN lines = 1..(k + 1)
        /\ lines[k + 1] = Torn /\ \A i \in 1..k : lines[i] = b[i]
    BY <1>2, <1>3, <1>5
  <2>2. \A i \in 1..(k + 1) : i = k + 1 \/ i \in 1..k BY <1>2
  <2>3. k + 1 \in DOMAIN lines BY <1>2, <2>1
  <2>4. \A i \in DOMAIN lines : lines[i] = Torn \/ lines[i] \in ToSet(s)
    BY <1>3, <2>1, <2>2 DEF ToSet
  <2>5. Torn \in ToSet(lines) BY <2>1, <2>3 DEF ToSet
  <2> QED BY <2>1, <2>4, <2>5 DEF ToSet
<1> QED BY <1>1, <1>4, <1>5 DEF b

\* What is in a split file.
LEMMA SplitFileFacts ==
  ASSUME SuiteInv, NEW f \in {"train", "heldout"}, files[f] # Missing
  PROVE  \E r \in Releases :
           /\ files[f] \in Seq(Made(r) \cup {Torn})
           /\ \A l \in ToSet(files[f]) : l = Torn \/ (l \in Made(r) /\ l.split = f)
           /\ Torn \notin ToSet(files[f]) => IsInjective(files[f])
<1>1. PICK r \in Releases : BeginningOf(files[f], Side(r, f))
  BY DEF SuiteInv, OfOneBuild, ContentsOf
<1>2. /\ Side(r, f) \in Seq(Made(r)) /\ IsInjective(Side(r, f))
      /\ ToSet(Side(r, f)) = {x \in Made(r) : x.split = f}
  BY SideFacts
<1>3. /\ files[f] \in Seq(Made(r) \cup {Torn})
      /\ \A l \in ToSet(files[f]) : l = Torn \/ l \in ToSet(Side(r, f))
      /\ Torn \notin ToSet(files[f]) => IsInjective(files[f])
  BY <1>1, <1>2, BeginningFacts
<1> QED BY <1>2, <1>3

\* The types of gen-bench's and bench's variables.
ToolTypes == origin \in {"none", "train", "heldout"} /\ refused \in BOOLEAN

\* A complete build leaves split files made of the copies beside them.
LEMMA CompleteBuild ==
  ASSUME SuiteInv, built = "ok"
  PROVE  MadeOfCopies
<1>1. /\ input \in Releases /\ files["mbpp"] = input.mbpp /\ files["hex"] = input.hex
      /\ files["train"] = Side(input, "train") /\ files["heldout"] = Side(input, "heldout")
  BY FilesOfBuild
<1>2. ToSet(files["train"] \o files["heldout"]) = Made(input) BY <1>1, BothSides
<1> SUFFICES ASSUME NEW rec \in Made(input)
             PROVE  /\ rec.source = "humaneval-x" => rec.problem \in ToSet(input.hex)
                    /\ rec.family = "mbpp" => rec.problem \in ToSet(input.mbpp)
  BY <1>1, <1>2 DEF MadeOfCopies, HexCopy
<1>3. rec.family = "mbpp" => rec.source = "multipl-e-mbpp" BY <1>1, MadeFacts
<1>4. ASSUME rec.source = "multipl-e-mbpp" PROVE rec.problem \in ToSet(input.mbpp)
  <2>1. rec \in {z \in Made(input) : z.source = "multipl-e-mbpp"} BY <1>4
  <2>2. rec.problem \in {x.problem : x \in {z \in Made(input) : z.source = "multipl-e-mbpp"}}
    BY <2>1
  <2> QED BY <1>1, <2>2, MadeFacts
<1>5. ASSUME rec.source = "humaneval-x" PROVE rec.problem \in ToSet(input.hex)
  <2>1. rec \in {z \in Made(input) : z.source = "humaneval-x"} BY <1>5
  <2>2. rec.problem \in {x.problem : x \in {z \in Made(input) : z.source = "humaneval-x"}}
    BY <2>1
  <2> QED BY <1>1, <2>2, MadeFacts
<1> QED BY <1>3, <1>4, <1>5

\* A held-out file that passed 03_verify.py is sound, whatever builds have left the
\* files it read, for any sources and any lists of cleared names and pairs.
THEOREM HeldoutSound == Spec => []VerifiedHeldoutIsSound
<1>1. SuiteInv => VerifiedHeldoutIsSound
  <2> DEFINE hex == {x \in ToSet(files["heldout"]) : x.source = "humaneval-x"}
             held == {rec.problem : rec \in hex}
  <2> SUFFICES ASSUME SuiteInv, verdict = "pass"
               PROVE  /\ built = "ok" => MadeOfCopies
                      /\ \A p \in held : p.uid \notin KnownBuggy
                      /\ MadeOfCopies =>
                           /\ \A p, q \in held : p.doc = q.doc => p.uid = q.uid
                           /\ \A p \in held :
                                \A rec \in ToSet(files["train"] \o files["heldout"]) :
                                  rec.family = "mbpp" /\ rec.problem.fn = p.fn
                                    => p.fn \in KnownCollisions
    BY DEF VerifiedHeldoutIsSound
  <2>1. ~Problem /\ files["train"] # Missing /\ files["heldout"] # Missing
    BY DEF SuiteInv, SuiteTypes, Cleared
  <2>2. HeldHex = {p.uid : p \in held}
    <3>1. HeldHex = {rec.problem.uid : rec \in hex} BY DEF HeldHex
    <3> HIDE DEF hex
    <3> QED BY <3>1
  <2>3. \A p \in held : p.uid \notin KnownBuggy
    BY <2>1, <2>2 DEF Problem, BuggyLeaked
  <2>4. PICK r1 \in Releases : files["train"] \in Seq(Made(r1) \cup {Torn}) BY <2>1, SplitFileFacts
  <2>5. PICK r2 \in Releases : files["heldout"] \in Seq(Made(r2) \cup {Torn})
    BY <2>1, SplitFileFacts
  <2>6. ToSet(files["train"] \o files["heldout"]) = ToSet(files["train"]) \cup ToSet(files["heldout"])
    <3> DEFINE S == Made(r1) \cup Made(r2) \cup {Torn}
               a == files["train"]
               b == files["heldout"]
    <3>1. a \in Seq(S) /\ b \in Seq(S) BY <2>4, <2>5
    <3> HIDE DEF S, a, b
    <3>2. ToSet(a \o b) = ToSet(a) \cup ToSet(b) BY <3>1, ConcatFacts
    <3> QED BY <3>2 DEF a, b
  <2>7. ASSUME MadeOfCopies PROVE held \subseteq HexCopy
    BY <2>6, <2>7 DEF MadeOfCopies
  <2>8. ASSUME MadeOfCopies, NEW p \in held, NEW q \in held, p.doc = q.doc, p.uid # q.uid
        PROVE  FALSE
    <3> DEFINE ids == {x.uid : x \in {y \in HexCopy : y.doc = p.doc}}
    <3>1. p \in HexCopy /\ q \in HexCopy BY <2>7, <2>8
    <3>2. p.uid \in ids /\ q.uid \in ids BY <2>8, <3>1
    <3>3. IsFiniteSet(ids)
      <4>1. files["hex"] # Missing BY DEF SuiteInv, SuiteTypes, Cleared
      <4>2. PICK r \in Releases : BeginningOf(files["hex"], ContentsOf(r, "hex"))
        BY <4>1 DEF SuiteInv, OfOneBuild
      <4>3. files["hex"] \in Seq(ToSet(ContentsOf(r, "hex")) \cup {Torn})
        BY <4>2, ContentsFacts, BeginningFacts
      <4>4. IsFiniteSet(HexCopy) BY <4>3, ToSetFinite DEF HexCopy
      <4>5. IsFiniteSet({y \in HexCopy : y.doc = p.doc}) BY <4>4, FS_Subset
      <4> DEFINE same == {y \in HexCopy : y.doc = p.doc}
                 uids == [x \in same |-> x.uid]
      <4>6. ids = {uids[x] : x \in same} OBVIOUS
      <4>7. uids \in Surjection(same, {uids[x] : x \in same}) BY DEF Surjection
      <4> HIDE DEF same
      <4>8. IsFiniteSet({uids[x] : x \in same}) BY <4>5, <4>7, FS_Surjection DEF same
      <4> HIDE DEF ids
      <4> QED BY <4>6, <4>8
    <3>4. Cardinality(ids) > 1
      <4>1. {p.uid, q.uid} \in SUBSET ids BY <3>2
      <4> HIDE DEF ids
      <4>2. Cardinality({p.uid, q.uid}) = 2
        <5>1. Cardinality({p.uid}) = 1 /\ IsFiniteSet({p.uid}) BY FS_Singleton
        <5>2. Cardinality({p.uid} \cup {q.uid}) = Cardinality({p.uid}) + 1
          BY <2>8, <5>1, FS_AddElement
        <5>3. {p.uid} \cup {q.uid} = {p.uid, q.uid} OBVIOUS
        <5> QED BY <5>1, <5>2, <5>3
      <4>3. Cardinality({p.uid, q.uid}) <= Cardinality(ids) BY <3>3, <4>1, FS_Subset
      <4>4. Cardinality(ids) \in Nat BY <3>3, FS_CardinalityType
      <4> QED BY <4>2, <4>3, <4>4
    <3>5. ids \in Suspects BY <3>1, <3>4 DEF Suspects
    <3> HIDE DEF ids
    <3>6. ids \in KnownPairs BY <2>1, <3>5 DEF Problem, NewGroup
    <3>7. ids = {p.uid, q.uid}
      <4>1. PICK a \in ids, b \in ids : ids = {a, b} BY <3>6, SuiteAssumption
      <4> QED BY <2>8, <3>2, <4>1
    <3>8. ids \subseteq HeldHex
      <4> HIDE DEF held
      <4> QED BY <2>2, <2>8, <3>7
    <3> QED BY <2>1, <3>5, <3>8 DEF Problem, GroupHeldOut
  <2>9. ASSUME MadeOfCopies, NEW p \in held,
               NEW rec \in ToSet(files["train"] \o files["heldout"]),
               rec.family = "mbpp", rec.problem.fn = p.fn
        PROVE  p.fn \in KnownCollisions
    <3>1. p \in HexCopy /\ rec.problem \in ToSet(files["mbpp"]) BY <2>7, <2>9 DEF MadeOfCopies
    <3> HIDE DEF held
    <3>2. p.fn \in {x.fn : x \in HexCopy} /\ p.fn \in {x.fn : x \in ToSet(files["mbpp"])}
      BY <2>9, <3>1
    <3> QED BY <2>1, <3>2 DEF Problem, NewCollision
  <2> QED BY <2>3, <2>8, <2>9, CompleteBuild
<1> QED BY SuiteInvariant, <1>1, PTL

-----------------------------------------------------------------------------
(* From a split file to the jobs of a bench.                               *)

\* The expected verdict of a case, by the solution it is made of.
Answer(s) == IF s = "canonical" THEN "pass" ELSE "fail"

Kinds == {"canonical", "buggy"}

\* The cases there can be of a release.
CasesOf(r) == {Case(x.problem, s, Answer(s)) : x \in Made(r), s \in Kinds}

\* The cases of one record: one for each of its solutions.
RecordCases(x) ==
  IF x.source = "humaneval-x" THEN {Case(x.problem, s, Answer(s)) : s \in x.problem.solutions}
                              ELSE {}

\* What a case tells.
LEMMA CaseFacts ==
  ASSUME NEW p, NEW s, NEW e
  PROVE  /\ Case(p, s, e).id = <<p.uid, s>> /\ Case(p, s, e).expected = e
         /\ Case(p, s, e).lang = "rust" /\ Case(p, s, e).files = {s}
BY DEF Case

\* The conversion of a record gives each of its cases once.
LEMMA ConvertFacts ==
  ASSUME NEW r \in Releases, NEW x \in Made(r)
  PROVE  /\ Convert(x) \in Seq(CasesOf(r)) /\ IsInjective(Convert(x))
         /\ ToSet(Convert(x)) = RecordCases(x)
<1>1. CASE x.source # "humaneval-x"
  <2>1. Convert(x) = <<>> BY <1>1 DEF Convert
  <2>2. RecordCases(x) = {} BY <1>1 DEF RecordCases
  <2> QED BY <2>1, <2>2 DEF ToSet, IsInjective
<1>2. CASE x.source = "humaneval-x"
  <2> DEFINE p == x.problem
             c == Case(p, "canonical", "pass")
             b == Case(p, "buggy", "fail")
             both == Both(p)
             I == {i \in DOMAIN both : both[i].files \subseteq p.solutions}
  <2>1. p.solutions \subseteq Kinds
    <3>1. p \in {z.problem : z \in {y \in Made(r) : y.source = "humaneval-x"}} BY <1>2
    <3>2. p \in ToSet(r.hex) BY <3>1, MadeFacts
    <3> QED BY <3>2, SuiteAssumption DEF Kinds
  <2>2. c.files = {"canonical"} /\ b.files = {"buggy"} /\ c # b
    <3>1. c.files = {"canonical"} /\ b.files = {"buggy"} BY CaseFacts
    <3>2. {"canonical"} # {"buggy"} OBVIOUS
    <3> HIDE DEF c, b
    <3> QED BY <3>1, <3>2
  <2>3. c = Case(p, "canonical", Answer("canonical")) /\ b = Case(p, "buggy", Answer("buggy"))
    BY DEF Answer
  <2>4. c \in CasesOf(r) /\ b \in CasesOf(r) BY <2>3 DEF CasesOf, Kinds
  <2>5. Convert(x) = Picked(both, I) BY <1>2 DEF Convert, Kept
  <2>6. both = <<c, b>> BY DEF Both
  <2>7. RecordCases(x) = {Case(p, s, Answer(s)) : s \in p.solutions} BY <1>2 DEF RecordCases
  <2> HIDE DEF p, c, b, both
  <2>8. both \in Seq(CasesOf(r)) /\ DOMAIN both = {1, 2} /\ both[1] = c /\ both[2] = b
    BY <2>4, <2>6
  <2>9. IsInjective(both) BY <2>2, <2>8 DEF IsInjective
  <2>10. I \in SUBSET DOMAIN both OBVIOUS
  <2>11. {both[i] : i \in I} = {Case(p, s, Answer(s)) : s \in p.solutions}
    <3>1. 1 \in I <=> "canonical" \in p.solutions BY <2>2, <2>8
    <3>2. 2 \in I <=> "buggy" \in p.solutions BY <2>2, <2>8
    <3>3. I \subseteq {1, 2} BY <2>8
    <3>4. \A s \in p.solutions : s = "canonical" \/ s = "buggy" BY <2>1 DEF Kinds
    <3> HIDE DEF I
    <3>5. ASSUME NEW i \in I PROVE \E s \in p.solutions : both[i] = Case(p, s, Answer(s))
      BY <2>3, <2>8, <3>1, <3>2, <3>3
    <3>6. ASSUME NEW s \in p.solutions PROVE \E i \in I : both[i] = Case(p, s, Answer(s))
      BY <2>3, <2>8, <3>1, <3>2, <3>4
    <3> QED BY <3>5, <3>6
  <2> HIDE DEF I
  <2>12. /\ Picked(both, I) \in Seq(CasesOf(r)) /\ IsInjective(Picked(both, I))
         /\ ToSet(Picked(both, I)) = {both[i] : i \in I}
    BY <2>8, <2>9, <2>10, PickedFacts DEF Selection
  <2> QED BY <2>5, <2>7, <2>11, <2>12
<1> QED BY <1>1, <1>2

\* The cases of two records of a release are different, and so are their ids.
LEMMA CasesApart ==
  ASSUME NEW r \in Releases, NEW x \in Made(r), NEW y \in Made(r),
         NEW c \in RecordCases(x), NEW d \in RecordCases(y), c.id = d.id
  PROVE  x = y /\ c = d
<1>1. /\ x.source = "humaneval-x" /\ y.source = "humaneval-x"
      /\ \E s \in x.problem.solutions : c = Case(x.problem, s, Answer(s))
      /\ \E s \in y.problem.solutions : d = Case(y.problem, s, Answer(s))
  BY DEF RecordCases
<1>2. PICK s : c = Case(x.problem, s, Answer(s)) BY <1>1
<1>3. PICK u : d = Case(y.problem, u, Answer(u)) BY <1>1
<1>4. <<x.problem.uid, s>> = <<y.problem.uid, u>> BY <1>2, <1>3, CaseFacts
<1>5. x.problem.uid = y.problem.uid /\ s = u BY <1>4
<1>6. x = y BY <1>1, <1>5, MadeFacts
<1> QED BY <1>2, <1>3, <1>5, <1>6

\* Converting a list of records gives the cases of all of them, none twice.
LEMMA ConvertAll ==
  ASSUME NEW r \in Releases, NEW lines \in Seq(Made(r)), IsInjective(lines),
         NEW specsOf, specsOf = FlattenSeq([i \in DOMAIN lines |-> Convert(lines[i])])
  PROVE  /\ specsOf \in Seq(CasesOf(r)) /\ IsInjective(specsOf)
         /\ ToSet(specsOf) = UNION {RecordCases(x) : x \in ToSet(lines)}
<1> DEFINE parts == [i \in DOMAIN lines |-> Convert(lines[i])]
           S == CasesOf(r)
<1>1. DOMAIN lines = 1..Len(lines) /\ Len(lines) \in Nat /\ \A i \in DOMAIN lines : lines[i] \in Made(r)
  OBVIOUS
<1>2. /\ DOMAIN parts = DOMAIN lines
      /\ \A i \in DOMAIN lines : /\ parts[i] \in Seq(S) /\ IsInjective(parts[i])
                                 /\ ToSet(parts[i]) = RecordCases(lines[i])
  BY <1>1, ConvertFacts
<1>3. parts \in Seq(Seq(S))
  <2>1. parts = [i \in 1..Len(lines) |-> parts[i]] BY <1>1
  <2> HIDE DEF parts
  <2> QED BY <1>1, <1>2, <2>1
<1>4. \A i, j \in DOMAIN lines : i # j => ToSet(parts[i]) \cap ToSet(parts[j]) = {}
  <2> SUFFICES ASSUME NEW i \in DOMAIN lines, NEW j \in DOMAIN lines,
                      NEW c \in ToSet(parts[i]), c \in ToSet(parts[j])
               PROVE  i = j
    OBVIOUS
  <2>1. c \in RecordCases(lines[i]) /\ c \in RecordCases(lines[j]) BY <1>2
  <2>2. lines[i] = lines[j] BY <1>1, <2>1, CasesApart
  <2> QED BY <2>2 DEF IsInjective
<1>5. specsOf = FlattenSeq(parts) OBVIOUS
<1> HIDE DEF parts, S
<1>6. /\ FlattenSeq(parts) \in Seq(S) /\ IsInjective(FlattenSeq(parts))
      /\ ToSet(FlattenSeq(parts)) = UNION {ToSet(parts[i]) : i \in DOMAIN parts}
  BY <1>2, <1>3, <1>4, FlattenFacts
<1>7. UNION {ToSet(parts[i]) : i \in DOMAIN parts} = UNION {RecordCases(x) : x \in ToSet(lines)}
  <2>1. {ToSet(parts[i]) : i \in DOMAIN parts} = {RecordCases(lines[i]) : i \in DOMAIN lines}
    BY <1>2
  <2>2. {RecordCases(lines[i]) : i \in DOMAIN lines} = {RecordCases(x) : x \in ToSet(lines)}
    BY DEF ToSet
  <2> QED BY <2>1, <2>2
<1> QED BY <1>5, <1>6, <1>7 DEF S

\* The jobs of a bench are those of the specs it has read, one for each or none.
JobsOfSpecs == jobs = <<>> \/ jobs = [i \in DOMAIN specs |-> Job(specs[i])]

\* As long as a converted file is there, the specs are those of its records.
SpecsOfFile ==
  origin # "none" =>
    /\ files[origin] # Missing /\ Torn \notin ToSet(files[origin])
    /\ specs = FlattenSeq([i \in DOMAIN files[origin] |-> Convert(files[origin][i])])

\* The steps of gen-bench, bench and the suite keep both.
LEMMA ToolsInvariant == Spec => [](ToolTypes /\ JobsOfSpecs /\ SpecsOfFile)
<1>1. Init => ToolTypes /\ JobsOfSpecs /\ SpecsOfFile
  BY DEF Init, ToolTypes, JobsOfSpecs, SpecsOfFile
<1>2. ToolTypes /\ JobsOfSpecs /\ SpecsOfFile /\ [Next]_vars
        => (ToolTypes /\ JobsOfSpecs /\ SpecsOfFile)'
  <2> SUFFICES ASSUME ToolTypes, JobsOfSpecs, SpecsOfFile, [Next]_vars
               PROVE  (ToolTypes /\ JobsOfSpecs /\ SpecsOfFile)'
    OBVIOUS
  <2>1. ttlFlag' = ttlFlag BY DEF Next, Suite, GenBench, BenchReads, vars
  <2>2. \A x : Convert(x)' = Convert(x) BY <2>1 DEF Convert, Kept, Both, Case
  <2>3. ToolTypes' BY DEF ToolTypes, Next, Suite, GenBench, BenchReads, vars
  <2>4. CASE UNCHANGED vars
    <3>1. JobsOfSpecs' BY <2>4 DEF vars, JobsOfSpecs
    <3>2. SpecsOfFile' BY <2>2, <2>4 DEF vars, suiteVars, SpecsOfFile
    <3> QED BY <2>3, <3>1, <3>2
  <2>5. CASE Suite
    <3>1. JobsOfSpecs' BY <2>5 DEF Suite, JobsOfSpecs
    <3>2. SpecsOfFile'
      <4> SUFFICES ASSUME origin' # "none"
                   PROVE  /\ files[origin] # Missing /\ Torn \notin ToSet(files[origin])
                          /\ origin' = origin /\ files' = files
                          /\ specs = FlattenSeq([i \in DOMAIN files[origin] |-> Convert(files[origin][i])])
        BY <2>2, <2>5 DEF Suite, SpecsOfFile
      <4> QED BY <2>5 DEF Suite, SpecsOfFile
    <3> QED BY <2>3, <3>1, <3>2
  <2>6. CASE BenchReads
    <3>1. SpecsOfFile' BY <2>2, <2>6 DEF BenchReads, suiteVars, SpecsOfFile
    <3>2. specs' = specs /\ jobs' = [i \in DOMAIN ReadJobSpecs(specs) |-> Job(ReadJobSpecs(specs)[i])]
      BY <2>6 DEF BenchReads
    <3>3. ASSUME ReadJobSpecs(specs) = specs PROVE JobsOfSpecs'
      BY <3>2, <3>3 DEF JobsOfSpecs, Job, JobTTL
    <3>4. ASSUME ReadJobSpecs(specs) = <<>> PROVE JobsOfSpecs'
      <4>1. jobs' = <<>> BY <3>2, <3>4
      <4> QED BY <4>1 DEF JobsOfSpecs
    <3>5. JobsOfSpecs' BY <3>3, <3>4 DEF ReadJobSpecs
    <3> QED BY <2>3, <3>1, <3>5
  <2>7. CASE \E f \in {"train", "heldout"} : GenBench(f)
    <3>1. PICK f \in {"train", "heldout"} : GenBench(f) BY <2>7
    <3>2. JobsOfSpecs' BY <3>1 DEF GenBench, JobsOfSpecs
    <3>3. files' = files BY <3>1 DEF GenBench, suiteVars
    <3>4. ASSUME origin' # "none"
          PROVE  /\ origin' = f /\ files[f] # Missing /\ Torn \notin ToSet(files[f])
                 /\ specs' = FlattenSeq([i \in DOMAIN files[f] |-> Convert(files[f][i])])
      <4>1. Torn \notin ToSet(files[f]) /\ origin' = f BY <3>1, <3>4 DEF GenBench
      <4>2. Parsed(files[f]) = files[f] BY <4>1 DEF Parsed
      <4> QED BY <3>1, <4>1, <4>2 DEF GenBench
    <3>5. SpecsOfFile' BY <2>2, <3>3, <3>4 DEF SpecsOfFile
    <3> QED BY <2>3, <3>2, <3>5
  <2> QED BY <2>4, <2>5, <2>6, <2>7 DEF Next
<1> QED BY <1>1, <1>2, PTL DEF Spec

-----------------------------------------------------------------------------
(* Types.                                                                  *)

\* The jobs a bench makes of a spec.
JobType == [ok : BOOLEAN, lang : {"Rust", "Go", "unknown"}, ttl : Int]

\* The lines before the first torn one are records.
LEMMA ParsedFacts ==
  ASSUME NEW S, NEW lines \in Seq(S \cup {Torn})
  PROVE  /\ Parsed(lines) \in Seq(S)
         /\ \A i \in DOMAIN Parsed(lines) : Parsed(lines)[i] = lines[i]
<1>1. CASE Torn \notin ToSet(lines)
  <2>1. ToSet(lines) \subseteq S BY <1>1 DEF ToSet
  <2> QED BY <1>1, <2>1, OwnElements DEF Parsed
<1>2. CASE Torn \in ToSet(lines)
  <2> DEFINE I == {i \in 1..Len(lines) : lines[i] = Torn}
             m == Min(I)
             b == SubSeq(lines, 1, m - 1)
  <2>1. DOMAIN lines = 1..Len(lines) /\ Len(lines) \in Nat OBVIOUS
  <2>2. I # {} /\ I \in SUBSET Nat BY <1>2, <2>1 DEF ToSet
  <2>3. m \in I /\ \A i \in I : m <= i
    <3> HIDE DEF I
    <3>1. \E n \in I : \A i \in I : n <= i BY <2>2, NatMinimum
    <3> QED BY <3>1 DEF Min
  <2>4. Parsed(lines) = b BY <1>2, <2>2 DEF Parsed, SelectInSeq
  <2> HIDE DEF m
  <2>5. m \in 1..Len(lines) BY <2>3
  <2>6. b \in Seq(S \cup {Torn}) /\ DOMAIN b = 1..(m - 1) /\ \A i \in 1..(m - 1) : b[i] = lines[i]
    BY <2>1, <2>5
  <2>7. ASSUME NEW i \in 1..(m - 1) PROVE b[i] \in S
    <3>1. i \in 1..Len(lines) /\ ~(m <= i) BY <2>5
    <3>2. lines[i] # Torn BY <2>3, <3>1
    <3> QED BY <2>1, <2>6, <3>1, <3>2
  <2> HIDE DEF b
  <2>8. ToSet(b) \subseteq S BY <2>6, <2>7 DEF ToSet
  <2> QED BY <2>4, <2>6, <2>8, OwnElements
<1> QED BY <1>1, <1>2

\* The cases of a release are specs.
LEMMA CasesAreSpecs ==
  ASSUME NEW r \in Releases, ttlFlag \in GenTTLs, NEW x \in Made(r)
  PROVE  Convert(x) \in Seq(JobSpec)
<1>1. CASE x.source # "humaneval-x" BY <1>1 DEF Convert
<1>2. CASE x.source = "humaneval-x"
  <2> DEFINE p == x.problem
  <2>1. p.crates \subseteq Text /\ p.uid \in Int /\ ttlFlag \in Int
    <3>1. p \in {z.problem : z \in {y \in Made(r) : y.source = "humaneval-x"}} BY <1>2
    <3>2. p \in ToSet(r.hex) BY <3>1, MadeFacts
    <3> QED BY <3>2, MadeFacts, WorkloadAssumption
  <2>2. ASSUME NEW s \in Text, NEW e \in Text PROVE Case(p, s, e) \in JobSpec
    <3> DEFINE id == <<p.uid, s>>
               crates == DetectCrates(p.crates)
    <3>1. id \in Int \X Text /\ {s} \in SUBSET Text /\ "rust" \in Text
      BY <2>1, WorkloadAssumption
    <3>2. crates \in SUBSET Text BY <2>1 DEF DetectCrates
    <3>3. Case(p, s, e) = [id |-> id, lang |-> "rust", files |-> {s}, crates |-> crates,
                           ttl |-> ttlFlag, expected |-> e]
      BY DEF Case
    <3> HIDE DEF id, crates, p
    <3> QED BY <2>1, <3>1, <3>2, <3>3 DEF JobSpec
  <2>3. Convert(x) = Picked(Both(p), {i \in DOMAIN Both(p) : Both(p)[i].files \subseteq p.solutions})
    BY <1>2 DEF Convert, Kept
  <2> HIDE DEF p
  <2>4. Both(p) \in Seq(JobSpec)
    <3> DEFINE c == Case(p, "canonical", "pass")
               b == Case(p, "buggy", "fail")
    <3>1. c \in JobSpec /\ b \in JobSpec BY <2>2, WorkloadAssumption
    <3>2. Both(p) = <<c, b>> BY DEF Both
    <3> HIDE DEF c, b
    <3> QED BY <3>1, <3>2
  <2> DEFINE I == {i \in DOMAIN Both(p) : Both(p)[i].files \subseteq p.solutions}
  <2>5. I \in SUBSET DOMAIN Both(p) OBVIOUS
  <2> HIDE DEF I
  <2>6. Picked(Both(p), I) \in Seq(JobSpec) BY <2>4, <2>5, PickedFacts DEF Selection
  <2> QED BY <2>3, <2>6 DEF I
<1> QED BY <1>1, <1>2

\* What gen-bench writes, from any split file.
LEMMA GeneratedSpecs ==
  ASSUME SuiteInv, ttlFlag \in GenTTLs, NEW f \in {"train", "heldout"}, files[f] # Missing
  PROVE  FlattenSeq([i \in DOMAIN Parsed(files[f]) |-> Convert(files[f][i])]) \in Seq(JobSpec)
<1> DEFINE lines == files[f]
           parts == [i \in DOMAIN Parsed(lines) |-> Convert(lines[i])]
<1>1. PICK r \in Releases : lines \in Seq(Made(r) \cup {Torn}) BY SplitFileFacts
<1> HIDE DEF lines
<1>2. Parsed(lines) \in Seq(Made(r)) BY <1>1, ParsedFacts
<1>3. \A i \in DOMAIN Parsed(lines) : lines[i] = Parsed(lines)[i]
  BY <1>1, ParsedFacts
<1>4. \A i \in DOMAIN Parsed(lines) : Convert(lines[i]) \in Seq(JobSpec)
  BY <1>2, <1>3, CasesAreSpecs
<1>5. parts \in Seq(Seq(JobSpec))
  <2>1. DOMAIN Parsed(lines) = 1..Len(Parsed(lines)) /\ Len(Parsed(lines)) \in Nat BY <1>2
  <2> QED BY <1>4, <2>1
<1> HIDE DEF parts
<1>6. FlattenSeq(parts) \in Seq(JobSpec) BY <1>5, FlattenFacts
<1> QED BY <1>6 DEF parts, lines

\* The types of the flags, the seeded draws, the specs and the jobs.
BenchTypes ==
  /\ heTrain \subseteq 0..(HECount - 1) /\ \A n \in Lengths : drawn[n] \subseteq 1..n
  /\ ttlFlag \in GenTTLs
  /\ specs \in Seq(JobSpec \cup {Torn}) /\ jobs \in Seq(JobType)

\* Every variable keeps its type, for any sources, draws and hand-written specs: a
\* copied source is a part of a release, a split file holds records of its own side
\* only, and what gen-bench has written, were the split file torn, are job specs.
THEOREM WorkloadTypes == Spec => []TypeOK
<1>1. Init => BenchTypes
  BY WorkloadAssumption DEF Init, SuiteInit, BenchTypes, Lengths
<1>2. ASSUME SuiteInv, BenchTypes, [Next]_vars PROVE BenchTypes'
  <2>1. ttlFlag' = ttlFlag /\ heTrain' = heTrain /\ drawn' = drawn
    BY <1>2 DEF Next, Suite, SuiteNext, BuildReads, BuildWrites, BuildDies, BuildEnds, Verify,
                GenBench, BenchReads, vars, suiteVars
  <2>2. specs' \in Seq(JobSpec \cup {Torn})
    <3>1. CASE specs' = specs BY <1>2, <3>1 DEF BenchTypes
    <3>2. CASE \E f \in {"train", "heldout"} : GenBench(f)
      <4>1. PICK f \in {"train", "heldout"} : GenBench(f) BY <3>2
      <4>2. specs' \in Seq(JobSpec) BY <1>2, <4>1, GeneratedSpecs DEF GenBench, BenchTypes
      <4> QED BY <4>2
    <3> QED BY <1>2, <3>1, <3>2 DEF Next, Suite, BenchReads, vars
  <2>3. jobs' \in Seq(JobType)
    <3>1. CASE jobs' = jobs BY <1>2, <3>1 DEF BenchTypes
    <3>2. CASE jobs' = <<>> BY <3>2
    <3>3. CASE BenchReads
      <4> DEFINE read == ReadJobSpecs(specs)
      <4>1. read \in Seq(JobSpec)
        <5>1. CASE Torn \in ToSet(specs) BY <5>1 DEF ReadJobSpecs
        <5>2. CASE Torn \notin ToSet(specs)
          <6>1. ToSet(specs) \subseteq JobSpec BY <1>2, <5>2 DEF BenchTypes, ToSet
          <6> QED BY <1>2, <5>2, <6>1, OwnElements DEF BenchTypes, ReadJobSpecs
        <5> QED BY <5>1, <5>2
      <4>2. jobs' = [i \in DOMAIN read |-> Job(read[i])] BY <3>3 DEF BenchReads
      <4>3. \A s \in JobSpec : Job(s) \in JobType
        BY WorkloadAssumption DEF Job, JobTTL, JobSpec, JobType, ParseLang
      <4> HIDE DEF read
      <4>4. \A i \in DOMAIN read : read[i] \in JobSpec BY <4>1
      <4>5. DOMAIN read = 1..Len(read) /\ Len(read) \in Nat BY <4>1
      <4> QED BY <4>2, <4>3, <4>4, <4>5
    <3> QED BY <1>2, <3>1, <3>2, <3>3 DEF Next, Suite, GenBench, vars
  <2> QED BY <1>2, <2>1, <2>2, <2>3 DEF BenchTypes, Lengths
<1>3. ASSUME SuiteInv, ToolTypes, BenchTypes PROVE TypeOK
  <2>1. \A f \in {"train", "heldout"} :
          files[f] = Missing \/ \A l \in ToSet(files[f]) : l = Torn \/ l.split = f
    BY <1>3, SplitFileFacts
  <2>2. ASSUME NEW f \in {"mbpp", "hex"}, files[f] # Missing
        PROVE  \E r \in Releases : files[f] \in Seq(ToSet(r[f]) \cup {Torn})
    <3>1. PICK r \in Releases : BeginningOf(files[f], ContentsOf(r, f))
      BY <1>3, <2>2 DEF SuiteInv, OfOneBuild
    <3>2. files[f] \in Seq(ToSet(ContentsOf(r, f)) \cup {Torn})
      BY <3>1, ContentsFacts, BeginningFacts
    <3> QED BY <3>2 DEF ContentsOf
  <2>3. Len(Writes) + 1 = 5 BY WritesFacts
  <2> QED BY <1>3, <2>1, <2>2, <2>3 DEF TypeOK, ToolTypes, SuiteInv, SuiteTypes, BenchTypes, JobType
<1> QED BY SuiteInvariant, ToolsInvariant, <1>1, <1>2, <1>3, PTL DEF Spec

-----------------------------------------------------------------------------
(* From end to end.                                                        *)

\* From the suite to the bench no case is lost, invented or there twice, whatever
\* release, builds and interruptions the converted file comes from.
THEOREM EveryCase == Spec => []EveryCaseIsRun
<1>1. ASSUME SuiteInv, ToolTypes, JobsOfSpecs, SpecsOfFile PROVE EveryCaseIsRun
  <2> USE <1>1
  <2>1. jobs # <<>> => DOMAIN jobs = DOMAIN specs BY DEF JobsOfSpecs
  <2>2. \A i \in DOMAIN jobs : i \in DOMAIN specs /\ jobs[i] = Job(specs[i])
    BY DEF JobsOfSpecs
  <2>3. \A i \in DOMAIN jobs : DefaultTTL > 0 => jobs[i].ttl > 0
    BY <2>2 DEF Job, JobTTL
  <2>4. ASSUME origin # "none"
        PROVE  /\ \A i \in DOMAIN specs : Job(specs[i]).ok /\ Job(specs[i]).lang = "Rust"
               /\ IsInjective([i \in DOMAIN specs |-> specs[i].id])
               /\ LET solved == {rec.problem : rec \in
                                   {x \in ToSet(files[origin]) : x.source = "humaneval-x"}}
                  IN {<<specs[i].id, specs[i].expected>> : i \in DOMAIN specs} =
                       UNION {{<< <<p.uid, s>>, Answer(s)>> : s \in p.solutions} : p \in solved}
    <3> DEFINE lines == files[origin]
               hex == {x \in ToSet(lines) : x.source = "humaneval-x"}
               solved == {rec.problem : rec \in hex}
    <3>1. origin \in {"train", "heldout"} BY <2>4 DEF ToolTypes
    <3>2. /\ lines # Missing /\ Torn \notin ToSet(lines)
          /\ specs = FlattenSeq([i \in DOMAIN lines |-> Convert(lines[i])])
      BY <2>4 DEF SpecsOfFile
    <3>3. PICK r \in Releases : /\ lines \in Seq(Made(r) \cup {Torn}) /\ IsInjective(lines)
                                /\ \A l \in ToSet(lines) : l = Torn \/ l \in Made(r)
      BY <3>1, <3>2, SplitFileFacts
    <3> HIDE DEF lines
    <3>4. ToSet(lines) \subseteq Made(r) BY <3>2, <3>3
    <3>5. lines \in Seq(Made(r)) BY <3>3, <3>4, OwnElements
    <3>6. /\ specs \in Seq(CasesOf(r)) /\ IsInjective(specs)
          /\ ToSet(specs) = UNION {RecordCases(x) : x \in ToSet(lines)}
      BY <3>2, <3>3, <3>5, ConvertAll
    <3>7. \A i \in DOMAIN specs : \E x \in Made(r) : specs[i] \in RecordCases(x)
      BY <3>4, <3>6 DEF ToSet
    <3>8. ASSUME NEW i \in DOMAIN specs PROVE Job(specs[i]).ok /\ Job(specs[i]).lang = "Rust"
      <4>1. PICK p, s : specs[i] = Case(p, s, Answer(s)) BY <3>7 DEF RecordCases
      <4>2. specs[i].lang = "rust" /\ specs[i].files = {s} BY <4>1, CaseFacts
      <4>3. ParseLang("rust") = "Rust" /\ {s} # {} BY DEF ParseLang
      <4> QED BY <4>2, <4>3 DEF Job
    <3>9. IsInjective([i \in DOMAIN specs |-> specs[i].id])
      <4>1. ASSUME NEW i \in DOMAIN specs, NEW j \in DOMAIN specs, specs[i].id = specs[j].id
            PROVE  i = j
        <5>1. specs[i] = specs[j] BY <3>7, <4>1, CasesApart
        <5> QED BY <3>6, <5>1 DEF IsInjective
      <4> QED BY <4>1 DEF IsInjective
    <3>10. {<<specs[i].id, specs[i].expected>> : i \in DOMAIN specs} =
             UNION {{<< <<p.uid, s>>, Answer(s)>> : s \in p.solutions} : p \in solved}
      <4> DEFINE told == {<<specs[i].id, specs[i].expected>> : i \in DOMAIN specs}
                 asked(p) == {<< <<p.uid, s>>, Answer(s)>> : s \in p.solutions}
      <4>1. ASSUME NEW i \in DOMAIN specs
            PROVE  \E p \in solved : <<specs[i].id, specs[i].expected>> \in asked(p)
        <5>1. specs[i] \in ToSet(specs) BY DEF ToSet
        <5>2. PICK x \in ToSet(lines) : specs[i] \in RecordCases(x) BY <3>6, <5>1
        <5>3. x \in hex /\ \E s \in x.problem.solutions : specs[i] = Case(x.problem, s, Answer(s))
          BY <5>2 DEF RecordCases
        <5>4. PICK s \in x.problem.solutions : specs[i] = Case(x.problem, s, Answer(s)) BY <5>3
        <5>5. <<specs[i].id, specs[i].expected>> = << <<x.problem.uid, s>>, Answer(s)>>
          BY <5>4, CaseFacts
        <5>6. x.problem \in solved BY <5>3
        <5> QED BY <5>5, <5>6
      <4>2. ASSUME NEW p \in solved, NEW s \in p.solutions
            PROVE  << <<p.uid, s>>, Answer(s)>> \in told
        <5>1. PICK x \in hex : x.problem = p OBVIOUS
        <5> DEFINE c == Case(p, s, Answer(s))
        <5>2. c \in RecordCases(x) BY <5>1 DEF RecordCases
        <5>3. c \in ToSet(specs) BY <3>6, <5>1, <5>2
        <5>4. c.id = <<p.uid, s>> /\ c.expected = Answer(s) BY CaseFacts
        <5> HIDE DEF c
        <5>5. PICK i \in DOMAIN specs : specs[i] = c BY <5>3 DEF ToSet
        <5> QED BY <5>4, <5>5
      <4> HIDE DEF solved
      <4>3. told \subseteq UNION {asked(p) : p \in solved}
        <5> HIDE DEF asked
        <5> QED BY <4>1
      <4>4. UNION {asked(p) : p \in solved} \subseteq told
        <5> HIDE DEF told
        <5> QED BY <4>2
      <4> QED BY <4>3, <4>4
    <3> QED BY <3>8, <3>9, <3>10 DEF lines
  <2> QED BY <2>1, <2>2, <2>3, <2>4 DEF EveryCaseIsRun, Answer
<1> QED BY SuiteInvariant, ToolsInvariant, <1>1, PTL
=============================================================================
