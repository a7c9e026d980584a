---------------------------- MODULE MiningProofs ----------------------------
(***************************************************************************)
(* Proofs about the mining for every corpus and any number of days, runs   *)
(* and analyses: where what is on disk comes from, what an analysis        *)
(* selects, and what is baked.                                             *)
(***************************************************************************)
EXTENDS ManifestProofs

-----------------------------------------------------------------------------
(* The runs of the miners and the directories.                             *)

\* A miner's run: its records are of its language, it lists no more repositories
\* than it was asked for, and the directory it is to write to is there.
RunStates ==
  [step : {"idle", "search", "fetch", "dump"}, lang : Langs, size : Nat, page : Nat,
   repos : Seq(Repos), records : Seq(GoodRecords("go") \cup GoodRecords("rust")), day : Nat]

GoodRun ==
  /\ run \in RunStates
  /\ run.records \in Seq(GoodRecords(run.lang))
  /\ run.step = "search" => run.page >= 1
  /\ run.step # "search" => Len(run.repos) <= run.size
  /\ run.day <= today
  /\ run.step = "dump" \/ (run.lang = "go" /\ run.step # "idle") => run.day \in made

Dates == today \in Days /\ runs \in 0..MaxRuns /\ made \subseteq 1..today

\* Files are in directories that exist, an analysis beside what it analysed.
InPlace ==
  \A l \in Langs : \A d \in Days :
    /\ raw[l][d] # Missing => d \in made
    /\ prev[l][d] # Missing => raw[l][d] # Missing

CorpusInv == Dates /\ GoodRun /\ InPlace

LEMMA CorpusTypes ==
  CorpusInv => /\ today \in Days /\ runs \in 0..MaxRuns /\ made \subseteq 1..today
               /\ run.step \in {"idle", "search", "fetch", "dump"} /\ run.day \in 0..today
               /\ run.step # "search" => Len(run.repos) <= run.size
<1> SUFFICES ASSUME CorpusInv
             PROVE  /\ today \in Days /\ runs \in 0..MaxRuns /\ made \subseteq 1..today
                    /\ run.step \in {"idle", "search", "fetch", "dump"} /\ run.day \in 0..today
                    /\ run.step # "search" => Len(run.repos) <= run.size
  OBVIOUS
<1>1. Dates /\ GoodRun BY DEF CorpusInv
<1>2. /\ run.step \in {"idle", "search", "fetch", "dump"} /\ run.day \in Nat
      /\ run.day <= today
  BY <1>1 DEF GoodRun, RunStates
<1>3. today \in Nat BY <1>1 DEF Dates, Days
<1>4. run.day \in 0..today BY <1>2, <1>3
<1> QED BY <1>1, <1>2, <1>4 DEF Dates, GoodRun

\* What a page of the search lists.
LEMMA PageOfRepos ==
  ASSUME NEW order \in Rankings, NEW p \in Nat, p >= 1
  PROVE  Page(order, p) \in Seq(Repos)
<1> DEFINE a == (p - 1) * PerPage
           e == p * PerPage
           m == Min({e, Len(order)})
<1>1. order \in Seq(Repos) /\ PerPage \in Nat BY MiningAssumption DEF MiningAssumption
<1>2. Len(order) \in Nat BY <1>1
<1>3. a \in Nat /\ e \in Nat
  <2>1. \A x, y \in Nat : x * y \in Nat OBVIOUS
  <2>2. p - 1 \in Nat OBVIOUS
  <2> QED BY <1>1, <2>1, <2>2
<1> HIDE DEF a, e
<1>4. m \in Int /\ m <= Len(order)
  <2>1. \E x \in {e, Len(order)} : \A y \in {e, Len(order)} : x <= y BY <1>2, <1>3
  <2> QED BY <1>2, <1>3, <2>1 DEF Min
<1> HIDE DEF m
<1>5. Page(order, p) = SubSeq(order, a + 1, m) BY DEF Page, a, e, m
<1>6. a + 1 \in Int /\ \A i \in (a + 1)..m : order[i] \in Repos BY <1>1, <1>2, <1>3, <1>4
<1> QED BY <1>4, <1>5, <1>6

\* What is kept of the list when the search has ended.
SearchResult(s, size, l) ==
  Kept(SubSeq(s, 1, Min({size, Len(s)})), LAMBDA r : l = "go" \/ r \in RustPrimary)

LEMMA EndOfSearch ==
  ASSUME NEW s \in Seq(Repos), NEW size \in Nat, NEW l
  PROVE  SearchResult(s, size, l) \in Seq(Repos) /\ Len(SearchResult(s, size, l)) <= size
<1> DEFINE m == Min({size, Len(s)})
           t == SearchResult(s, size, l)
           u == SubSeq(s, 1, m)
           I == {i \in DOMAIN u : l = "go" \/ u[i] \in RustPrimary}
<1>1. Len(s) \in Nat OBVIOUS
<1>2. m \in Int /\ 0 <= m /\ m <= Len(s) /\ m <= size
  <2>1. \E x \in {size, Len(s)} : \A y \in {size, Len(s)} : x <= y BY <1>1
  <2> QED BY <1>1, <2>1 DEF Min
<1>3. t = Picked(u, I) BY DEF Kept, SearchResult
<1> HIDE DEF m, t
<1>4. u \in Seq(Repos) /\ Len(u) = m BY <1>2
<1> HIDE DEF u
<1>5. I \in SUBSET DOMAIN u OBVIOUS
<1> HIDE DEF I
<1>6. t \in Seq(Repos) /\ Len(t) = Cardinality(I) /\ Cardinality(I) \in 0..Len(u)
  BY <1>3, <1>4, <1>5, PickedFacts DEF Selection
<1> QED BY <1>2, <1>4, <1>6 DEF t

-----------------------------------------------------------------------------
(* The files.                                                              *)

\* The file stores are tables, whatever is in the files.
Table(f, S, T) == f = [l \in S |-> [d \in T |-> f[l][d]]]
Tables ==
  /\ Table(raw, Langs, Days) /\ Table(prev, Langs, Days)
  /\ cov = [d \in Days |-> cov[d]]
  /\ baked = [l \in Langs |-> baked[l]]
  /\ mined = [n \in 0..MaxRuns |-> mined[n]]

\* Writing one file changes that one.
WrittenAt(g, f, S, T, a, b, v) ==
  /\ Table(g, S, T)
  /\ \A l \in S, d \in T : (l = a /\ d = b => g[l][d] = v)
  /\ \A l \in S, d \in T : (~(l = a /\ d = b) => g[l][d] = f[l][d])

LEMMA TableWrite ==
  ASSUME NEW S, NEW T, NEW f, Table(f, S, T),
         NEW a, NEW b, NEW v, NEW g, g = [f EXCEPT ![a][b] = v]
  PROVE  WrittenAt(g, f, S, T, a, b, v)
<1>0. f = [l \in S |-> [d \in T |-> f[l][d]]] BY DEF Table
<1>1. g = [l \in S |-> [d \in T |-> IF l = a /\ d = b THEN v ELSE f[l][d]]]
  <2>1. CASE a \in S /\ b \in T BY <1>0, <2>1
  <2>2. CASE a \notin S BY <1>0, <2>2
  <2>3. CASE a \in S /\ b \notin T BY <1>0, <2>3
  <2> QED BY <2>1, <2>2, <2>3
<1>2. \A l \in S, d \in T : g[l][d] = IF l = a /\ d = b THEN v ELSE f[l][d] BY <1>1
<1> QED BY <1>1, <1>2 DEF Table, WrittenAt

\* What a step may do to a file.
RawStep ==
  \A l \in Langs, d \in Days :
    \/ raw'[l][d] = raw[l][d]
    \/ OpenOutput /\ d \in made' /\ raw'[l][d] = Torn
    \/ /\ Dump /\ l = run.lang /\ d = run.day
       /\ raw'[l][d] = Output(l, run.records, runs) /\ mined'[runs] = raw'[l][d]

PrevStep ==
  \A l \in Langs, d \in Days :
    \/ prev'[l][d] = prev[l][d]
    \/ /\ Whole(raw[l][d]) /\ raw' = raw
       /\ prev'[l][d] = Torn \/ prev'[l][d] = PrevalenceAnalysis(l, raw[l][d])

CovStep ==
  \A d \in Days :
    \/ cov'[d] = cov[d]
    \/ Whole(raw["go"][d]) /\ (cov'[d] = Torn \/ cov'[d] = CoverageAnalysis(raw["go"][d]))

BakedStep ==
  \A l \in Langs :
    \/ baked'[l] = baked[l]
    \/ \E d \in Days, t \in Thresholds :
         Whole(prev[l][d]) /\ baked'[l] = Manifest(l, prev[l][d], t)

MinedStep ==
  \A n \in 0..MaxRuns : mined'[n] = mined[n] \/ (Dump /\ n = runs)

LEMMA FileSteps ==
  ASSUME Tables, runs \in 0..MaxRuns, run.lang \in Langs, [Next]_vars
  PROVE  Tables' /\ RawStep /\ PrevStep /\ CovStep /\ BakedStep /\ MinedStep
<1>1. CASE UNCHANGED <<raw, prev, cov, baked, mined>>
  BY <1>1 DEF Tables, RawStep, PrevStep, CovStep, BakedStep, MinedStep
<1>2. CASE OpenOutput
  <2> DEFINE day == IF run.lang = "go" THEN run.day ELSE today
  <2>1. /\ raw' = [raw EXCEPT ![run.lang][day] = Torn] /\ made' = made \cup {day}
        /\ UNCHANGED <<prev, cov, baked, mined>>
    BY <1>2 DEF OpenOutput
  <2> HIDE DEF day
  <2>2. WrittenAt(raw', raw, Langs, Days, run.lang, day, Torn)
    BY <2>1, TableWrite DEF Tables
  <2>3. RawStep BY <1>2, <2>1, <2>2 DEF RawStep, WrittenAt
  <2> QED BY <2>1, <2>2, <2>3 DEF Tables, WrittenAt, PrevStep, CovStep, BakedStep, MinedStep
<1>3. CASE Dump
  <2> DEFINE content == Output(run.lang, run.records, runs)
  <2>1. /\ mined' = [mined EXCEPT ![runs] = content]
        /\ raw' = [raw EXCEPT ![run.lang][run.day] = mined'[runs]]
        /\ UNCHANGED <<prev, cov, baked>>
    BY <1>3 DEF Dump, Output
  <2> HIDE DEF content
  <2>2. /\ mined' = [n \in 0..MaxRuns |-> mined'[n]] /\ mined'[runs] = content
        /\ \A n \in 0..MaxRuns : n # runs => mined'[n] = mined[n]
    BY <2>1 DEF Tables
  <2>3. raw' = [raw EXCEPT ![run.lang][run.day] = content] BY <2>1, <2>2
  <2>4. WrittenAt(raw', raw, Langs, Days, run.lang, run.day, content)
    BY <2>3, TableWrite DEF Tables
  <2>5. RawStep BY <1>3, <2>2, <2>4 DEF RawStep, WrittenAt, content
  <2>6. MinedStep BY <1>3, <2>2 DEF MinedStep
  <2>7. Tables' BY <2>1, <2>2, <2>4 DEF Tables, WrittenAt
  <2>8. PrevStep /\ CovStep /\ BakedStep BY <2>1 DEF PrevStep, CovStep, BakedStep
  <2> QED BY <2>5, <2>6, <2>7, <2>8
<1>4. ASSUME NEW k \in Langs, NEW e \in Days, AnalyzePrevalence(k, e)
      PROVE  Tables' /\ RawStep /\ PrevStep /\ CovStep /\ BakedStep /\ MinedStep
  <2>1. PICK file \in {PrevalenceAnalysis(k, raw[k][e]), Torn} : prev' = [prev EXCEPT ![k][e] = file]
    BY <1>4 DEF AnalyzePrevalence
  <2>2. UNCHANGED <<raw, cov, baked, mined>> /\ Whole(raw[k][e])
    BY <1>4 DEF AnalyzePrevalence
  <2>3. WrittenAt(prev', prev, Langs, Days, k, e, file)
    BY <2>1, TableWrite DEF Tables
  <2>4. file = PrevalenceAnalysis(k, raw[k][e]) \/ file = Torn OBVIOUS
  <2>5. PrevStep BY <2>2, <2>3, <2>4 DEF PrevStep, WrittenAt
  <2> QED BY <2>2, <2>3, <2>5 DEF Tables, WrittenAt, RawStep, CovStep, BakedStep, MinedStep
<1>5. ASSUME NEW e \in Days, AnalyzeCoverage(e)
      PROVE  Tables' /\ RawStep /\ PrevStep /\ CovStep /\ BakedStep /\ MinedStep
  <2>1. PICK file \in {CoverageAnalysis(raw["go"][e]), Torn} : cov' = [cov EXCEPT ![e] = file]
    BY <1>5 DEF AnalyzeCoverage
  <2>2. UNCHANGED <<raw, prev, baked, mined>> /\ Whole(raw["go"][e])
    BY <1>5 DEF AnalyzeCoverage
  <2>3. cov' = [d \in Days |-> IF d = e THEN file ELSE cov[d]] BY <2>1 DEF Tables
  <2>4. CovStep BY <2>2, <2>3 DEF CovStep
  <2> QED BY <2>2, <2>3, <2>4 DEF Tables, RawStep, PrevStep, BakedStep, MinedStep
<1>6. ASSUME NEW k \in Langs, NEW e \in Days, Generate(k, e)
      PROVE  Tables' /\ RawStep /\ PrevStep /\ CovStep /\ BakedStep /\ MinedStep
  <2>1. PICK t \in Thresholds : baked' = [baked EXCEPT ![k] = Manifest(k, prev[k][e], t)]
    BY <1>6 DEF Generate
  <2>2. UNCHANGED <<raw, prev, cov, mined>> /\ Whole(prev[k][e]) BY <1>6 DEF Generate
  <2>3. baked' = [l \in Langs |-> IF l = k THEN Manifest(k, prev[k][e], t) ELSE baked[l]]
    BY <2>1 DEF Tables
  <2>4. BakedStep BY <2>2, <2>3 DEF BakedStep
  <2> QED BY <2>2, <2>3, <2>4 DEF Tables, RawStep, PrevStep, CovStep, MinedStep
<1>7. \/ UNCHANGED <<raw, prev, cov, baked, mined>>
      \/ OpenOutput \/ Dump
      \/ \E e \in Days : AnalyzeCoverage(e) \/ \E k \in Langs : AnalyzePrevalence(k, e) \/ Generate(k, e)
  <2>1. CASE UNCHANGED vars BY <2>1 DEF vars
  <2>2. CASE Midnight BY <2>2 DEF Midnight
  <2>3. CASE \E l \in Langs : Start(l) BY <2>3 DEF Start
  <2>4. CASE SearchPage \/ SearchEnds BY <2>4 DEF SearchPage, SearchEnds
  <2>5. CASE FetchRepo \/ MinerDies BY <2>5 DEF FetchRepo, MinerDies
  <2> QED BY <2>1, <2>2, <2>3, <2>4, <2>5 DEF Next, Miner
<1> QED BY <1>1, <1>2, <1>3, <1>4, <1>5, <1>6, <1>7

\* Run n has written its output; the shipped one, 0, before the first step.
Written(n) == n \in 0..MaxRuns /\ (n = 0 \/ mined[n] # Missing)
Finished(l, n) == Written(n) /\ Holds(l, mined[n])

\* An output is written once, by the last run.
WrittenOnce ==
  /\ \A n \in 0..MaxRuns : n > runs => mined[n] = Missing
  /\ run.step # "idle" => runs # 0 /\ mined[runs] = Missing

\* And it is a miner's.
MinedHeld == \A n \in 0..MaxRuns : mined[n] # Missing => \E l \in Langs : Holds(l, mined[n])

\* A file that names its run as it should.  (Traceable says nothing of a file whose
\* run is not known, nor of what language that run was for.)
RawGood(l, f) == Finished(l, f.mined_at) /\ f = mined[f.mined_at]
PrevGood(l, f) ==
  Finished(l, f.source_mined_at) /\ f = PrevalenceAnalysis(l, mined[f.source_mined_at])
CovGood(f) == Finished("go", f.source_mined_at) /\ f = CoverageAnalysis(mined[f.source_mined_at])
BakedGood(l, f) ==
  /\ Finished(l, f.mined_at) /\ f.threshold \in Thresholds
  /\ f = Manifest(l, PrevalenceAnalysis(l, mined[f.mined_at]), f.threshold)

AllGood ==
  /\ \A l \in Langs :
       /\ \A d \in Days : /\ Whole(raw[l][d]) => RawGood(l, raw[l][d])
                          /\ Whole(prev[l][d]) => PrevGood(l, prev[l][d])
       /\ baked[l] # Missing => BakedGood(l, baked[l])
  /\ \A d \in Days : Whole(cov[d]) => CovGood(cov[d])

MiningInv == Tables /\ CorpusInv /\ WrittenOnce /\ MinedHeld /\ AllGood

-----------------------------------------------------------------------------
\* What a file says of its origin, by the code that writes it.
LEMMA Stamps ==
  /\ \A l, records, n : Output(l, records, n).mined_at = n
  /\ \A l, c : PrevalenceAnalysis(l, c).source_mined_at = c.mined_at
  /\ \A c : CoverageAnalysis(c).source_mined_at = c.mined_at
  /\ \A l, a, t : /\ Manifest(l, a, t).mined_at = a.source_mined_at
                  /\ Manifest(l, a, t).threshold = t
<1>1. \A records, n : GoRaw(records, n).mined_at = n BY DEF GoRaw
<1>2. \A records, n : RustRaw(records, n).mined_at = n BY DEF RustRaw
<1>3. \A l, records, n : Output(l, records, n).mined_at = n BY <1>1, <1>2 DEF Output
<1>4. \A l, c : PrevalenceAnalysis(l, c).source_mined_at = c.mined_at BY DEF PrevalenceAnalysis
<1>5. \A c : CoverageAnalysis(c).source_mined_at = c.mined_at BY DEF CoverageAnalysis
<1>6. \A l, a, t : /\ Manifest(l, a, t).mined_at = a.source_mined_at
                   /\ Manifest(l, a, t).threshold = t
  BY DEF Manifest, GoMod, CargoToml
<1> QED BY <1>3, <1>4, <1>5, <1>6

\* The run the repository ships.
LEMMA ShippedHolds == ShippedRaw.mined_at = 0 /\ Holds("go", ShippedRaw)
<1> DEFINE n == Len(Shipped)
           R == [repo : Repos, text : {Missing} \cup Seq(GoModLines)]
           s == [i \in DOMAIN Shipped |-> GoRecord(Shipped[i].repo, Shipped[i].text)]
<1>1. Shipped \in Seq(R) BY PublishedAssumption DEF PublishedAssumption
<1>3. \A x \in R : GoRecord(x.repo, x.text) \in GoodRecords("go") BY GoRecordIsGood
<1> HIDE DEF R
<1>2. DOMAIN Shipped = 1..n /\ n \in Nat /\ \A i \in DOMAIN Shipped : Shipped[i] \in R BY <1>1
<1>4. s = [i \in 1..n |-> s[i]] /\ \A i \in 1..n : s[i] \in GoodRecords("go") BY <1>2, <1>3
<1>5. ShippedRaw = Output("go", s, 0) BY DEF ShippedRaw, Output
<1> HIDE DEF s, n
<1>6. s \in Seq(GoodRecords("go")) BY <1>2, <1>4
<1>7. Holds("go", ShippedRaw) BY <1>5, <1>6 DEF Holds
<1> QED BY <1>5, <1>7, Stamps

LEMMA MiningInit == Init => MiningInv
<1> SUFFICES ASSUME Init PROVE MiningInv
  OBVIOUS
<1>0. /\ MaxRuns \in Nat /\ LastDay \in Nat /\ 1 \in Days /\ "go" \in Langs /\ 0 \in 0..MaxRuns
      /\ Torn # Missing
  BY MiningAssumption DEF MiningAssumption, Days, Langs
<1>1. mined[0] = ShippedRaw /\ \A n \in 0..MaxRuns : n # 0 => mined[n] = Missing BY <1>0 DEF Init
<1>2. \A l \in Langs, d \in Days : raw[l][d] = IF l = "go" /\ d = 1 THEN ShippedRaw ELSE Missing
  BY <1>1 DEF Init
<1>3. \A l \in Langs, d \in Days :
        prev[l][d] = IF l = "go" /\ d = 1 THEN PrevalenceAnalysis("go", ShippedRaw) ELSE Missing
  BY <1>1 DEF Init
<1>4. \E t \in Thresholds : \A l \in Langs :
        baked[l] = IF l = "go" THEN Manifest("go", PrevalenceAnalysis("go", ShippedRaw), t) ELSE Missing
  <2>1. prev["go"][1] = PrevalenceAnalysis("go", ShippedRaw) BY <1>0, <1>3
  <2>2. PICK t \in Thresholds : baked = [l \in Langs |-> IF l = "go" THEN GoMod(prev["go"][1], t) ELSE Missing]
    BY DEF Init
  <2>3. GoMod(prev["go"][1], t) = Manifest("go", PrevalenceAnalysis("go", ShippedRaw), t)
    BY <2>1 DEF Manifest
  <2> QED BY <2>2, <2>3
<1>5. Tables
  <2>1. baked = [l \in Langs |-> baked[l]] BY DEF Init
  <2>2. raw = [l \in Langs |-> [d \in Days |-> raw[l][d]]] BY DEF Init
  <2>3. prev = [l \in Langs |-> [d \in Days |-> prev[l][d]]] BY DEF Init
  <2> QED BY <2>1, <2>2, <2>3 DEF Tables, Table, Init
<1>6. WrittenOnce BY <1>0, <1>1 DEF WrittenOnce, Idle, Init
<1>7. Finished("go", 0) /\ ShippedRaw.mined_at = 0 BY <1>0, <1>1, ShippedHolds DEF Finished, Written
<1>8. AllGood
  <2>1. ASSUME NEW l \in Langs, NEW d \in Days, Whole(raw[l][d]) PROVE RawGood(l, raw[l][d])
    BY <1>1, <1>2, <1>7, <2>1 DEF RawGood, Whole
  <2>2. PrevalenceAnalysis("go", ShippedRaw).source_mined_at = 0 BY <1>7, Stamps
  <2>3. ASSUME NEW l \in Langs, NEW d \in Days, Whole(prev[l][d]) PROVE PrevGood(l, prev[l][d])
    BY <1>1, <1>3, <1>7, <2>2, <2>3 DEF PrevGood, Whole
  <2>4. ASSUME NEW l \in Langs, baked[l] # Missing PROVE BakedGood(l, baked[l])
    <3>1. PICK t \in Thresholds : baked[l] = Manifest("go", PrevalenceAnalysis("go", ShippedRaw), t)
      BY <1>4, <2>4
    <3>2. l = "go" BY <1>4, <2>4
    <3>3. baked[l].mined_at = 0 /\ baked[l].threshold = t BY <2>2, <3>1, Stamps
    <3> QED BY <1>1, <1>7, <3>1, <3>2, <3>3 DEF BakedGood
  <2>5. ASSUME NEW d \in Days PROVE ~Whole(cov[d]) BY DEF Whole, Init
  <2> QED BY <2>1, <2>3, <2>4, <2>5 DEF AllGood
<1>9. CorpusInv
  <2>1. Dates BY <1>0 DEF Dates, Init
  <2>2. GoodRun
    <3>1. run = Idle /\ today = 1 BY DEF Init
    <3>2. Idle \in RunStates BY DEF Idle, RunStates, Langs
    <3>3. Idle.records \in Seq(GoodRecords(Idle.lang)) BY DEF Idle
    <3>4. Idle.step = "idle" /\ Len(Idle.repos) = 0 /\ Idle.size = 0 /\ Idle.day = 0 BY DEF Idle
    <3> QED BY <3>1, <3>2, <3>3, <3>4 DEF GoodRun
  <2>3. InPlace
    <3>1. \A l \in Langs, d \in Days : raw[l][d] # Missing => d \in made BY <1>2 DEF Init
    <3>2. ShippedRaw # Missing BY <1>0, ShippedHolds, HeldIsThere
    <3>3. \A l \in Langs, d \in Days : prev[l][d] # Missing => raw[l][d] # Missing
      BY <1>2, <1>3, <3>2
    <3> QED BY <3>1, <3>3 DEF InPlace
  <2> QED BY <2>1, <2>2, <2>3 DEF CorpusInv
<1>10. MinedHeld BY <1>0, <1>1, ShippedHolds DEF MinedHeld
<1> QED BY <1>5, <1>6, <1>8, <1>9, <1>10 DEF MiningInv

\* A miner's run stays good.
LEMMA RunStep ==
  ASSUME Dates, GoodRun, Miner
  PROVE  Dates' /\ GoodRun'
<1>1. /\ today \in Nat /\ today \in 1..LastDay /\ LastDay \in Nat /\ MaxRuns \in Nat
      /\ runs \in 0..MaxRuns /\ made \subseteq 1..today
  BY MiningAssumption DEF MiningAssumption, Dates, Days
<1>2. Idle \in RunStates /\ Idle.records \in Seq(GoodRecords(Idle.lang)) /\ Idle.step = "idle"
      /\ Len(Idle.repos) = 0 /\ Idle.size = 0 /\ Idle.day = 0
  BY DEF Idle, RunStates, Langs
<1>3. CASE \E l \in Langs : Start(l)
  <2>1. PICK l \in Langs : Start(l) BY <1>3
  <2>2. PICK size \in CorpusSizes :
          run' = [Idle EXCEPT !.step = "search", !.lang = l, !.size = size, !.page = 1, !.day = today]
    BY <2>1 DEF Start
  <2>3. /\ runs' = runs + 1 /\ runs < MaxRuns /\ today' = today
        /\ made' = (IF l = "go" THEN made \cup {today} ELSE made)
    BY <2>1 DEF Start
  <2>4. size \in Nat BY MiningAssumption DEF MiningAssumption
  <2>5. run' = [step |-> "search", lang |-> l, size |-> size, page |-> 1, repos |-> <<>>,
                records |-> <<>>, day |-> today]
    BY <2>2 DEF Idle
  <2>6. Dates' BY <1>1, <2>3 DEF Dates, Days
  <2>7. run' \in RunStates BY <1>1, <2>4, <2>5 DEF RunStates
  <2>8. <<>> \in Seq(GoodRecords(l)) OBVIOUS
  <2>9. run'.day = today /\ run'.records = <<>> /\ run'.lang = l /\ run'.step = "search" /\ run'.page = 1
    BY <2>5
  <2> QED BY <1>1, <2>3, <2>6, <2>7, <2>8, <2>9 DEF GoodRun
<1>4. CASE SearchPage
  <2>1. PICK order \in Rankings : run' = [run EXCEPT !.page = @ + 1, !.repos = @ \o Page(order, run.page)]
    BY <1>4 DEF SearchPage
  <2>2. run.step = "search" /\ UNCHANGED <<today, made, runs>> BY <1>4 DEF SearchPage
  <2>3. run.page \in Nat /\ run.page >= 1 /\ run.repos \in Seq(Repos) BY <2>2 DEF GoodRun, RunStates
  <2>4. Page(order, run.page) \in Seq(Repos) BY <2>3, PageOfRepos
  <2> DEFINE repos == run.repos \o Page(order, run.page)
  <2>5. repos \in Seq(Repos) /\ run' = [run EXCEPT !.page = run.page + 1, !.repos = repos]
    BY <2>1, <2>3, <2>4
  <2>8. run.page + 1 \in Nat BY <2>3
  <2> HIDE DEF repos
  <2>6. run' \in RunStates
    <3> DEFINE page == run.page + 1
    <3>1. page \in Nat /\ run' = [run EXCEPT !.page = page, !.repos = repos] BY <2>5, <2>8
    <3> HIDE DEF page
    <3> QED BY <2>5, <3>1 DEF GoodRun, RunStates
  <2>7. /\ run'.step = run.step /\ run'.records = run.records /\ run'.lang = run.lang
        /\ run'.page = run.page + 1 /\ run'.day = run.day
    BY <2>5 DEF GoodRun, RunStates
  <2> QED BY <2>2, <2>3, <2>6, <2>7 DEF GoodRun, Dates
<1>5. CASE SearchEnds
  <2> DEFINE repos == SearchResult(run.repos, run.size, run.lang)
  <2>1. run' = [run EXCEPT !.step = "fetch", !.repos = repos] BY <1>5 DEF SearchEnds, SearchResult
  <2>2. run.step = "search" /\ UNCHANGED <<today, made, runs>> BY <1>5 DEF SearchEnds
  <2>3. run.size \in Nat /\ run.repos \in Seq(Repos) BY DEF GoodRun, RunStates
  <2>4. repos \in Seq(Repos) /\ Len(repos) <= run.size BY <2>3, EndOfSearch
  <2> HIDE DEF repos
  <2>5. run' \in RunStates BY <2>1, <2>4 DEF GoodRun, RunStates
  <2>6. /\ run'.step = "fetch" /\ run'.records = run.records /\ run'.lang = run.lang
        /\ run'.repos = repos /\ run'.size = run.size /\ run'.day = run.day
    BY <2>1 DEF GoodRun, RunStates
  <2> QED BY <2>2, <2>4, <2>5, <2>6 DEF GoodRun, Dates
<1>6. CASE FetchRepo
  <2> DEFINE r == run.repos[Len(run.records) + 1]
  <2>1. run.step = "fetch" /\ Len(run.records) < Len(run.repos) /\ UNCHANGED <<today, made, runs>>
    BY <1>6 DEF FetchRepo
  <2>2. PICK text \in Published[run.lang][r] \cup (IF r \in Flaky THEN {Missing} ELSE {}) :
          \E rec \in IF run.lang = "go" THEN {GoRecord(r, text)}
                     ELSE {RustRecord(r, text, sub) : sub \in SubcrateText(text)} :
            run' = [run EXCEPT !.records = Append(@, rec)]
    BY <1>6 DEF FetchRepo
  <2>3. PICK rec \in IF run.lang = "go" THEN {GoRecord(r, text)}
                     ELSE {RustRecord(r, text, sub) : sub \in SubcrateText(text)} :
          run' = [run EXCEPT !.records = Append(@, rec)]
    BY <2>2
  <2>4. run.repos \in Seq(Repos) /\ run.lang \in Langs /\ run.records \in Seq(GoodRecords(run.lang))
    BY DEF GoodRun, RunStates
  <2>5. r \in Repos BY <2>1, <2>4
  <2> HIDE DEF r
  <2>6. rec \in GoodRecords(run.lang) BY <2>4, <2>5, FetchedIsGood
  <2> DEFINE records == Append(run.records, rec)
  <2>7. records \in Seq(GoodRecords(run.lang)) BY <2>4, <2>6
  <2>8. records \in Seq(GoodRecords("go") \cup GoodRecords("rust"))
    <3>1. GoodRecords(run.lang) \subseteq GoodRecords("go") \cup GoodRecords("rust") BY <2>4 DEF Langs
    <3>2. ToSet(records) \subseteq GoodRecords("go") \cup GoodRecords("rust")
      <4>1. \A i \in DOMAIN records : records[i] \in GoodRecords(run.lang) BY <2>7
      <4> HIDE DEF records
      <4> QED BY <3>1, <4>1 DEF ToSet
    <3> HIDE DEF records
    <3> QED BY <2>7, <3>2, OwnElements
  <2>9. run' = [run EXCEPT !.records = records] BY <2>3
  <2> HIDE DEF records
  <2>10. run' \in RunStates BY <2>8, <2>9 DEF GoodRun, RunStates
  <2>11. /\ run'.step = run.step /\ run'.records = records /\ run'.lang = run.lang
         /\ run'.repos = run.repos /\ run'.size = run.size /\ run'.day = run.day
    BY <2>9 DEF GoodRun, RunStates
  <2> QED BY <2>1, <2>7, <2>10, <2>11 DEF GoodRun, Dates
<1>7. CASE OpenOutput
  <2> DEFINE day == IF run.lang = "go" THEN run.day ELSE today
  <2>1. /\ run.step = "fetch" /\ run' = [run EXCEPT !.step = "dump", !.day = day]
        /\ made' = made \cup {day} /\ UNCHANGED <<today, runs>>
    BY <1>7 DEF OpenOutput
  <2>2. day \in 1..today
    <3>1. CASE run.lang = "go"
      <4>1. run.day \in made BY <2>1, <3>1 DEF GoodRun
      <4> QED BY <1>1, <3>1, <4>1
    <3>2. CASE run.lang # "go" BY <1>1, <3>2
    <3> QED BY <3>1, <3>2
  <2> HIDE DEF day
  <2>7. day \in Nat BY <1>1, <2>2
  <2>3. run' \in RunStates BY <2>1, <2>7 DEF GoodRun, RunStates
  <2>4. /\ run'.step = "dump" /\ run'.records = run.records /\ run'.lang = run.lang
        /\ run'.repos = run.repos /\ run'.size = run.size /\ run'.day = day
    BY <2>1 DEF GoodRun, RunStates
  <2>5. Dates' BY <1>1, <2>1, <2>2 DEF Dates
  <2>6. day <= today /\ day \in made' BY <1>1, <2>1, <2>2
  <2> QED BY <2>1, <2>3, <2>4, <2>5, <2>6 DEF GoodRun
<1>8. CASE Dump \/ MinerDies
  <2>1. run' = Idle /\ UNCHANGED <<today, made, runs>> BY <1>8 DEF Dump, MinerDies
  <2> QED BY <1>1, <1>2, <2>1 DEF GoodRun, Dates
<1> QED BY <1>3, <1>4, <1>5, <1>6, <1>7, <1>8 DEF Miner

LEMMA CorpusStep ==
  ASSUME MiningInv, [Next]_vars, RawStep, PrevStep
  PROVE  CorpusInv'
<1>1. CorpusInv /\ Dates /\ GoodRun /\ InPlace BY DEF MiningInv, CorpusInv
<1>2. Dates' /\ GoodRun'
  <2>1. CASE Miner BY <1>1, <2>1, RunStep
  <2>2. CASE Midnight
    <3>1. today' = today + 1 /\ today < LastDay /\ UNCHANGED <<made, run, runs>> BY <2>2 DEF Midnight
    <3>2. today \in 1..LastDay /\ LastDay \in Nat BY <1>1, MiningAssumption DEF MiningAssumption, Dates, Days
    <3>3. Dates' BY <1>1, <3>1, <3>2 DEF Dates, Days
    <3>4. run.day \in Nat BY <1>1 DEF GoodRun, RunStates
    <3> QED BY <1>1, <3>1, <3>2, <3>3, <3>4 DEF GoodRun
  <2>3. CASE UNCHANGED <<today, made, run, runs>> BY <1>1, <2>3 DEF Dates, GoodRun
  <2>4. Miner \/ Midnight \/ UNCHANGED <<today, made, run, runs>>
    BY DEF Next, vars, AnalyzeCoverage, AnalyzePrevalence, Generate
  <2> QED BY <2>1, <2>2, <2>3, <2>4
<1>3. made \subseteq made'
  <2>1. CASE Miner BY <2>1 DEF Miner, Start, SearchPage, SearchEnds, FetchRepo, OpenOutput, Dump, MinerDies
  <2>2. Miner \/ made' = made
    BY DEF Next, vars, Midnight, AnalyzeCoverage, AnalyzePrevalence, Generate
  <2> QED BY <2>1, <2>2
<1>4. ASSUME NEW l \in Langs, NEW d \in Days
      PROVE  /\ raw'[l][d] # Missing => d \in made'
             /\ raw[l][d] # Missing => raw'[l][d] # Missing
  <2>1. CASE raw'[l][d] = raw[l][d] BY <1>1, <1>3, <2>1 DEF InPlace
  <2>2. CASE OpenOutput /\ d \in made' /\ raw'[l][d] = Torn
    BY <2>2, MiningAssumption DEF MiningAssumption
  <2>3. CASE Dump /\ l = run.lang /\ d = run.day /\ raw'[l][d] = Output(l, run.records, runs)
    <3>1. d \in made BY <1>1, <2>3 DEF Dump, GoodRun
    <3>2. runs \in Nat /\ run.records \in Seq(GoodRecords(l))
      BY <1>1, <2>3, MiningAssumption DEF MiningAssumption, GoodRun, Dates
    <3>3. Holds(l, raw'[l][d]) BY <2>3, <3>2 DEF Holds
    <3>4. raw'[l][d] # Missing BY <3>3, HeldIsThere
    <3> QED BY <1>3, <3>1, <3>4
  <2> QED BY <2>1, <2>2, <2>3 DEF RawStep
<1>5. InPlace'
  <2>1. ASSUME NEW l \in Langs, NEW d \in Days, prev'[l][d] # Missing PROVE raw'[l][d] # Missing
    <3>1. CASE prev'[l][d] = prev[l][d] BY <1>1, <1>4, <2>1, <3>1 DEF InPlace
    <3>2. CASE Whole(raw[l][d]) /\ raw' = raw BY <3>2 DEF Whole
    <3> QED BY <3>1, <3>2 DEF PrevStep
  <2> QED BY <1>4, <2>1 DEF InPlace
<1> QED BY <1>2, <1>5 DEF CorpusInv

\* A finished run stays finished, and its output what it is.
LEMMA OutputsStay ==
  ASSUME MiningInv, [Next]_vars, MinedStep
  PROVE  /\ WrittenOnce' /\ runs' \in 0..MaxRuns
         /\ \A n : Written(n) => Written(n)' /\ mined'[n] = mined[n]
         /\ \A l, n : Finished(l, n) => Finished(l, n)'
<1>1. /\ MaxRuns \in Nat /\ runs \in 0..MaxRuns
      /\ \A n \in 0..MaxRuns : n > runs => mined[n] = Missing
      /\ run.step # "idle" => runs # 0 /\ mined[runs] = Missing
  BY MiningAssumption DEF MiningAssumption, MiningInv, CorpusInv, Dates, WrittenOnce
<1>2. Idle.step = "idle" BY DEF Idle
<1>3. CASE Dump
  <2>1. run.step = "dump" /\ run' = Idle /\ runs' = runs BY <1>3 DEF Dump
  <2>2. runs # 0 /\ mined[runs] = Missing BY <1>1, <2>1
  <2>3. \A n \in 0..MaxRuns : n # runs => mined'[n] = mined[n] BY DEF MinedStep
  <2>4. WrittenOnce' BY <1>1, <1>2, <2>1, <2>3 DEF WrittenOnce
  <2>5. \A n : Written(n) => Written(n)' /\ mined'[n] = mined[n] BY <2>2, <2>3 DEF Written
  <2> QED BY <1>1, <2>1, <2>4, <2>5 DEF Finished
<1>4. CASE ~Dump
  <2>1. \A n \in 0..MaxRuns : mined'[n] = mined[n] BY <1>4 DEF MinedStep
  <2>2. \A n : Written(n) => Written(n)' /\ mined'[n] = mined[n] BY <2>1 DEF Written
  <2>3. \/ \E l \in Langs : Start(l)
        \/ runs' = runs /\ (run'.step = "idle" \/ run.step # "idle" \/ run' = run)
    <3>1. CASE UNCHANGED vars BY <3>1 DEF vars
    <3>2. CASE Midnight BY <3>2 DEF Midnight
    <3>3. CASE SearchPage \/ SearchEnds BY <3>3 DEF SearchPage, SearchEnds
    <3>4. CASE FetchRepo \/ OpenOutput BY <3>4 DEF FetchRepo, OpenOutput
    <3>5. CASE MinerDies BY <1>2, <3>5 DEF MinerDies
    <3>6. CASE \E d \in Days : AnalyzeCoverage(d) \/ \E l \in Langs : AnalyzePrevalence(l, d) \/ Generate(l, d)
      BY <3>6 DEF AnalyzeCoverage, AnalyzePrevalence, Generate
    <3> QED BY <1>4, <3>1, <3>2, <3>3, <3>4, <3>5, <3>6 DEF Next, Miner
  <2>4. WrittenOnce' /\ runs' \in 0..MaxRuns
    <3>1. CASE \E l \in Langs : Start(l)
      <4>1. runs' = runs + 1 /\ runs < MaxRuns BY <3>1 DEF Start
      <4>2. \A n \in 0..MaxRuns : n > runs' => mined'[n] = Missing BY <1>1, <2>1, <4>1
      <4>3. runs' \in 0..MaxRuns /\ runs' > runs BY <1>1, <4>1
      <4>4. runs' # 0 /\ mined'[runs'] = Missing BY <1>1, <2>1, <4>3
      <4> QED BY <4>2, <4>3, <4>4 DEF WrittenOnce
    <3>2. CASE runs' = runs /\ (run'.step = "idle" \/ run.step # "idle" \/ run' = run)
      BY <1>1, <2>1, <3>2 DEF WrittenOnce
    <3> QED BY <2>3, <3>1, <3>2
  <2> QED BY <2>2, <2>4 DEF Finished
<1> QED BY <1>3, <1>4

\* What a run writes is a miner's output.
LEMMA OutputsHeld ==
  ASSUME MiningInv, [Next]_vars, MinedStep
  PROVE  MinedHeld'
<1> SUFFICES ASSUME NEW n \in 0..MaxRuns, mined'[n] # Missing PROVE \E l \in Langs : Holds(l, mined'[n])
  BY DEF MinedHeld
<1>1. CASE mined'[n] = mined[n] BY <1>1 DEF MiningInv, MinedHeld
<1>2. CASE Dump /\ n = runs
  <2>1. mined = [m \in 0..MaxRuns |-> mined[m]] BY DEF MiningInv, Tables
  <2>2. mined'[n] = Output(run.lang, run.records, runs) BY <1>2, <2>1 DEF Dump, Output
  <2>3. run.lang \in Langs /\ run.records \in Seq(GoodRecords(run.lang)) /\ runs \in Nat
    BY MiningAssumption DEF MiningAssumption, MiningInv, CorpusInv, GoodRun, RunStates, Dates
  <2> QED BY <2>2, <2>3 DEF Holds
<1> QED BY <1>1, <1>2 DEF MinedStep

LEMMA GoodStep ==
  ASSUME MiningInv, [Next]_vars, RawStep, PrevStep, CovStep, BakedStep,
         runs' \in 0..MaxRuns,
         \A n : Written(n) => Written(n)' /\ mined'[n] = mined[n],
         \A l, n : Finished(l, n) => Finished(l, n)'
  PROVE  AllGood'
<1>1. AllGood /\ GoodRun /\ Dates /\ WrittenOnce BY DEF MiningInv, CorpusInv
<1>2. \A l, f : RawGood(l, f) => f = mined'[f.mined_at] /\ Finished(l, f.mined_at)'
  BY DEF RawGood, Finished
<1>3. \A n, l : Finished(l, n) => mined'[n] = mined[n] BY DEF Finished
<1>4. ASSUME NEW l \in Langs, NEW d \in Days, Whole(raw'[l][d]) PROVE RawGood(l, raw[l][d])'
  <2>1. CASE raw'[l][d] = raw[l][d]
    <3>1. RawGood(l, raw[l][d]) BY <1>1, <1>4, <2>1 DEF AllGood, Whole
    <3> QED BY <1>2, <2>1, <3>1 DEF RawGood
  <2>2. CASE raw'[l][d] = Torn BY <1>4, <2>2 DEF Whole
  <2>3. CASE Dump /\ l = run.lang /\ raw'[l][d] = Output(l, run.records, runs)
             /\ mined'[runs] = raw'[l][d]
    <3>1. raw'[l][d].mined_at = runs BY <2>3, Stamps
    <3>2. runs \in Nat /\ run.records \in Seq(GoodRecords(l))
      BY <1>1, <2>3, MiningAssumption DEF MiningAssumption, GoodRun, Dates
    <3>3. Holds(l, raw'[l][d]) BY <2>3, <3>2 DEF Holds
    <3>4. mined'[runs] # Missing BY <1>4, <2>3 DEF Whole
    <3>5. runs \in 0..MaxRuns BY <1>1 DEF Dates
    <3>6. Finished(l, runs)' BY <2>3, <3>3, <3>4, <3>5 DEF Finished, Written, Dump
    <3> QED BY <2>3, <3>1, <3>6 DEF RawGood, Dump
  <2> QED BY <2>1, <2>2, <2>3 DEF RawStep
<1>5. ASSUME NEW l \in Langs, NEW d \in Days, Whole(prev'[l][d]) PROVE PrevGood(l, prev[l][d])'
  <2>1. CASE prev'[l][d] = prev[l][d]
    <3>1. PrevGood(l, prev[l][d]) BY <1>1, <1>5, <2>1 DEF AllGood
    <3> QED BY <1>3, <2>1, <3>1 DEF PrevGood
  <2>2. CASE prev'[l][d] = Torn BY <1>5, <2>2 DEF Whole
  <2>3. CASE Whole(raw[l][d]) /\ prev'[l][d] = PrevalenceAnalysis(l, raw[l][d])
    <3>1. RawGood(l, raw[l][d]) BY <1>1, <2>3 DEF AllGood
    <3>2. prev'[l][d].source_mined_at = raw[l][d].mined_at BY <2>3, Stamps
    <3> QED BY <1>2, <2>3, <3>1, <3>2 DEF PrevGood
  <2> QED BY <2>1, <2>2, <2>3 DEF PrevStep
<1>6. ASSUME NEW d \in Days, Whole(cov'[d]) PROVE CovGood(cov[d])'
  <2>1. CASE cov'[d] = cov[d]
    <3>1. CovGood(cov[d]) BY <1>1, <1>6, <2>1 DEF AllGood
    <3> QED BY <1>3, <2>1, <3>1 DEF CovGood
  <2>2. CASE cov'[d] = Torn BY <1>6, <2>2 DEF Whole
  <2>3. CASE Whole(raw["go"][d]) /\ cov'[d] = CoverageAnalysis(raw["go"][d])
    <3>1. RawGood("go", raw["go"][d]) BY <1>1, <2>3 DEF AllGood, Langs
    <3>2. cov'[d].source_mined_at = raw["go"][d].mined_at BY <2>3, Stamps
    <3> QED BY <1>2, <2>3, <3>1, <3>2 DEF CovGood
  <2> QED BY <2>1, <2>2, <2>3 DEF CovStep
<1>7. ASSUME NEW l \in Langs, baked'[l] # Missing PROVE BakedGood(l, baked[l])'
  <2>1. CASE baked'[l] = baked[l]
    <3>1. BakedGood(l, baked[l]) BY <1>1, <1>7, <2>1 DEF AllGood
    <3> QED BY <1>3, <2>1, <3>1 DEF BakedGood
  <2>2. ASSUME NEW d \in Days, NEW t \in Thresholds,
               Whole(prev[l][d]), baked'[l] = Manifest(l, prev[l][d], t)
        PROVE  BakedGood(l, baked[l])'
    <3>1. PrevGood(l, prev[l][d]) BY <1>1, <2>2 DEF AllGood
    <3>2. baked'[l].mined_at = prev[l][d].source_mined_at /\ baked'[l].threshold = t
      BY <2>2, Stamps
    <3> QED BY <1>3, <2>2, <3>1, <3>2 DEF PrevGood, BakedGood
  <2> QED BY <2>1, <2>2 DEF BakedStep
<1> QED BY <1>4, <1>5, <1>6, <1>7 DEF AllGood, Whole

LEMMA MiningStep == MiningInv /\ [Next]_vars => MiningInv'
<1> SUFFICES ASSUME MiningInv, [Next]_vars PROVE MiningInv'
  OBVIOUS
<1>1. Tables /\ runs \in 0..MaxRuns /\ run.lang \in Langs
  BY DEF MiningInv, CorpusInv, Dates, GoodRun, RunStates
<1>2. Tables' /\ RawStep /\ PrevStep /\ CovStep /\ BakedStep /\ MinedStep BY <1>1, FileSteps
<1>3. /\ WrittenOnce' /\ runs' \in 0..MaxRuns
      /\ \A n : Written(n) => Written(n)' /\ mined'[n] = mined[n]
      /\ \A l, n : Finished(l, n) => Finished(l, n)'
  BY <1>2, OutputsStay
<1>4. AllGood' BY <1>2, <1>3, GoodStep
<1>5. CorpusInv' BY <1>2, CorpusStep
<1>6. MinedHeld' BY <1>2, OutputsHeld
<1> QED BY <1>2, <1>3, <1>4, <1>5, <1>6 DEF MiningInv

LEMMA MiningInvariant == Spec => []MiningInv
BY MiningInit, MiningStep, PTL DEF Spec

\* For any corpus, any manifests, any number of days and runs, torn files and
\* analyses started at any moment: what is baked follows from one finished run.
THEOREM Traceability == Spec => []Traceable
<1>1. MiningInv => Traceable
  BY DEF MiningInv, AllGood, Traceable, RawGood, PrevGood, BakedGood, Whole
<1> QED BY <1>1, MiningInvariant, PTL

\* A mined file counts for every package the Rust repositories, or the Go listings,
\* whose record lists it, whatever the miner fetched, and no more than have a manifest.
THEOREM VotesAreRepositories == Spec => []OneVotePerRepo
<1>1. ASSUME MiningInv, NEW l \in Langs, NEW d \in Days, Whole(raw[l][d])
      PROVE  OneVote(l, raw[l][d])
  <2>1. Holds(l, raw[l][d]) BY <1>1 DEF MiningInv, AllGood, RawGood, Finished
  <2> QED BY <2>1, HeldVotes
<1>2. MiningInv => OneVotePerRepo BY <1>1 DEF OneVotePerRepo, OneVote
<1> QED BY <1>2, MiningInvariant, PTL

-----------------------------------------------------------------------------
(* The prevalence analysis.                                                *)

\* A part of 1..n without gaps is 1..m.
LEMMA PrefixSize ==
  ASSUME NEW n \in Nat, NEW Q \in SUBSET (1..n), \A k \in Q : \A i \in 1..k : i \in Q
  PROVE  Cardinality(Q) \in 0..n /\ Q = 1..Cardinality(Q)
<1>1. CASE Q = {}
  <2>1. Cardinality(Q) = 0 BY <1>1, FS_EmptySet
  <2> QED BY <1>1, <2>1
<1>2. CASE Q # {}
  <2>1. Max(Q) \in Q /\ \A y \in Q : Max(Q) >= y BY <1>2, MaxFacts
  <2>2. Max(Q) \in 1..n BY <2>1
  <2>3. Q = 1..Max(Q)
    <3>1. \A k \in 1..Max(Q) : k \in Q BY <2>1
    <3>2. ASSUME NEW k \in Q PROVE k \in 1..Max(Q)
      <4>1. k <= Max(Q) BY <2>1
      <4>2. k \in 1..n OBVIOUS
      <4> QED BY <2>2, <4>1, <4>2
    <3> QED BY <3>1, <3>2
  <2>4. Cardinality(1..Max(Q)) = Max(Q) BY <2>2, IntervalSize
  <2> QED BY <2>2, <2>3, <2>4
<1> QED BY <1>1, <1>2

\* What a threshold selects of a ranking: the packages that are as prevalent.
Selects(curve, parts, repos, t) ==
  LET m == PrevalenceK(curve, repos, t) IN
  /\ m \in 0..Len(curve)
  /\ DOMAIN SubSeq(curve, 1, m) = 1..m /\ Len(SubSeq(curve, 1, m)) = m
  /\ \A k \in 1..m : k \in DOMAIN curve /\ SubSeq(curve, 1, m)[k] = curve[k]
  /\ \A x : (\E p \in ToSet(SubSeq(curve, 1, m)) : p.name = x) <=>
              Naming(parts, x) # {} /\ 100 * Cardinality(Naming(parts, x)) >= t * repos

LEMMA ThresholdSelects ==
  ASSUME NEW C, NEW curve \in Seq(C), NEW parts, RankedBy(curve, parts),
         NEW repos \in Nat, NEW t \in Nat
  PROVE  Selects(curve, parts, repos, t)
<1> DEFINE w == t * repos
           n == Len(curve)
           Q == {k \in DOMAIN curve : \A i \in 1..k : 100 * curve[i].repos_count >= w}
           m == Cardinality(Q)
           s == SubSeq(curve, 1, m)
<1>1. w \in Nat OBVIOUS
<1>2. m = PrevalenceK(curve, repos, t) BY DEF PrevalenceK
<1>3. n \in Nat /\ DOMAIN curve = 1..n OBVIOUS
<1> HIDE DEF w
<1>4. m \in 0..n /\ Q = 1..m
  <2>1. Q \in SUBSET (1..n) BY <1>3
  <2>2. \A k \in Q : \A i \in 1..k : i \in Q BY <1>3
  <2> HIDE DEF Q
  <2> QED BY <1>3, <2>1, <2>2, PrefixSize
<1>5. \A k \in DOMAIN curve : curve[k].repos_count \in Nat
  BY FS_CardinalityType DEF RankedBy
<1>6. ASSUME NEW k \in DOMAIN curve PROVE k \in 1..m <=> 100 * curve[k].repos_count >= w
  <2>1. k \in Q => 100 * curve[k].repos_count >= w BY <1>3
  <2>2. ASSUME 100 * curve[k].repos_count >= w PROVE k \in Q
    <3> SUFFICES ASSUME NEW i \in 1..k PROVE 100 * curve[i].repos_count >= w
      OBVIOUS
    <3>1. i \in DOMAIN curve /\ (i < k \/ i = k) BY <1>3
    <3>2. i < k => curve[i].repos_count >= curve[k].repos_count BY <3>1 DEF RankedBy
    <3> QED BY <1>1, <1>5, <2>2, <3>1, <3>2
  <2> HIDE DEF Q, m
  <2> QED BY <1>4, <2>1, <2>2
<1> HIDE DEF Q, m
<1>7. DOMAIN s = 1..m /\ Len(s) = m /\ \A k \in 1..m : k \in DOMAIN curve /\ s[k] = curve[k]
  BY <1>3, <1>4
<1> HIDE DEF s, n
<1>8. ASSUME NEW x
      PROVE  (\E p \in ToSet(s) : p.name = x) <=>
               Naming(parts, x) # {} /\ 100 * Cardinality(Naming(parts, x)) >= w
  <2>1. ASSUME NEW p \in ToSet(s), p.name = x
        PROVE  Naming(parts, x) # {} /\ 100 * Cardinality(Naming(parts, x)) >= w
    <3>1. PICK k \in 1..m : p = curve[k] /\ k \in DOMAIN curve BY <1>7 DEF ToSet
    <3>2. Naming(parts, x) # {} /\ curve[k].repos_count = Cardinality(Naming(parts, x))
      BY <2>1, <3>1 DEF RankedBy
    <3> QED BY <1>6, <3>1, <3>2
  <2>2. ASSUME Naming(parts, x) # {}, 100 * Cardinality(Naming(parts, x)) >= w
        PROVE  \E p \in ToSet(s) : p.name = x
    <3>1. PICK k \in DOMAIN curve : curve[k].name = x BY <2>2 DEF RankedBy
    <3>2. curve[k].repos_count = Cardinality(Naming(parts, x)) BY <3>1 DEF RankedBy
    <3>3. k \in 1..m BY <1>6, <2>2, <3>2
    <3>4. curve[k] \in ToSet(s) BY <1>7, <3>3 DEF ToSet
    <3> QED BY <3>1, <3>4
  <2> QED BY <2>1, <2>2
<1> QED BY <1>2, <1>4, <1>7, <1>8 DEF Selects, s, n, w

\* Where a curve comes from: its ranking, and the version it gives a package, which is
\* the one the miner counted or, for want of it, the one most lists give.
FirstParts(n) == [i \in DOMAIN n.direct_deps |-> FirstOfName(n.direct_deps[i])]

Entry(e) ==
  /\ e = [name |-> e.name, repos_count |-> e.repos_count, version |-> e.version]
  /\ e.name \in STRING /\ e.repos_count \in Nat

CurveOf(curve, n) ==
  /\ curve \in Seq({curve[k] : k \in DOMAIN curve})
  /\ RankedBy(curve, FirstParts(n))
  /\ \A x : Naming(FirstParts(n), x) = Naming(n.direct_deps, x)
  /\ \A k \in DOMAIN curve :
       /\ Entry(curve[k])
       /\ \/ \E p \in ToSet(n.package_counts) :
               p.name = curve[k].name /\ curve[k].version = p.most_common_version
          \/ MostBorne(FirstParts(n), curve[k].name, curve[k].version)

LEMMA CurveFacts ==
  ASSUME NEW S, \A d \in S : d.name \in STRING,
         NEW n, n.direct_deps \in Seq(Seq(S)), NEW curve, curve = PrevalenceCurve(n)
  PROVE  CurveOf(curve, n)
<1> DEFINE lists == n.direct_deps
           parts == FirstParts(n)
           votes == FlattenSeq(parts)
           names == Project(votes, "name")
           ranked == MostCommon(names)
           Known(name) == {p \in ToSet(n.package_counts) : p.name = name}
           Version(name) == IF Known(name) = {} THEN Modal(votes, name)
                            ELSE (CHOOSE p \in Known(name) : TRUE).most_common_version
<1>1. curve = [i \in DOMAIN ranked |->
                 [name |-> ranked[i], repos_count |-> Count(names, ranked[i]), version |-> Version(ranked[i])]]
  BY DEF PrevalenceCurve, FirstParts
<1> HIDE DEF lists
<1>2. lists \in Seq(Seq(S)) /\ n.direct_deps = lists BY DEF lists
<1>3. parts = [i \in DOMAIN lists |-> parts[i]] /\ \A i \in DOMAIN lists : parts[i] = FirstOfName(lists[i])
  BY <1>2 DEF FirstParts
<1> HIDE DEF parts
<1>4. \A i \in DOMAIN lists : lists[i] \in Seq(S) BY <1>2
<1>5. parts \in Seq(Seq(S)) /\ DOMAIN parts = DOMAIN lists
  <2>1. \A i \in DOMAIN lists : parts[i] \in Seq(S) BY <1>3, <1>4, FirstOfNameFacts
  <2> QED BY <1>2, <1>3, <2>1, MapFacts
<1>6. \A i \in DOMAIN parts : Distinct(parts[i]) BY <1>3, <1>4, <1>5, FirstOfNameFacts
<1>7. ASSUME NEW x PROVE Naming(parts, x) = Naming(lists, x)
  <2>1. ASSUME NEW i \in DOMAIN lists
        PROVE  (\E d \in ToSet(parts[i]) : d.name = x) <=> (\E d \in ToSet(lists[i]) : d.name = x)
    <3>1. {d.name : d \in ToSet(parts[i])} = {d.name : d \in ToSet(lists[i])}
      BY <1>3, <1>4, FirstOfNameFacts
    <3>2. \A T : (\E d \in T : d.name = x) <=> x \in {d.name : d \in T} OBVIOUS
    <3> QED BY <3>1, <3>2
  <2> QED BY <1>5, <2>1 DEF Naming
<1>8. votes \in Seq(S) /\ names \in Seq(STRING) /\ Tallied(names, parts) BY <1>5, <1>6, VotesCounted
<1>10. ranked \in Seq(STRING) /\ ToSet(ranked) = ToSet(names) BY <1>8, MostCommonFacts
<1> HIDE DEF votes, names
<1>11. /\ curve = [k \in DOMAIN ranked |-> curve[k]]
       /\ \A k \in DOMAIN ranked : /\ curve[k].name = ranked[k]
                                   /\ curve[k].repos_count = Count(names, ranked[k])
                                   /\ curve[k].version = Version(ranked[k])
  <2> HIDE DEF Version, ranked
  <2> QED BY <1>1
<1>16. \A k \in DOMAIN curve :
         curve[k] = [name |-> curve[k].name, repos_count |-> curve[k].repos_count, version |-> curve[k].version]
  <2> HIDE DEF Version, ranked
  <2> QED BY <1>1
<1> HIDE DEF Version
<1>12. curve \in Seq({curve[k] : k \in DOMAIN curve}) /\ DOMAIN curve = DOMAIN ranked
  <2> HIDE DEF ranked
  <2>1. DOMAIN curve = DOMAIN ranked BY <1>11
  <2>2. \A k \in DOMAIN ranked : curve[k] \in {curve[j] : j \in DOMAIN curve} BY <2>1
  <2> QED BY <1>10, <1>11, <2>1, <2>2, MapFacts
<1>13. RankedBy(curve, parts)
  <2>1. names = Project(FlattenSeq(parts), "name") BY DEF votes, names
  <2> QED BY <1>5, <1>6, <1>11, <1>12, <2>1, Tally
<1>14. ASSUME NEW k \in DOMAIN curve
       PROVE  \/ \E p \in ToSet(n.package_counts) :
                   p.name = curve[k].name /\ curve[k].version = p.most_common_version
              \/ MostBorne(parts, curve[k].name, curve[k].version)
  <2> DEFINE x == ranked[k]
  <2>1. curve[k].name = x /\ curve[k].version = Version(x) BY <1>11, <1>12
  <2>2. x \in ToSet(ranked) BY <1>12 DEF ToSet
  <2>3. x \in ToSet(names) BY <1>10, <2>2
  <2> HIDE DEF x
  <2>4. CASE Known(x) = {}
    <3>1. Naming(parts, x) # {} BY <1>8, <2>3 DEF Tallied
    <3>2. MostBorne(parts, x, Modal(FlattenSeq(parts), x)) BY <1>5, <1>6, <3>1, ModalIsMostBorne
    <3>3. Version(x) = Modal(votes, x) BY <2>4 DEF Version
    <3> QED BY <2>1, <3>2, <3>3 DEF votes
  <2>5. CASE Known(x) # {}
    <3> DEFINE p == CHOOSE q \in Known(x) : TRUE
    <3>1. p \in Known(x) BY <2>5
    <3>2. Version(x) = p.most_common_version BY <2>5 DEF Version
    <3> HIDE DEF p
    <3> QED BY <2>1, <3>1, <3>2
  <2> QED BY <2>4, <2>5
<1>15. ASSUME NEW k \in DOMAIN curve PROVE Entry(curve[k])
  <2>1. /\ curve[k].name = ranked[k] /\ ranked[k] \in ToSet(ranked)
        /\ curve[k].repos_count = Count(names, ranked[k])
    <3>1. k \in DOMAIN ranked BY <1>12
    <3>2. ranked[k] \in ToSet(ranked)
      <4> HIDE DEF ranked
      <4> QED BY <3>1 DEF ToSet
    <3> QED BY <1>11, <3>1, <3>2
  <2>2. curve[k].name \in STRING
    <3>1. \A t \in Seq(STRING) : ToSet(t) \subseteq STRING BY DEF ToSet
    <3> QED BY <1>10, <2>1, <3>1, Zenon
  <2>3. curve[k].repos_count \in Nat BY <1>8, <2>1, CountFacts
  <2> QED BY <1>16, <2>2, <2>3 DEF Entry
<1> QED BY <1>2, <1>7, <1>12, <1>13, <1>14, <1>15 DEF CurveOf, parts

\* A mined file as the prevalence analysis sees it.
NamedDeps(l) == [name : STRING, version : Versions(l)]

Normal(n, l, content) ==
  /\ n.direct_deps \in Seq(Seq(NamedDeps(l))) /\ DOMAIN n.direct_deps = DOMAIN Records(l, content)
  /\ \A x, w : Bearing(FirstParts(n), x, w) = Givers(l, content, x, w)
  /\ \A x : Naming(n.direct_deps, x) = Users(l, content, x)
  /\ n.repos_with_manifest = Cardinality(WithManifest(l, content))
  /\ IsFiniteSet(WithManifest(l, content))
  /\ \A p \in ToSet(n.package_counts) : MostBorne(FirstParts(n), p.name, p.most_common_version)
  /\ \A x : x \in Names(l, content) <=> Users(l, content, x) # {}
  /\ \A i \in DOMAIN Records(l, content) :
       \A e \in ToSet(Records(l, content)[i].direct_deps) : e.version \in Versions(l)

\* What the first entry of a name says.
Says(s, x, w) ==
  \E j \in DOMAIN s : /\ s[j].name = x /\ s[j].version = w
                    /\ \A h \in 1..(j - 1) : s[h].name # x

LEMMA FirstBearing ==
  ASSUME NEW S, NEW s \in Seq(S), NEW x, NEW w
  PROVE  (\E d \in ToSet(FirstOfName(s)) : d.name = x /\ d.version = w) <=> Says(s, x, w)
<1> DEFINE I == {i \in DOMAIN s : \A h \in 1..(i - 1) : s[h].name # s[i].name}
<1>1. ToSet(FirstOfName(s)) = {s[j] : j \in I} BY FirstsOfName
<1>2. (\E d \in ToSet(FirstOfName(s)) : d.name = x /\ d.version = w) <=>
        \E j \in I : s[j].name = x /\ s[j].version = w
  <2> HIDE DEF I
  <2> QED BY <1>1
<1>3. \A j : j \in I <=> j \in DOMAIN s /\ \A h \in 1..(j - 1) : s[h].name # s[j].name OBVIOUS
<1> HIDE DEF I
<1> QED BY <1>2, <1>3 DEF Says

LEMMA GoNormal ==
  ASSUME NEW records \in Seq(GoodRecords("go")), NEW k \in Nat, NEW c, c = GoRaw(records, k)
  PROVE  Normal(Normalise("go", c), "go", c)
<1> DEFINE n == Normalise("go", c)
<1>1. GoFileOf(c, records, k) BY GoRawFacts
<1>2. c.repos = records /\ c.repos_with_gomod = Cardinality({i \in DOMAIN records : records[i].has_gomod})
  BY <1>1 DEF GoFileOf
<1>3. /\ Records("go", c) = records
      /\ \A x : Users("go", c, x) = Naming(Parts(records), x)
      /\ \A x : x \in Names("go", c) <=> Naming(Parts(records), x) # {}
      /\ WithManifest("go", c) = {i \in DOMAIN records : records[i].has_gomod}
      /\ IsFiniteSet(WithManifest("go", c))
  BY GoReading
<1>4. /\ n.direct_deps = Parts(records) /\ n.package_counts = c.package_counts
      /\ n.repos_with_manifest = c.repos_with_gomod
  <2>1. n = [repos_attempted |-> c.repos_attempted, repos_with_manifest |-> c.repos_with_gomod,
             direct_deps |-> Project(c.repos, "direct_deps"), package_counts |-> c.package_counts]
    BY DEF Normalise
  <2>2. Project(c.repos, "direct_deps") = Parts(records) BY <1>2 DEF Project, Parts
  <2> HIDE DEF n
  <2> QED BY <2>1, <2>2
<1>5. NamedDeps("go") = GoDeps BY DEF NamedDeps, Versions, GoDeps
<1>6. /\ Parts(records) \in Seq(Seq(GoDeps)) /\ DOMAIN Parts(records) = DOMAIN records
      /\ \A i \in DOMAIN records : Parts(records)[i] = records[i].direct_deps
      /\ \A i \in DOMAIN records : records[i].direct_deps \in Seq(GoDeps)
  BY GoRecordFields
<1> HIDE DEF n
<1>7. /\ DOMAIN FirstParts(n) = DOMAIN records
      /\ \A i \in DOMAIN records : FirstParts(n)[i] = FirstOfName(records[i].direct_deps)
  BY <1>4, <1>6 DEF FirstParts
<1>8. \A x, w : Bearing(FirstParts(n), x, w) = Bearing(Parts(records), x, w)
  <2>1. ASSUME NEW i \in DOMAIN records PROVE ToSet(FirstParts(n)[i]) = ToSet(Parts(records)[i])
    <3>1. records[i].direct_deps \in Seq(GoDeps) /\ Distinct(records[i].direct_deps) BY GoRecordFields
    <3>2. ToSet(FirstOfName(records[i].direct_deps)) = ToSet(records[i].direct_deps)
      BY <3>1, DistinctStays
    <3> QED BY <1>6, <1>7, <3>2
  <2> QED BY <1>6, <1>7, <2>1 DEF Bearing
<1>9. \A e : NameOf("go", e) = e.name BY DEF NameOf
<1>10. n.repos_with_manifest = Cardinality(WithManifest("go", c)) BY <1>2, <1>3, <1>4
<1>11. Normal(n, "go", c)
  <2>3. n.direct_deps \in Seq(Seq(NamedDeps("go"))) /\ DOMAIN n.direct_deps = DOMAIN Records("go", c)
    BY <1>3, <1>4, <1>5, <1>6
  <2>4. ASSUME NEW x, NEW w PROVE Bearing(FirstParts(n), x, w) = Givers("go", c, x, w)
    <3>1. ASSUME NEW i \in DOMAIN records
          PROVE  (\E d \in ToSet(FirstParts(n)[i]) : d.name = x /\ d.version = w) <=>
                   Says(records[i].direct_deps, x, w)
      <4>1. records[i].direct_deps \in Seq(GoDeps) BY <1>6
      <4>2. FirstParts(n)[i] = FirstOfName(records[i].direct_deps) BY <1>7
      <4> QED BY <4>1, <4>2, FirstBearing
    <3>2. Givers("go", c, x, w) = {i \in DOMAIN records : Says(records[i].direct_deps, x, w)}
      BY <1>3, <1>9 DEF Givers, Says
    <3> QED BY <1>7, <3>1, <3>2 DEF Bearing
  <2>5. ASSUME NEW x PROVE Naming(n.direct_deps, x) = Users("go", c, x) BY <1>3, <1>4
  <2>6. n.repos_with_manifest = Cardinality(WithManifest("go", c)) /\ IsFiniteSet(WithManifest("go", c))
    BY <1>3, <1>10
  <2>7. ASSUME NEW p \in ToSet(n.package_counts)
        PROVE  MostBorne(FirstParts(n), p.name, p.most_common_version)
    <3>1. MostBorne(Parts(records), p.name, p.most_common_version) BY <1>1, <1>4 DEF GoFileOf
    <3> QED BY <1>8, <3>1 DEF MostBorne
  <2>8. ASSUME NEW x PROVE x \in Names("go", c) <=> Users("go", c, x) # {} BY <1>3
  <2>9. ASSUME NEW i \in DOMAIN Records("go", c), NEW e \in ToSet(Records("go", c)[i].direct_deps)
        PROVE  e.version \in Versions("go")
    <3>1. e \in GoDeps BY <1>3, <1>6 DEF ToSet
    <3> QED BY <3>1 DEF GoDeps, Versions
  <2> QED BY <2>3, <2>4, <2>5, <2>6, <2>7, <2>8, <2>9 DEF Normal
<1> QED BY <1>11 DEF n

LEMMA RustNormal ==
  ASSUME NEW records \in Seq(GoodRecords("rust")), NEW k \in Nat, NEW c, c = RustRaw(records, k)
  PROVE  Normal(Normalise("rust", c), "rust", c)
<1> DEFINE n == Normalise("rust", c)
           Named(deps) == [j \in DOMAIN deps |-> [name |-> deps[j].crate, version |-> deps[j].version]]
           lists == [i \in DOMAIN records |-> Named(records[i].direct_deps)]
           D == NamedDeps("rust")
<1>1. RustFileOf(c, records, k) BY RustRawFacts
<1>2. /\ c.raw = records
      /\ c.repos_with_cargo_toml = Cardinality({i \in DOMAIN records : records[i].cargo_toml_found})
  BY <1>1 DEF RustFileOf
<1>3. Records("rust", c) = records BY RustReading
<1>4. \A x : Users("rust", c, x) = Crating(records, x) BY RustReading
<1>5. Names("rust", c) = {x \in STRING : Crating(records, x) # {}} BY RustReading
<1>6. WithManifest("rust", c) = {i \in DOMAIN records : records[i].cargo_toml_found}
      /\ IsFiniteSet(WithManifest("rust", c))
  BY RustReading
<1>7. /\ n.direct_deps = lists /\ n.package_counts = <<>>
      /\ n.repos_with_manifest = c.repos_with_cargo_toml
  <2>1. n = [repos_attempted |-> c.corpus_size, repos_with_manifest |-> c.repos_with_cargo_toml,
             direct_deps |-> lists, package_counts |-> <<>>]
    BY <1>2 DEF Normalise
  <2> HIDE DEF n, lists
  <2> QED BY <2>1
<1>8. \A i \in DOMAIN records : records[i].direct_deps \in Seq(CrateDeps) BY RustRecordFields
<1>9. \A e \in CrateDeps : [name |-> e.crate, version |-> e.version] \in D
  BY DEF CrateDeps, NamedDeps, Versions
<1>10. \A d \in D : d = [name |-> d.name, version |-> d.version] BY DEF NamedDeps
<1> HIDE DEF n, D
<1>11. ASSUME NEW i \in DOMAIN records
       PROVE  /\ lists[i] \in Seq(D) /\ DOMAIN lists[i] = DOMAIN records[i].direct_deps
              /\ \A j \in DOMAIN lists[i] : /\ lists[i][j].name = records[i].direct_deps[j].crate
                                            /\ lists[i][j].version = records[i].direct_deps[j].version
              /\ \A d : d \in ToSet(lists[i]) <=>
                   d \in D /\ \E e \in ToSet(records[i].direct_deps) : d.name = e.crate /\ d.version = e.version
  <2> DEFINE deps == records[i].direct_deps
             s == Named(deps)
  <2>1. lists[i] = s OBVIOUS
  <2>2. deps \in Seq(CrateDeps) BY <1>8
  <2> HIDE DEF deps, lists
  <2>3. s = [j \in DOMAIN deps |-> s[j]]
        /\ \A j \in DOMAIN deps : s[j] = [name |-> deps[j].crate, version |-> deps[j].version]
    OBVIOUS
  <2>4. \A j \in DOMAIN deps : deps[j] \in CrateDeps BY <2>2
  <2> HIDE DEF s
  <2>5. \A j \in DOMAIN deps : s[j] \in D BY <1>9, <2>3, <2>4
  <2>6. s \in Seq(D) /\ DOMAIN s = DOMAIN deps /\ ToSet(s) = {s[j] : j \in DOMAIN deps}
    BY <2>2, <2>3, <2>5, MapFacts
  <2>7. ASSUME NEW d, d \in ToSet(s)
        PROVE  d \in D /\ \E e \in ToSet(deps) : d.name = e.crate /\ d.version = e.version
    <3>1. PICK j \in DOMAIN deps : d = s[j] BY <2>6, <2>7
    <3>2. deps[j] \in ToSet(deps) BY DEF ToSet
    <3>3. d.name = deps[j].crate /\ d.version = deps[j].version BY <2>3, <3>1
    <3> QED BY <2>5, <3>1, <3>2, <3>3
  <2>8. ASSUME NEW d \in D, NEW e \in ToSet(deps), d.name = e.crate, d.version = e.version
        PROVE  d \in ToSet(s)
    <3>1. PICK j \in DOMAIN deps : e = deps[j] BY DEF ToSet
    <3>2. s[j] = d BY <1>10, <2>3, <2>8, <3>1
    <3> QED BY <2>6, <3>1, <3>2
  <2>9. \A j \in DOMAIN s : s[j].name = deps[j].crate /\ s[j].version = deps[j].version
    BY <2>3, <2>6
  <2> QED BY <2>1, <2>6, <2>7, <2>8, <2>9 DEF deps
<1>12. lists \in Seq(Seq(D)) /\ DOMAIN lists = DOMAIN records
  <2>1. lists = [i \in DOMAIN records |-> lists[i]] OBVIOUS
  <2> HIDE DEF lists
  <2>2. \A i \in DOMAIN records : lists[i] \in Seq(D) BY <1>11
  <2> QED BY <2>1, <2>2, MapFacts
<1> HIDE DEF lists
<1>13. ASSUME NEW x PROVE Naming(lists, x) = Crating(records, x)
  <2>1. ASSUME NEW i \in DOMAIN records
        PROVE  (\E d \in ToSet(lists[i]) : d.name = x) <=>
               (\E e \in ToSet(records[i].direct_deps) : e.crate = x)
    <3>1. ASSUME NEW e \in ToSet(records[i].direct_deps), e.crate = x
          PROVE  \E d \in ToSet(lists[i]) : d.name = x
      <4> DEFINE d == [name |-> e.crate, version |-> e.version]
      <4>1. e \in CrateDeps BY <1>8 DEF ToSet
      <4>2. d \in D /\ d.name = e.crate /\ d.version = e.version BY <1>9, <4>1
      <4> HIDE DEF d
      <4>3. d \in ToSet(lists[i]) BY <1>11, <4>2
      <4> QED BY <3>1, <4>2, <4>3
    <3>2. ASSUME NEW d \in ToSet(lists[i]), d.name = x
          PROVE  \E e \in ToSet(records[i].direct_deps) : e.crate = x
      <4>1. \E e \in ToSet(records[i].direct_deps) : d.name = e.crate /\ d.version = e.version BY <1>11
      <4> QED BY <3>2, <4>1
    <3> QED BY <3>1, <3>2
  <2> QED BY <1>12, <2>1 DEF Naming, Crating
<1>14. ToSet(n.package_counts) = {} BY <1>7 DEF ToSet
<1>15. \A e : NameOf("rust", e) = e.crate BY DEF NameOf
<1>16. \A x : x \in Names("rust", c) <=> Crating(records, x) # {}
  <2> SUFFICES ASSUME NEW x, Crating(records, x) # {} PROVE x \in STRING
    BY <1>5
  <2>1. PICK i \in DOMAIN records : \E e \in ToSet(records[i].direct_deps) : e.crate = x BY DEF Crating
  <2>2. \A e \in ToSet(records[i].direct_deps) : e \in CrateDeps BY <1>8 DEF ToSet
  <2> QED BY <2>1, <2>2 DEF CrateDeps
<1>17. Normal(n, "rust", c)
  <2>1. n.direct_deps \in Seq(Seq(NamedDeps("rust"))) BY <1>7, <1>12 DEF D
  <2>3. n.direct_deps \in Seq(Seq(NamedDeps("rust"))) /\ DOMAIN n.direct_deps = DOMAIN Records("rust", c)
    BY <1>3, <1>7, <1>12, <2>1
  <2>4. ASSUME NEW x, NEW w PROVE Bearing(FirstParts(n), x, w) = Givers("rust", c, x, w)
    <3>1. /\ DOMAIN FirstParts(n) = DOMAIN records
          /\ \A i \in DOMAIN records : FirstParts(n)[i] = FirstOfName(lists[i])
      BY <1>7, <1>12 DEF FirstParts
    <3>2. ASSUME NEW i \in DOMAIN records
          PROVE  (\E d \in ToSet(FirstParts(n)[i]) : d.name = x /\ d.version = w) <=>
                   \E j \in DOMAIN records[i].direct_deps :
                     /\ records[i].direct_deps[j].crate = x /\ records[i].direct_deps[j].version = w
                     /\ \A h \in 1..(j - 1) : records[i].direct_deps[h].crate # x
      <4> DEFINE s == lists[i]
                 deps == records[i].direct_deps
      <4>1. s \in Seq(D) /\ DOMAIN s = DOMAIN deps BY <1>11
      <4>2. \A j \in DOMAIN s : s[j].name = deps[j].crate /\ s[j].version = deps[j].version BY <1>11
      <4>3. FirstParts(n)[i] = FirstOfName(s) BY <3>1
      <4> HIDE DEF s, deps
      <4>4. (\E d \in ToSet(FirstOfName(s)) : d.name = x /\ d.version = w) <=> Says(s, x, w)
        BY <4>1, FirstBearing
      <4>5. ASSUME NEW j \in DOMAIN s
            PROVE  (\A h \in 1..(j - 1) : s[h].name # x) <=> (\A h \in 1..(j - 1) : deps[h].crate # x)
        <5>1. DOMAIN s = 1..Len(s) /\ Len(s) \in Nat BY <4>1
        <5>2. \A h \in 1..(j - 1) : h \in DOMAIN s BY <5>1
        <5> QED BY <4>2, <5>2
      <4>6. Says(s, x, w) <=>
              \E j \in DOMAIN deps : /\ deps[j].crate = x /\ deps[j].version = w
                                   /\ \A h \in 1..(j - 1) : deps[h].crate # x
        BY <4>1, <4>2, <4>5 DEF Says
      <4> QED BY <4>3, <4>4, <4>6 DEF deps
    <3>3. Givers("rust", c, x, w) =
            {i \in DOMAIN records : \E j \in DOMAIN records[i].direct_deps :
               /\ records[i].direct_deps[j].crate = x /\ records[i].direct_deps[j].version = w
               /\ \A h \in 1..(j - 1) : records[i].direct_deps[h].crate # x}
      BY <1>3, <1>15 DEF Givers
    <3> QED BY <3>1, <3>2, <3>3 DEF Bearing
  <2>5. ASSUME NEW x PROVE Naming(n.direct_deps, x) = Users("rust", c, x) BY <1>4, <1>7, <1>13
  <2>6. n.repos_with_manifest = Cardinality(WithManifest("rust", c)) /\ IsFiniteSet(WithManifest("rust", c))
    BY <1>2, <1>6, <1>7
  <2>7. ASSUME NEW p \in ToSet(n.package_counts)
        PROVE  MostBorne(FirstParts(n), p.name, p.most_common_version)
    BY <1>14
  <2>8. ASSUME NEW x PROVE x \in Names("rust", c) <=> Users("rust", c, x) # {} BY <1>4, <1>16
  <2>9. ASSUME NEW i \in DOMAIN Records("rust", c), NEW e \in ToSet(Records("rust", c)[i].direct_deps)
        PROVE  e.version \in Versions("rust")
    <3>1. e \in CrateDeps BY <1>3, <1>8 DEF ToSet
    <3> QED BY <3>1 DEF CrateDeps, Versions
  <2> QED BY <2>3, <2>4, <2>5, <2>6, <2>7, <2>8, <2>9 DEF Normal
<1> QED BY <1>17 DEF n

LEMMA HeldIsNormal ==
  ASSUME NEW l \in Langs, NEW content, Holds(l, content)
  PROVE  Normal(Normalise(l, content), l, content)
<1>1. PICK records \in Seq(GoodRecords(l)), k \in Nat : content = Output(l, records, k) BY DEF Holds
<1>2. CASE l = "go" BY <1>1, <1>2, GoNormal DEF Output
<1>3. CASE l = "rust" BY <1>1, <1>3, RustNormal DEF Output
<1> QED BY <1>2, <1>3 DEF Langs

\* What a threshold selects of a mined file: every package that is as prevalent, once,
\* with a version that no other is more common than.
SelectionOf(s, l, content, t) ==
  /\ Len(s) \in Nat /\ DOMAIN s = 1..Len(s)
  /\ \A j, k \in DOMAIN s : s[j].name = s[k].name => j = k
  /\ s \in Seq([name : STRING, repos_count : Nat, version : Versions(l)])
  /\ \A x : (\E p \in ToSet(s) : p.name = x) <=> x \in Prevalent(l, content, t)
  /\ \A p \in ToSet(s) : p.version \in Versions(l) /\ p.version \in Commonest(l, content, p.name)

LEMMA AnalysisSelects ==
  ASSUME NEW l \in Langs, NEW content, Holds(l, content), NEW t \in Thresholds
  PROVE  SelectionOf(PrevalenceAnalysis(l, content).thresholds[t], l, content, t)
<1> DEFINE n == Normalise(l, content)
           repos == n.repos_with_manifest
           curve == PrevalenceCurve(n)
           parts == FirstParts(n)
           m == PrevalenceK(curve, repos, t)
           s == SubSeq(curve, 1, m)
<1>1. PrevalenceAnalysis(l, content).thresholds[t] = s BY DEF PrevalenceAnalysis
<1>2. Normal(n, l, content) BY HeldIsNormal
<1> HIDE DEF n
<1>3. CurveOf(curve, n)
  <2>1. \A d \in NamedDeps(l) : d.name \in STRING BY DEF NamedDeps
  <2>2. n.direct_deps \in Seq(Seq(NamedDeps(l))) BY <1>2 DEF Normal
  <2> HIDE DEF curve
  <2>3. curve = PrevalenceCurve(n) BY DEF curve
  <2> QED BY <2>1, <2>2, <2>3, CurveFacts
<1>4. repos = Cardinality(WithManifest(l, content)) /\ repos \in Nat
  BY <1>2, FS_CardinalityType DEF Normal
<1>5. t \in Nat BY MiningAssumption DEF MiningAssumption
<1> HIDE DEF curve, repos, parts
<1>6. RankedBy(curve, parts) /\ curve \in Seq({curve[k] : k \in DOMAIN curve})
  BY <1>3 DEF CurveOf, parts
<1>7. Selects(curve, parts, repos, t) BY <1>4, <1>5, <1>6, ThresholdSelects
<1>8. /\ m \in 0..Len(curve) /\ DOMAIN s = 1..m /\ Len(s) = m
      /\ \A k \in 1..m : k \in DOMAIN curve /\ s[k] = curve[k]
      /\ \A x : (\E p \in ToSet(s) : p.name = x) <=>
                  Naming(parts, x) # {} /\ 100 * Cardinality(Naming(parts, x)) >= t * repos
  BY <1>7 DEF Selects
<1> HIDE DEF m, s
<1>9. m \in Nat BY <1>6, <1>8 DEF RankedBy
<1>10. \A x : Naming(parts, x) = Users(l, content, x) /\ (x \in Names(l, content) <=> Users(l, content, x) # {})
  BY <1>2, <1>3 DEF CurveOf, Normal, parts
<1>11. \A j, k \in DOMAIN s : s[j].name = s[k].name => j = k BY <1>6, <1>8 DEF RankedBy
<1>12. ASSUME NEW k \in DOMAIN curve
       PROVE  /\ curve[k].version \in Versions(l)
              /\ curve[k].version \in Commonest(l, content, curve[k].name)
  <2> DEFINE x == curve[k].name
             v == curve[k].version
  <2>1. MostBorne(parts, x, v)
    <3>1. CASE \E q \in ToSet(n.package_counts) : q.name = x /\ v = q.most_common_version
      BY <1>2, <3>1 DEF Normal, parts
    <3>2. CASE MostBorne(FirstParts(n), x, v) BY <3>2 DEF parts
    <3> QED BY <1>3, <3>1, <3>2 DEF CurveOf
  <2> HIDE DEF x, v
  <2>2. \A w : Bearing(parts, x, w) = Givers(l, content, x, w) BY <1>2 DEF Normal, parts
  <2>3. /\ Givers(l, content, x, v) # {}
        /\ \A w : Cardinality(Givers(l, content, x, w)) <= Cardinality(Givers(l, content, x, v))
    BY <2>1, <2>2 DEF MostBorne
  <2>4. PICK i \in DOMAIN Records(l, content) : \E e \in ToSet(Records(l, content)[i].direct_deps) :
          NameOf(l, e) = x /\ e.version = v
    BY <2>3 DEF Givers, ToSet
  <2>5. v \in Versions(l) BY <1>2, <2>4 DEF Normal
  <2>6. v \in Commonest(l, content, x)
    <3> DEFINE U == UNION {ToSet(rec.direct_deps) : rec \in ToSet(Records(l, content))}
               given == {e.version : e \in {d \in U : NameOf(l, d) = x}}
    <3>1. Commonest(l, content, x) =
            {y \in given : \A w \in given :
               Cardinality(Givers(l, content, x, w)) <= Cardinality(Givers(l, content, x, y))}
      BY DEF Commonest
    <3>2. Records(l, content)[i] \in ToSet(Records(l, content)) BY DEF ToSet
    <3>3. v \in given BY <2>4, <3>2
    <3> HIDE DEF given
    <3> QED BY <2>3, <3>1, <3>3
  <2> QED BY <2>5, <2>6 DEF x, v
<1>13. \A p \in ToSet(s) : p.version \in Versions(l) /\ p.version \in Commonest(l, content, p.name)
  BY <1>8, <1>12 DEF ToSet
<1>14. s \in Seq([name : STRING, repos_count : Nat, version : Versions(l)])
  <2> DEFINE E == [name : STRING, repos_count : Nat, version : Versions(l)]
  <2>1. ASSUME NEW k \in DOMAIN curve PROVE curve[k] \in E
    <3> DEFINE a == curve[k].name
               b == curve[k].repos_count
               v == curve[k].version
    <3>1. curve[k] = [name |-> a, repos_count |-> b, version |-> v] /\ a \in STRING /\ b \in Nat
      BY <1>3 DEF CurveOf, Entry
    <3>2. v \in Versions(l) BY <1>12
    <3> HIDE DEF a, b, v
    <3> QED BY <3>1, <3>2
  <2> HIDE DEF E
  <2>2. \A k \in 1..m : s[k] \in E BY <1>8, <2>1
  <2>3. s = [k \in 1..m |-> s[k]]
    <3>1. s \in Seq({curve[k] : k \in DOMAIN curve}) BY <1>6, <1>8, <1>9 DEF s
    <3> QED BY <1>8, <3>1
  <2>4. s \in Seq(E) BY <1>9, <2>2, <2>3
  <2> QED BY <2>4 DEF E
<1>15. \A x : (\E p \in ToSet(s) : p.name = x) <=> x \in Prevalent(l, content, t)
  BY <1>4, <1>8, <1>10 DEF Prevalent
<1>16. SelectionOf(s, l, content, t)
  BY <1>8, <1>9, <1>11, <1>13, <1>14, <1>15 DEF SelectionOf
<1> QED BY <1>1, <1>16

\* An analysis selects exactly the packages that the share of repositories with a
\* manifest calls for, whatever the records, the versions and the order of ties.
THEOREM SelectionByPrevalence == Spec => []SelectionIsExact
<1>1. ASSUME MiningInv, NEW l \in Langs, NEW d \in Days, Whole(prev[l][d])
      PROVE  LET content == mined[prev[l][d].source_mined_at]
                 selected(t) == {p.name : p \in ToSet(prev[l][d].thresholds[t])}
             IN \A t \in Thresholds :
                  /\ selected(t) = Prevalent(l, content, t)
                  /\ \A s \in Thresholds : s <= t => selected(t) \subseteq selected(s)
  <2> DEFINE content == mined[prev[l][d].source_mined_at]
             selected(t) == {p.name : p \in ToSet(prev[l][d].thresholds[t])}
             W == Cardinality(WithManifest(l, content))
             C(x) == Cardinality(Users(l, content, x))
  <2>1. PrevGood(l, prev[l][d]) BY <1>1 DEF MiningInv, AllGood
  <2>2. Holds(l, content) /\ prev[l][d] = PrevalenceAnalysis(l, content)
    BY <2>1 DEF PrevGood, Finished
  <2> HIDE DEF content
  <2>3. ASSUME NEW t \in Thresholds
        PROVE  /\ selected(t) = Prevalent(l, content, t)
               /\ selected(t) = {x \in Names(l, content) : 100 * C(x) >= t * W}
    <3> DEFINE s == prev[l][d].thresholds[t]
    <3>1. SelectionOf(s, l, content, t) BY <2>2, AnalysisSelects
    <3> HIDE DEF s
    <3>2. \A x : (\E p \in ToSet(s) : p.name = x) <=> x \in Prevalent(l, content, t)
      BY <3>1 DEF SelectionOf
    <3>4. Prevalent(l, content, t) = {x \in Names(l, content) : 100 * C(x) >= t * W} BY DEF Prevalent
    <3>3. selected(t) = {p.name : p \in ToSet(s)} BY DEF s
    <3> HIDE DEF selected, C, W
    <3> QED BY <3>2, <3>3, <3>4
  <2>4. W \in Nat
    <3>1. IsFiniteSet(WithManifest(l, content)) BY <2>2, HeldIsNormal DEF Normal
    <3> QED BY <3>1, FS_CardinalityType
  <2>5. ASSUME NEW x \in Names(l, content) PROVE C(x) \in Nat
    <3>1. IsFiniteSet(Users(l, content, x))
      <4>1. PICK records \in Seq(GoodRecords(l)), k \in Nat : content = Output(l, records, k) BY <2>2 DEF Holds
      <4>2. CASE l = "go"
        <5>1. Users("go", content, x) \subseteq WithManifest("go", content) /\ IsFiniteSet(WithManifest("go", content))
          BY <4>1, <4>2, GoReading DEF Output
        <5> QED BY <4>2, <5>1, FS_Subset
      <4>3. CASE l = "rust"
        <5>1. Users("rust", content, x) \subseteq WithManifest("rust", content) /\ IsFiniteSet(WithManifest("rust", content))
          BY <4>1, <4>3, RustReading DEF Output
        <5> QED BY <4>3, <5>1, FS_Subset
      <4> QED BY <4>2, <4>3 DEF Langs
    <3> QED BY <3>1, FS_CardinalityType
  <2>6. ASSUME NEW t \in Thresholds, NEW s \in Thresholds, s <= t PROVE selected(t) \subseteq selected(s)
    <3>1. s \in Nat /\ t \in Nat BY MiningAssumption DEF MiningAssumption
    <3> HIDE DEF W, C, selected
    <3>2. s * W <= t * W /\ s * W \in Int /\ t * W \in Int
      <4>1. t * W = s * W + (t - s) * W BY <2>4, <3>1
      <4>2. (t - s) * W >= 0 /\ s * W \in Int /\ (t - s) * W \in Int BY <2>4, <2>6, <3>1
      <4> QED BY <4>1, <4>2
    <3>3. \A x \in Names(l, content) : 100 * C(x) >= t * W => 100 * C(x) >= s * W
      BY <2>5, <3>2
    <3> QED BY <2>3, <3>3
  <2> QED BY <2>3, <2>6 DEF content
<1>2. MiningInv => SelectionIsExact BY <1>1 DEF SelectionIsExact
<1> QED BY <1>2, MiningInvariant, PTL

-----------------------------------------------------------------------------
(* Coverage: how often some packages are named, in all.                    *)

\* Which lists name which of some packages, and how often in all.
Pairs(parts, S) == {p \in (DOMAIN parts) \X S : p[1] \in Naming(parts, p[2])}
Weight(parts, S) == Cardinality(Pairs(parts, S))

LEMMA WeightFacts ==
  ASSUME NEW R, NEW parts \in Seq(R)
  PROVE  /\ \A S : IsFiniteSet(S) => IsFiniteSet(Pairs(parts, S)) /\ Weight(parts, S) \in Nat
         /\ Weight(parts, {}) = 0
         /\ \A x : /\ Weight(parts, {x}) = Cardinality(Naming(parts, x))
                   /\ Cardinality(Naming(parts, x)) \in Nat
         /\ \A S, T : IsFiniteSet(S) /\ IsFiniteSet(T) /\ S \cap T = {} =>
              Weight(parts, S \cup T) = Weight(parts, S) + Weight(parts, T)
<1> DEFINE D == DOMAIN parts
<1>1. IsFiniteSet(D)
  <2>1. D = 1..Len(parts) /\ Len(parts) \in Nat OBVIOUS
  <2> HIDE DEF D
  <2> QED BY <2>1, IntervalSize
<1>2. \A S : Pairs(parts, S) = {p \in D \X S : p[1] \in Naming(parts, p[2])} BY DEF Pairs
<1>3. \A x : Naming(parts, x) \subseteq D BY DEF Naming
<1> HIDE DEF D
<1>4. ASSUME NEW S, IsFiniteSet(S) PROVE IsFiniteSet(Pairs(parts, S)) /\ Weight(parts, S) \in Nat
  <2>1. IsFiniteSet(D \X S) BY <1>1, <1>4, FS_Product
  <2>2. Pairs(parts, S) \subseteq D \X S BY <1>2
  <2>3. IsFiniteSet(Pairs(parts, S)) BY <2>1, <2>2, FS_Subset
  <2> QED BY <2>3, FS_CardinalityType DEF Weight
<1>5. Weight(parts, {}) = 0
  <2>1. Pairs(parts, {}) = {} BY <1>2
  <2> QED BY <2>1, FS_EmptySet DEF Weight
<1>6. ASSUME NEW x
      PROVE  /\ Weight(parts, {x}) = Cardinality(Naming(parts, x))
             /\ Cardinality(Naming(parts, x)) \in Nat
  <2> DEFINE N == Naming(parts, x)
             P == Pairs(parts, {x})
             h == [i \in N |-> <<i, x>>]
  <2>1. IsFiniteSet(N) BY <1>1, <1>3, FS_Subset
  <2>2. \A i \in N : <<i, x>> \in P
    <3> TAKE i \in N
    <3>1. i \in D BY <1>3
    <3>2. <<i, x>> \in D \X {x} /\ <<i, x>>[1] = i /\ <<i, x>>[2] = x BY <3>1
    <3> QED BY <1>2, <3>2
  <2>3. \A p \in P : \E i \in N : <<i, x>> = p
    <3> TAKE p \in P
    <3>1. p \in D \X {x} /\ p[1] \in Naming(parts, p[2]) BY <1>2
    <3>2. p = <<p[1], x>> /\ p[2] = x BY <3>1
    <3> QED BY <3>1, <3>2
  <2> HIDE DEF N, P
  <2>4. h \in [N -> P] /\ \A i \in N : h[i] = <<i, x>> BY <2>2
  <2> HIDE DEF h
  <2>5. \A i, j \in N : h[i] = h[j] => i = j BY <2>4
  <2>6. \A p \in P : \E i \in N : h[i] = p BY <2>3, <2>4
  <2>7. Cardinality(P) = Cardinality(N) /\ Cardinality(N) \in Nat BY <2>1, <2>4, <2>5, <2>6, SameSize
  <2> QED BY <2>7 DEF N, P, Weight
<1>7. ASSUME NEW S, NEW T, IsFiniteSet(S), IsFiniteSet(T), S \cap T = {}
      PROVE  Weight(parts, S \cup T) = Weight(parts, S) + Weight(parts, T)
  <2> DEFINE a == Pairs(parts, S)
             b == Pairs(parts, T)
  <2>1. Pairs(parts, S \cup T) = a \cup b BY <1>2
  <2>2. a \cap b = {} BY <1>2, <1>7
  <2>3. IsFiniteSet(a) /\ IsFiniteSet(b) BY <1>4, <1>7
  <2> HIDE DEF a, b
  <2>4. Cardinality(a \cup b) = Cardinality(a) + Cardinality(b) BY <2>2, <2>3, DisjointSum
  <2> QED BY <2>1, <2>4 DEF Weight, a, b
<1> QED BY <1>4, <1>5, <1>6, <1>7

\* Numbers that every element adds the same to, whatever else there is.
Adds(h, S, w) ==
  /\ h[{}] = 0 /\ \A A \in SUBSET S : h[A] \in Nat
  /\ \A A \in SUBSET S : \A x \in S \ A : h[A \cup {x}] = w[x] + h[A]

\* What a fold makes of them, an element at a time.
AddsUp(g, S, pick, w) ==
  /\ g[{}] = 0
  /\ \A A \in SUBSET S : A # {} =>
       /\ pick[A] \in A
       /\ g[A \ {pick[A]}] \in Nat => g[A] = w[pick[A]] + g[A \ {pick[A]}]

LEMMA SumsAgree ==
  ASSUME NEW S, IsFiniteSet(S), NEW g, NEW h, NEW w, NEW pick, Adds(h, S, w), AddsUp(g, S, pick, w)
  PROVE  g[S] = h[S]
<1> DEFINE T == {n \in Nat : \A A \in SUBSET S : Cardinality(A) = n => g[A] = h[A]}
<1>1. \A A \in SUBSET S : IsFiniteSet(A) /\ Cardinality(A) \in Nat BY FS_Subset, FS_CardinalityType
<1>2. 0 \in T
  <2>1. ASSUME NEW A \in SUBSET S, Cardinality(A) = 0 PROVE g[A] = h[A]
    <3>1. A = {} BY <1>1, <2>1, FS_EmptySet
    <3> QED BY <3>1 DEF Adds, AddsUp
  <2> QED BY <2>1
<1>3. ASSUME NEW n \in Nat, n \in T PROVE n + 1 \in T
  <2>1. ASSUME NEW A \in SUBSET S, Cardinality(A) = n + 1 PROVE g[A] = h[A]
    <3>1. A # {} BY <2>1, FS_EmptySet
    <3> DEFINE x == pick[A]
               B == A \ {x}
    <3>2. x \in A /\ (g[B] \in Nat => g[A] = w[x] + g[B]) BY <3>1 DEF AddsUp
    <3> HIDE DEF x
    <3>3. Cardinality(B) = Cardinality(A) - 1 BY <1>1, <3>2, FS_RemoveElement
    <3>4. B \in SUBSET S /\ x \in S \ B /\ B \cup {x} = A BY <3>2
    <3>5. Cardinality(B) = n BY <2>1, <3>3
    <3> HIDE DEF B
    <3>6. g[B] = h[B] BY <1>3, <3>4, <3>5
    <3>7. h[B] \in Nat /\ h[A] = w[x] + h[B] BY <3>4 DEF Adds
    <3> QED BY <3>2, <3>6, <3>7
  <2> QED BY <2>1
<1> HIDE DEF T
<1>4. Nat \subseteq T BY <1>2, <1>3, Induction
<1>5. Cardinality(S) \in T BY <1>1, <1>4
<1> QED BY <1>5 DEF T

\* The share of some packages is how often they are named.
Share(content, S) == MapThenSumSet(LAMBDA name : Cardinality(Users("go", content, name)), S)

LEMMA ShareIsWeight ==
  ASSUME NEW R, NEW parts \in Seq(R), NEW content,
         \A x : Users("go", content, x) = Naming(parts, x),
         NEW S, IsFiniteSet(S)
  PROVE  Share(content, S) = Weight(parts, S)
<1> DEFINE w == [x \in S |-> Cardinality(Naming(parts, x))]
           h == [A \in SUBSET S |-> Weight(parts, A)]
           pick == [A \in SUBSET S |-> CHOOSE x \in A : TRUE]
           IsFold(g) == g = [A \in SUBSET S |-> IF A = {} THEN 0
              ELSE Cardinality(Users("go", content, CHOOSE x \in A : TRUE)) + g[A \ {CHOOSE x \in A : TRUE}]]
           fold == CHOOSE g : IsFold(g)
<1>1. Share(content, S) = fold[S] BY DEF Share, MapThenSumSet, MapThenFoldSet
<1>2. \A A \in SUBSET S : IsFiniteSet(A) BY FS_Subset
<1>3. \A x \in S : w[x] = Cardinality(Naming(parts, x)) OBVIOUS
<1>4. \A A \in SUBSET S : h[A] = Weight(parts, A) OBVIOUS
<1>5. \A A \in SUBSET S : A # {} => pick[A] \in A /\ pick[A] = CHOOSE x \in A : TRUE OBVIOUS
<1>6. h = [A \in SUBSET S |-> h[A]] OBVIOUS
<1> HIDE DEF w, h, pick
<1>7. Adds(h, S, w)
  <2>1. h[{}] = 0 BY <1>4, WeightFacts
  <2>2. \A A \in SUBSET S : h[A] \in Nat BY <1>2, <1>4, WeightFacts
  <2>3. ASSUME NEW A \in SUBSET S, NEW x \in S \ A PROVE h[A \cup {x}] = w[x] + h[A]
    <3>1. IsFiniteSet(A) /\ IsFiniteSet({x}) /\ {x} \cap A = {} /\ {x} \cup A = A \cup {x}
      BY <1>2, FS_Singleton
    <3>2. Weight(parts, {x} \cup A) = Weight(parts, {x}) + Weight(parts, A) BY <3>1, WeightFacts
    <3>3. Weight(parts, {x}) = w[x] BY <1>3, WeightFacts
    <3>4. A \cup {x} \in SUBSET S OBVIOUS
    <3> QED BY <1>4, <3>1, <3>2, <3>3, <3>4
  <2> QED BY <2>1, <2>2, <2>3 DEF Adds
<1>8. \A A \in SUBSET S : A # {} => /\ pick[A] \in S /\ A \ {pick[A]} \in SUBSET S
                                    /\ (A \ {pick[A]}) \cup {pick[A]} = A
  BY <1>5
<1>9. IsFold(h)
  <2>1. ASSUME NEW A \in SUBSET S
        PROVE  h[A] = IF A = {} THEN 0
                 ELSE Cardinality(Users("go", content, CHOOSE x \in A : TRUE)) + h[A \ {CHOOSE x \in A : TRUE}]
    <3>1. CASE A = {} BY <1>7, <3>1 DEF Adds
    <3>2. CASE A # {}
      <4> DEFINE x == pick[A]
      <4>1. x \in S \ (A \ {x}) /\ A \ {x} \in SUBSET S /\ (A \ {x}) \cup {x} = A BY <1>5, <1>8, <3>2
      <4>2. x = CHOOSE y \in A : TRUE BY <1>5, <3>2
      <4> HIDE DEF x
      <4>3. h[A] = w[x] + h[A \ {x}] BY <1>7, <4>1 DEF Adds
      <4>4. w[x] = Cardinality(Users("go", content, x)) BY <1>3, <4>1
      <4> QED BY <3>2, <4>2, <4>3, <4>4
    <3> QED BY <3>1, <3>2
  <2> QED BY <1>6, <2>1
<1>10. IsFold(fold)
  <2> HIDE DEF IsFold
  <2> QED BY <1>9
<1> HIDE DEF fold
<1>11. AddsUp(fold, S, pick, w)
  <2>1. fold[{}] = 0 BY <1>10
  <2>2. ASSUME NEW A \in SUBSET S, A # {}
        PROVE  pick[A] \in A /\ fold[A] = w[pick[A]] + fold[A \ {pick[A]}]
    <3> DEFINE x == pick[A]
    <3>1. x \in A /\ x = CHOOSE y \in A : TRUE BY <1>5, <2>2
    <3> HIDE DEF x
    <3>2. fold[A] = Cardinality(Users("go", content, x)) + fold[A \ {x}] BY <1>10, <2>2, <3>1
    <3>3. w[x] = Cardinality(Users("go", content, x)) BY <1>3, <3>1
    <3>4. x \in A /\ fold[A] = w[x] + fold[A \ {x}] BY <3>1, <3>2, <3>3
    <3> QED BY <3>4 DEF x
  <2> QED BY <2>1, <2>2 DEF AddsUp
<1>12. fold[S] = h[S] BY <1>7, <1>11, SumsAgree
<1> QED BY <1>1, <1>4, <1>12

\* The names at some places of a ranking.
At(curve, I) == {curve[i].name : i \in I}

LEMMA PlacesFacts ==
  ASSUME NEW C, NEW curve \in Seq(C), NEW parts, RankedBy(curve, parts), NEW I \in SUBSET (DOMAIN curve)
  PROVE  /\ IsFiniteSet(I) /\ IsFiniteSet(At(curve, I)) /\ Cardinality(At(curve, I)) = Cardinality(I)
         /\ At(curve, {}) = {}
         /\ \A k \in (DOMAIN curve) \ I : /\ curve[k].name \notin At(curve, I)
                                          /\ At(curve, I \cup {k}) = At(curve, I) \cup {curve[k].name}
<1> DEFINE S == At(curve, I)
           h == [i \in I |-> curve[i].name]
<1>1. IsFiniteSet(I)
  <2>1. DOMAIN curve = 1..Len(curve) /\ Len(curve) \in Nat OBVIOUS
  <2>2. IsFiniteSet(DOMAIN curve) BY <2>1, IntervalSize
  <2> QED BY <2>2, FS_Subset
<1>2. S = {curve[i].name : i \in I} BY DEF At
<1>3. \A i, j \in DOMAIN curve : curve[i].name = curve[j].name => i = j BY DEF RankedBy
<1> HIDE DEF S
<1>4. h \in [I -> S] /\ \A i \in I : h[i] = curve[i].name BY <1>2
<1> HIDE DEF h
<1>5. \A i, j \in I : h[i] = h[j] => i = j BY <1>3, <1>4
<1>6. \A x \in S : \E i \in I : h[i] = x BY <1>2, <1>4
<1>7. IsFiniteSet(S) /\ Cardinality(S) = Cardinality(I)
  <2>1. h \in [I -> S] BY <1>4
  <2> QED BY <1>1, <1>5, <1>6, <2>1, SameSize
<1>8. ASSUME NEW k \in (DOMAIN curve) \ I
      PROVE  curve[k].name \notin S /\ At(curve, I \cup {k}) = S \cup {curve[k].name}
  <2>1. curve[k].name \notin S BY <1>2, <1>3
  <2>2. At(curve, I \cup {k}) = S \cup {curve[k].name} BY <1>2 DEF At
  <2> QED BY <2>1, <2>2
<1>9. At(curve, {}) = {} BY DEF At
<1> QED BY <1>1, <1>7, <1>8, <1>9 DEF S

\* What the first k packages of a ranking cover.
LEMMA CoveredIsWeight ==
  ASSUME NEW C, NEW curve \in Seq(C), NEW R, NEW parts \in Seq(R), RankedBy(curve, parts),
         NEW k \in 0..Len(curve)
  PROVE  Covered(curve, k) = Weight(parts, At(curve, 1..k))
<1> DEFINE S == 1..k
           s == SubSeq(curve, 1, k)
           w == [i \in S |-> curve[i].repos_count]
           h == [A \in SUBSET S |-> Weight(parts, At(curve, A))]
           pick == [A \in SUBSET S |-> Max(A)]
           IsFold(g) == g = [A \in SUBSET S |-> IF A = {} THEN 0 ELSE g[A \ {Max(A)}] + s[Max(A)].repos_count]
           fold == CHOOSE g : IsFold(g)
<1>1. k \in Nat /\ DOMAIN s = S /\ \A i \in S : i \in DOMAIN curve /\ s[i] = curve[i] OBVIOUS
<1>2. Covered(curve, k) = fold[S]
  <2>1. Covered(curve, k) = fold[DOMAIN s]
    <3>1. S = DOMAIN s BY <1>1
    <3> QED BY <3>1 DEF Covered, FoldLeft, MapThenFoldSet
  <2> QED BY <1>1, <2>1
<1>3. \A A \in SUBSET S : A # {} => Max(A) \in A /\ Max(A) \in S BY <1>1, MaxFacts
<1>4. IsFiniteSet(S) BY <1>1, IntervalSize
<1>5. \A i \in S : w[i] = curve[i].repos_count OBVIOUS
<1>6. \A A \in SUBSET S : h[A] = Weight(parts, At(curve, A)) OBVIOUS
<1>7. \A A \in SUBSET S : A # {} => pick[A] = Max(A) OBVIOUS
<1>8. h = [A \in SUBSET S |-> h[A]] OBVIOUS
<1> HIDE DEF S, s, w, h, pick
<1>9. \A A \in SUBSET S : A \in SUBSET (DOMAIN curve) BY <1>1
<1>10. \A i \in S : w[i] = Weight(parts, {curve[i].name}) /\ w[i] \in Nat
  <2> TAKE i \in S
  <2>1. curve[i].repos_count = Cardinality(Naming(parts, curve[i].name)) BY <1>1 DEF RankedBy
  <2> QED BY <1>5, <2>1, WeightFacts
<1>11. Adds(h, S, w)
  <2>1. h[{}] = 0
    <3>1. At(curve, {}) = {} BY DEF At
    <3> QED BY <1>6, <3>1, WeightFacts
  <2>2. \A A \in SUBSET S : h[A] \in Nat
    <3> TAKE A \in SUBSET S
    <3>1. IsFiniteSet(At(curve, A)) BY <1>9, PlacesFacts
    <3> QED BY <1>6, <3>1, WeightFacts
  <2>3. ASSUME NEW A \in SUBSET S, NEW x \in S \ A PROVE h[A \cup {x}] = w[x] + h[A]
    <3> DEFINE B == At(curve, A)
               y == curve[x].name
    <3>1. x \in (DOMAIN curve) \ A BY <1>1
    <3>2. IsFiniteSet(B) /\ y \notin B /\ At(curve, A \cup {x}) = B \cup {y} BY <1>9, <3>1, PlacesFacts
    <3> HIDE DEF B, y
    <3>3. IsFiniteSet({y}) /\ {y} \cap B = {} /\ {y} \cup B = B \cup {y} BY <3>2, FS_Singleton
    <3>4. Weight(parts, {y} \cup B) = Weight(parts, {y}) + Weight(parts, B) BY <3>2, <3>3, WeightFacts
    <3>5. A \cup {x} \in SUBSET S OBVIOUS
    <3>6. w[x] = Weight(parts, {y}) BY <1>10 DEF y
    <3>7. h[A] = Weight(parts, B) BY <1>6 DEF B
    <3>8. h[A \cup {x}] = Weight(parts, B \cup {y}) BY <1>6, <3>2, <3>5
    <3> QED BY <3>3, <3>4, <3>6, <3>7, <3>8
  <2> QED BY <2>1, <2>2, <2>3 DEF Adds
<1>12. IsFold(h)
  <2>1. ASSUME NEW A \in SUBSET S
        PROVE  h[A] = IF A = {} THEN 0 ELSE h[A \ {Max(A)}] + s[Max(A)].repos_count
    <3>1. CASE A = {} BY <1>11, <3>1 DEF Adds
    <3>2. CASE A # {}
      <4> DEFINE x == Max(A)
      <4>1. x \in A /\ x \in S BY <1>3, <3>2
      <4> HIDE DEF x
      <4>2. x \in S \ (A \ {x}) /\ A \ {x} \in SUBSET S /\ (A \ {x}) \cup {x} = A BY <4>1
      <4>3. h[A] = w[x] + h[A \ {x}] /\ h[A \ {x}] \in Nat BY <1>11, <4>2 DEF Adds
      <4>4. w[x] = s[x].repos_count /\ w[x] \in Nat BY <1>1, <1>5, <1>10, <4>1
      <4>5. h[A] = h[A \ {x}] + s[x].repos_count BY <4>3, <4>4
      <4> QED BY <3>2, <4>5 DEF x
    <3> QED BY <3>1, <3>2
  <2> QED BY <1>8, <2>1
<1>13. IsFold(fold)
  <2> HIDE DEF IsFold
  <2> QED BY <1>12
<1> HIDE DEF fold
<1>14. AddsUp(fold, S, pick, w)
  <2>1. fold[{}] = 0 BY <1>13
  <2>2. ASSUME NEW A \in SUBSET S, A # {}
        PROVE  pick[A] \in A /\ (fold[A \ {pick[A]}] \in Nat => fold[A] = w[pick[A]] + fold[A \ {pick[A]}])
    <3> DEFINE x == pick[A]
    <3>1. x \in A /\ x \in S /\ x = Max(A) BY <1>3, <1>7, <2>2
    <3> HIDE DEF x
    <3>2. fold[A] = fold[A \ {x}] + s[x].repos_count BY <1>13, <2>2, <3>1
    <3>3. w[x] = s[x].repos_count /\ w[x] \in Nat BY <1>1, <1>5, <1>10, <3>1
    <3>4. fold[A \ {x}] \in Nat => fold[A] = w[x] + fold[A \ {x}] BY <3>2, <3>3
    <3> QED BY <3>1, <3>4 DEF x
  <2> QED BY <2>1, <2>2 DEF AddsUp
<1>15. fold[S] = h[S] BY <1>4, <1>11, <1>14, SumsAgree
<1>16. fold[S] = Weight(parts, At(curve, S)) BY <1>6, <1>15
<1> QED BY <1>2, <1>16 DEF S

\* All there is to cover.
LEMMA TotalIsWeight ==
  ASSUME NEW S, NEW parts \in Seq(Seq(S)), \A i \in DOMAIN parts : Distinct(parts[i]),
         NEW N, \A x : x \in N <=> Naming(parts, x) # {}
  PROVE  Len(FlattenSeq(parts)) = Weight(parts, N)
<1> DEFINE t == FlattenSeq(parts)
           P == Pairs(parts, N)
           K == 1..Len(t)
<1>1. t \in Seq(S) BY FlattenFacts
<1>2. PICK u, v : Spread(t, parts, Len(parts), u, v) BY FlattenSpread
<1>3. DOMAIN parts = 1..Len(parts) OBVIOUS
<1> HIDE DEF t
<1>4. Len(t) \in Nat /\ DOMAIN t = K /\ IsFiniteSet(K) /\ Cardinality(K) = Len(t)
  <2>1. Len(t) \in Nat /\ DOMAIN t = 1..Len(t) BY <1>1
  <2> QED BY <2>1, IntervalSize
<1> DEFINE h == [k \in K |-> <<u[k], t[k].name>>]
<1> HIDE DEF K
<1>5. ASSUME NEW i, NEW x PROVE <<i, x>> \in P <=> i \in Naming(parts, x)
  <2>1. <<i, x>> \in P <=> <<i, x>> \in (DOMAIN parts) \X N /\ <<i, x>>[1] \in Naming(parts, <<i, x>>[2])
    BY DEF Pairs
  <2>2. <<i, x>>[1] = i /\ <<i, x>>[2] = x OBVIOUS
  <2>3. i \in Naming(parts, x) => i \in DOMAIN parts /\ x \in N BY DEF Naming
  <2> QED BY <2>1, <2>2, <2>3
<1>6. \A p \in P : \E i, x : p = <<i, x>>
  <2> TAKE p \in P
  <2>1. p \in (DOMAIN parts) \X N BY DEF Pairs
  <2> QED BY <2>1
<1> HIDE DEF P
<1>7. \A k \in K : u[k] \in DOMAIN parts /\ v[k] \in DOMAIN parts[u[k]] /\ t[k] = parts[u[k]][v[k]]
  BY <1>2, <1>3, <1>4 DEF Spread
<1>8. \A k \in K : <<u[k], t[k].name>> \in P
  <2> TAKE k \in K
  <2>1. t[k] \in ToSet(parts[u[k]]) BY <1>7 DEF ToSet
  <2>2. u[k] \in Naming(parts, t[k].name) BY <1>7, <2>1 DEF Naming
  <2> QED BY <1>5, <2>2
<1>9. h \in [K -> P] /\ \A k \in K : h[k] = <<u[k], t[k].name>> BY <1>8
<1> HIDE DEF h
<1>10. ASSUME NEW j \in K, NEW k \in K, h[j] = h[k] PROVE j = k
  <2>1. u[j] = u[k] /\ t[j].name = t[k].name BY <1>9, <1>10
  <2>2. v[j] = v[k] BY <1>7, <2>1 DEF Distinct
  <2> QED BY <1>2, <1>4, <2>1, <2>2 DEF Spread
<1>11. ASSUME NEW p \in P PROVE \E k \in K : h[k] = p
  <2>1. PICK i, x : p = <<i, x>> BY <1>6
  <2>2. i \in Naming(parts, x) BY <1>5, <2>1
  <2>3. PICK j \in DOMAIN parts[i] : i \in DOMAIN parts /\ parts[i][j].name = x
    BY <2>2 DEF Naming, ToSet
  <2>4. PICK k \in K : u[k] = i /\ v[k] = j BY <1>2, <1>3, <1>4, <2>3 DEF Spread
  <2>5. t[k].name = x BY <1>7, <2>3, <2>4
  <2> QED BY <1>9, <2>1, <2>4, <2>5
<1>12. Cardinality(P) = Cardinality(K)
  <2>1. h \in [K -> P] BY <1>9
  <2>2. \A j, k \in K : h[j] = h[k] => j = k BY <1>10
  <2>3. \A p \in P : \E k \in K : h[k] = p BY <1>11
  <2>4. IsFiniteSet(K) BY <1>4
  <2> QED BY <2>1, <2>2, <2>3, <2>4, SameSize
<1> QED BY <1>4, <1>12 DEF Weight, P, t

\* Packages of at most, and of at least, so many votes each.
LEMMA WeightBounds ==
  ASSUME NEW R, NEW parts \in Seq(R), NEW S, IsFiniteSet(S), NEW c \in Nat
  PROVE  /\ (\A x \in S : Cardinality(Naming(parts, x)) <= c) => Weight(parts, S) <= Cardinality(S) * c
         /\ (\A x \in S : Cardinality(Naming(parts, x)) >= c) => Weight(parts, S) >= Cardinality(S) * c
<1> DEFINE Few == \A x \in S : Cardinality(Naming(parts, x)) <= c
           Many == \A x \in S : Cardinality(Naming(parts, x)) >= c
           Bound(A) == /\ Few => Weight(parts, A) <= Cardinality(A) * c
                       /\ Many => Weight(parts, A) >= Cardinality(A) * c
           T == {A \in SUBSET S : Bound(A)}
<1>1. {} \in T
  <2>1. Weight(parts, {}) = 0 /\ Cardinality({}) = 0 BY WeightFacts, FS_EmptySet
  <2>2. 0 * c = 0 OBVIOUS
  <2> QED BY <2>1, <2>2
<1>2. ASSUME NEW A \in SUBSET S, NEW x \in S \ A, A \in T PROVE A \cup {x} \in T
  <2> DEFINE n == Cardinality(A)
             a == Weight(parts, A)
             b == Cardinality(Naming(parts, x))
             m == Cardinality(A \cup {x})
             e == Weight(parts, A \cup {x})
  <2>1. IsFiniteSet(A) /\ n \in Nat BY FS_Subset, FS_CardinalityType
  <2>2. m = n + 1 BY <2>1, FS_AddElement
  <2>3. a \in Nat /\ b \in Nat BY <2>1, WeightFacts
  <2>4. e = a + b
    <3>1. IsFiniteSet({x}) /\ A \cap {x} = {} BY FS_Singleton
    <3>2. Weight(parts, A \cup {x}) = Weight(parts, A) + Weight(parts, {x}) BY <2>1, <3>1, WeightFacts
    <3>3. Weight(parts, {x}) = b BY WeightFacts
    <3> QED BY <3>2, <3>3
  <2>5. (Few => a <= n * c /\ b <= c) /\ (Many => a >= n * c /\ b >= c) BY <1>2
  <2> HIDE DEF n, a, b, m, e, Few, Many
  <2>6. n * c \in Nat /\ m * c = n * c + c BY <2>1, <2>2
  <2>7. (Few => e <= m * c) /\ (Many => e >= m * c) BY <2>3, <2>4, <2>5, <2>6
  <2> QED BY <2>7 DEF m, e
<1> HIDE DEF Few, Many, T
<1>3. S \in T BY <1>1, <1>2, FiniteInduction
<1> QED BY <1>3 DEF T, Few, Many

\* No packages weigh more than as many from the top of a ranking.
LEMMA TopIsHeaviest ==
  ASSUME NEW C, NEW curve \in Seq(C), NEW R, NEW parts \in Seq(R), RankedBy(curve, parts),
         NEW S, IsFiniteSet(S), \A x \in S : Naming(parts, x) # {},
         NEW k \in 0..Len(curve), Cardinality(S) = k
  PROVE  Weight(parts, S) <= Weight(parts, At(curve, 1..k))
<1> DEFINE top == At(curve, 1..k)
           A == S \ top
           B == top \ S
           I == S \cap top
           V(x) == Cardinality(Naming(parts, x))
<1>1. DOMAIN curve = 1..Len(curve) /\ Len(curve) \in Nat /\ k \in Nat OBVIOUS
<1>2. IsFiniteSet(top) /\ Cardinality(top) = k
  <2>1. 1..k \in SUBSET (DOMAIN curve) /\ Cardinality(1..k) = k BY <1>1, IntervalSize
  <2> QED BY <2>1, PlacesFacts
<1>3. \A x : x \in top <=> \E i \in 1..k : curve[i].name = x BY DEF At
<1> HIDE DEF top
<1>4. IsFiniteSet(A) /\ IsFiniteSet(B) /\ IsFiniteSet(I) BY <1>2, FS_Subset
<1>5. A \cap I = {} /\ A \cup I = S /\ B \cap I = {} /\ B \cup I = top OBVIOUS
<1> HIDE DEF A, B, I
<1>6. /\ Cardinality(S) = Cardinality(A) + Cardinality(I) /\ Cardinality(top) = Cardinality(B) + Cardinality(I)
      /\ Cardinality(A) \in Nat /\ Cardinality(B) \in Nat /\ Cardinality(I) \in Nat
  BY <1>4, <1>5, DisjointSum
<1>7. Cardinality(A) = Cardinality(B) BY <1>2, <1>6
<1>8. /\ Weight(parts, S) = Weight(parts, A) + Weight(parts, I)
      /\ Weight(parts, top) = Weight(parts, B) + Weight(parts, I)
      /\ Weight(parts, A) \in Nat /\ Weight(parts, B) \in Nat /\ Weight(parts, I) \in Nat
  BY <1>4, <1>5, WeightFacts
<1>9. CASE k = 0
  <2>1. Cardinality(A) = 0
    <3>1. Cardinality(S) = 0 BY <1>9
    <3> QED BY <1>6, <3>1
  <2>2. A = {} BY <1>4, <2>1, FS_EmptySet
  <2>3. Weight(parts, A) = 0 BY <2>2, WeightFacts
  <2> QED BY <1>8, <2>3 DEF top
<1>10. CASE k # 0
  <2> DEFINE c == curve[k].repos_count
  <2>1. k \in DOMAIN curve BY <1>1, <1>10
  <2>2. c \in Nat
    <3>1. c = V(curve[k].name) BY <2>1 DEF RankedBy
    <3> QED BY <3>1, WeightFacts
  <2>3. ASSUME NEW x \in A PROVE V(x) <= c
    <3>1. x \in S /\ x \notin top BY DEF A
    <3>2. PICK i \in DOMAIN curve : curve[i].name = x BY <3>1 DEF RankedBy
    <3>3. i \notin 1..k BY <1>3, <3>1, <3>2
    <3>4. k < i BY <1>1, <3>2, <3>3
    <3>5. c >= curve[i].repos_count /\ curve[i].repos_count = V(x) BY <2>1, <3>2, <3>4 DEF RankedBy
    <3>6. V(x) \in Nat BY WeightFacts
    <3> HIDE DEF V, c
    <3> QED BY <2>2, <3>5, <3>6
  <2>4. ASSUME NEW x \in B PROVE V(x) >= c
    <3>1. x \in top BY DEF B
    <3>2. PICK i \in 1..k : curve[i].name = x BY <1>3, <3>1
    <3>3. i \in DOMAIN curve /\ (i < k \/ i = k) BY <1>1
    <3>4. curve[i].repos_count = V(x) BY <3>2, <3>3 DEF RankedBy
    <3>5. V(x) \in Nat BY WeightFacts
    <3>6. i < k => curve[i].repos_count >= c BY <2>1, <3>3 DEF RankedBy
    <3>7. i = k => curve[i].repos_count = c OBVIOUS
    <3> HIDE DEF V, c
    <3> QED BY <2>2, <3>3, <3>4, <3>5, <3>6, <3>7
  <2> HIDE DEF c
  <2>5. Weight(parts, A) <= Cardinality(A) * c BY <1>4, <2>2, <2>3, WeightBounds
  <2>6. Weight(parts, B) >= Cardinality(B) * c BY <1>4, <2>2, <2>4, WeightBounds
  <2>7. Cardinality(A) * c \in Nat BY <1>6, <2>2
  <2>8. Weight(parts, A) <= Weight(parts, B) BY <1>7, <1>8, <2>5, <2>6, <2>7
  <2> QED BY <1>8, <2>8 DEF top
<1> QED BY <1>9, <1>10

\* The first k packages cover w hundredths, or all are taken, and no fewer do.
Least(k, counts, w) ==
  /\ k \in 0..Len(counts)
  /\ k = Len(counts) \/ 100 * Covered(counts, k) >= w
  /\ \A i \in 1..(k - 1) : ~(100 * Covered(counts, i) >= w)

LEMMA CoverageKFacts ==
  ASSUME NEW C, NEW counts \in Seq(C), NEW total \in Nat, NEW t \in Nat
  PROVE  Least(CoverageK(counts, total, t), counts, t * total)
<1> DEFINE n == Len(counts)
           E == {k \in DOMAIN counts : 100 * Covered(counts, k) >= t * total}
           K == CoverageK(counts, total, t)
<1>1. n \in Nat /\ DOMAIN counts = 1..n OBVIOUS
<1>2. K = Min(E \cup {n}) BY DEF CoverageK
<1> HIDE DEF n
<1>3. PICK m \in E \cup {n} : \A k \in E \cup {n} : m <= k
  <2>1. E \cup {n} \in SUBSET Nat /\ E \cup {n} # {} BY <1>1
  <2> HIDE DEF E
  <2> QED BY <2>1, NatMinimum
<1>4. K \in E \cup {n} /\ \A k \in E \cup {n} : K <= k
  <2> HIDE DEF E, K
  <2> QED BY <1>2, <1>3 DEF Min
<1> HIDE DEF K
<1>5. K \in 0..n /\ (K = n \/ K \in E) BY <1>1, <1>4
<1>6. ASSUME NEW k \in 1..(K - 1) PROVE k \notin E
  <2>1. K \in Int /\ k \in Int /\ k < K BY <1>1, <1>5
  <2> QED BY <1>4, <2>1
<1>7. \A k \in 1..(K - 1) : k \in DOMAIN counts BY <1>1, <1>5
<1>8. Least(K, counts, t * total) BY <1>5, <1>6, <1>7 DEF Least, n
<1> QED BY <1>8 DEF K

\* What a coverage analysis selects: enough, and no fewer packages are.
Minimal(f, content) ==
  \A t \in CoverageThresholds :
    LET selected == {p.name : p \in ToSet(f.thresholds[t])}
        all == Share(content, Names("go", content))
    IN /\ 100 * Share(content, selected) >= t * all
       /\ \A S \in SUBSET Names("go", content) :
            Cardinality(S) < Cardinality(selected) => 100 * Share(content, S) < t * all

LEMMA CoverageSelects ==
  ASSUME NEW content, Holds("go", content)
  PROVE  Minimal(CoverageAnalysis(content), content)
<1> SUFFICES ASSUME NEW t \in CoverageThresholds
             PROVE  LET selected == {p.name : p \in ToSet(CoverageAnalysis(content).thresholds[t])}
                        all == Share(content, Names("go", content))
                    IN /\ 100 * Share(content, selected) >= t * all
                       /\ \A S \in SUBSET Names("go", content) :
                            Cardinality(S) < Cardinality(selected) => 100 * Share(content, S) < t * all
  BY DEF Minimal
<1>1. PICK records \in Seq(GoodRecords("go")), n \in Nat : content = GoRaw(records, n)
  BY DEF Holds, Output
<1> DEFINE counts == content.package_counts
           total == content.total_occurrences
           parts == Parts(records)
           N == Names("go", content)
           K == CoverageK(counts, total, t)
           chosen == SubSeq(counts, 1, K)
           selected == {p.name : p \in ToSet(CoverageAnalysis(content).thresholds[t])}
           all == Share(content, N)
<1>2. /\ counts \in Seq(GoCounts) /\ RankedBy(counts, parts) /\ total = Len(FlattenSeq(parts))
  BY <1>1, GoRawFacts DEF GoFileOf
<1>3. /\ \A x : Users("go", content, x) = Naming(parts, x)
      /\ \A x : x \in N <=> Naming(parts, x) # {}
  BY <1>1, GoReading
<1>4. parts \in Seq(Seq(GoDeps)) /\ \A i \in DOMAIN parts : Distinct(parts[i])
  BY GoRecordFields
<1>5. selected = {p.name : p \in ToSet(chosen)} BY DEF CoverageAnalysis
<1>6. t \in 1..100 BY MiningAssumption DEF MiningAssumption
<1> HIDE DEF counts, total, parts, N, selected, all
<1>7. Len(counts) \in Nat /\ DOMAIN counts = 1..Len(counts) BY <1>2
<1>8. N = At(counts, 1..Len(counts))
  <2>1. ASSUME NEW x PROVE x \in N <=> \E k \in DOMAIN counts : counts[k].name = x
    BY <1>2, <1>3 DEF RankedBy
  <2> QED BY <1>7, <2>1 DEF At
<1>9. IsFiniteSet(N)
  <2>1. 1..Len(counts) \in SUBSET (DOMAIN counts) BY <1>7
  <2> QED BY <1>2, <1>8, <2>1, PlacesFacts
<1>10. total = Weight(parts, N) /\ total \in Nat
  <2>1. total = Weight(parts, N) BY <1>2, <1>3, <1>4, TotalIsWeight
  <2> QED BY <1>4, <1>9, <2>1, WeightFacts
<1>11. \A S : IsFiniteSet(S) => Share(content, S) = Weight(parts, S) /\ Weight(parts, S) \in Nat
  <2> TAKE S
  <2> HAVE IsFiniteSet(S)
  <2>1. Share(content, S) = Weight(parts, S) BY <1>3, <1>4, ShareIsWeight
  <2> QED BY <1>4, <2>1, WeightFacts
<1>12. all = total BY <1>9, <1>10, <1>11 DEF all
<1>13. \A k \in 0..Len(counts) : Covered(counts, k) = Weight(parts, At(counts, 1..k))
  BY <1>2, <1>4, CoveredIsWeight
<1>14. Least(K, counts, t * total)
  <2>1. t \in Nat BY <1>6
  <2> QED BY <1>2, <1>10, <2>1, CoverageKFacts
<1> HIDE DEF K
<1>15. K \in Nat /\ K \in 0..Len(counts) /\ K <= Len(counts)
  <2>1. K \in 0..Len(counts) BY <1>14 DEF Least
  <2> QED BY <1>7, <2>1
<1>16. \A k \in 0..Len(counts) :
         IsFiniteSet(At(counts, 1..k)) /\ Cardinality(At(counts, 1..k)) = k
  <2> TAKE k \in 0..Len(counts)
  <2>1. 1..k \in SUBSET (DOMAIN counts) /\ Cardinality(1..k) = k BY <1>7, IntervalSize
  <2> QED BY <1>2, <2>1, PlacesFacts
<1>17. selected = At(counts, 1..K)
  <2>1. DOMAIN chosen = 1..K /\ \A k \in 1..K : chosen[k] = counts[k]
    <3> QED BY <1>2, <1>15
  <2> HIDE DEF chosen
  <2> QED BY <1>5, <2>1 DEF At, ToSet
<1>18. 100 * Share(content, selected) >= t * all
  <2> DEFINE w == Share(content, selected)
  <2>1. w = Covered(counts, K) /\ w \in Nat BY <1>11, <1>13, <1>16, <1>17, <1>15
  <2>2. CASE K = Len(counts)
    <3>1. w = all BY <1>8, <1>17, <2>2 DEF all
    <3> HIDE DEF w
    <3>2. 100 * w = t * w + (100 - t) * w /\ (100 - t) * w >= 0 /\ t * w \in Int /\ (100 - t) * w \in Int
      BY <1>6, <2>1
    <3> QED BY <3>1, <3>2 DEF w
  <2>3. CASE 100 * Covered(counts, K) >= t * total BY <1>12, <2>1, <2>3
  <2> QED BY <1>14, <2>2, <2>3 DEF Least
<1>19. ASSUME NEW S \in SUBSET N, Cardinality(S) < Cardinality(selected)
       PROVE  100 * Share(content, S) < t * all
  <2> DEFINE j == Cardinality(S)
             a == Weight(parts, S)
  <2>1. IsFiniteSet(S) /\ j \in Nat BY <1>9, FS_Subset, FS_CardinalityType
  <2>2. j < K /\ K \in Nat /\ K <= Len(counts)
    <3>1. Cardinality(selected) = K BY <1>16, <1>17, <1>15
    <3> QED BY <1>19, <1>15, <3>1
  <2>3. Share(content, S) = a /\ a \in Nat BY <1>11, <2>1
  <2>4. \A x \in S : Naming(parts, x) # {} BY <1>3, <1>19
  <2>5. j \in 0..Len(counts) BY <1>7, <2>1, <2>2
  <2>6. a <= Covered(counts, j) /\ Covered(counts, j) \in Nat
    <3>1. Weight(parts, S) <= Weight(parts, At(counts, 1..j)) BY <1>2, <1>4, <2>1, <2>4, <2>5, TopIsHeaviest
    <3> QED BY <1>11, <1>13, <1>16, <2>5, <3>1
  <2> HIDE DEF j, a
  <2>7. t * total \in Nat BY <1>6, <1>10
  <2>8. CASE j = 0
    <3>1. a = 0
      <4>1. S = {} BY <2>1, <2>8, FS_EmptySet DEF j
      <4> QED BY <1>4, <4>1, WeightFacts DEF a
    <3>2. total >= Cardinality(N) * 1
      <4>1. \A x \in N : Cardinality(Naming(parts, x)) >= 1
        <5> TAKE x \in N
        <5>1. PICK k \in DOMAIN counts : counts[k].name = x BY <1>2, <1>3 DEF RankedBy
        <5>2. IsFiniteSet(Naming(parts, x)) /\ Naming(parts, x) # {} BY <1>2, <5>1 DEF RankedBy
        <5>3. Cardinality(Naming(parts, x)) \in Nat /\ Cardinality(Naming(parts, x)) # 0
          BY <5>2, FS_CardinalityType, FS_EmptySet
        <5> QED BY <5>3
      <4> QED BY <1>4, <1>9, <1>10, <4>1, WeightBounds
    <3>3. Cardinality(N) = Len(counts)
      <4>1. Len(counts) \in 0..Len(counts) BY <1>7
      <4> QED BY <1>8, <1>16, <4>1
    <3>4. total >= 1 BY <1>7, <1>10, <2>1, <2>2, <3>2, <3>3
    <3>5. t * total >= 1 BY <1>6, <1>10, <3>4
    <3> QED BY <1>12, <2>3, <2>7, <3>1, <3>5
  <2>9. CASE j # 0
    <3>1. j \in 1..(K - 1) BY <2>1, <2>2, <2>9
    <3>2. ~(100 * Covered(counts, j) >= t * total) BY <1>14, <3>1 DEF Least
    <3> QED BY <1>12, <2>3, <2>6, <2>7, <3>2
  <2> QED BY <2>8, <2>9
<1> QED BY <1>18, <1>19 DEF selected, all, N

\* A coverage analysis selects enough packages, and no smaller set is enough.
THEOREM SmallestCover == Spec => []CoverageIsMinimal
<1>1. ASSUME MiningInv, NEW d \in Days, Whole(cov[d]) PROVE Minimal(cov[d], mined[cov[d].source_mined_at])
  <2>1. CovGood(cov[d]) BY <1>1 DEF MiningInv, AllGood
  <2> DEFINE content == mined[cov[d].source_mined_at]
  <2>2. Holds("go", content) /\ cov[d] = CoverageAnalysis(content) BY <2>1 DEF CovGood, Finished
  <2> HIDE DEF content
  <2>3. Minimal(cov[d], content) BY <2>2, CoverageSelects
  <2> QED BY <2>3 DEF content
<1>2. MiningInv => CoverageIsMinimal
  <2>1. MiningInv => \A d \in Days : Whole(cov[d]) => Minimal(cov[d], mined[cov[d].source_mined_at])
    BY <1>1
  <2> QED BY <2>1 DEF CoverageIsMinimal, Minimal, Share
<1> QED BY <1>2, MiningInvariant, PTL

-----------------------------------------------------------------------------
(* The baked manifests.                                                    *)

\* What a generator writes for a selection: the packages with a number, without more.
Drawn(R, s) ==
  /\ \A r \in R : \E p \in ToSet(s) :
       HasNumber(p.version) /\ r.name = p.name /\ r.version = [op |-> "", num |-> p.version.num]
  /\ \A p \in ToSet(s) : HasNumber(p.version) =>
       \E r \in R : r.name = p.name /\ r.version = [op |-> "", num |-> p.version.num]

\* What that makes of the packages that are prevalent.
Bakes(R, l, content, t) ==
  /\ {p.name : p \in R} \subseteq Prevalent(l, content, t)
  /\ \A name \in Prevalent(l, content, t) : \E v \in Commonest(l, content, name) :
       {p.version : p \in {q \in R : q.name = name}} =
         IF HasNumber(v) THEN {[op |-> "", num |-> v.num]} ELSE {}

LEMMA DrawnBakes ==
  ASSUME NEW l, NEW content, NEW t, NEW s, SelectionOf(s, l, content, t), NEW R, Drawn(R, s)
  PROVE  Bakes(R, l, content, t)
<1>1. /\ \A x : (\E p \in ToSet(s) : p.name = x) <=> x \in Prevalent(l, content, t)
      /\ \A p \in ToSet(s) : p.version \in Commonest(l, content, p.name)
      /\ \A j, k \in DOMAIN s : s[j].name = s[k].name => j = k
  BY DEF SelectionOf
<1>2. \A p, q \in ToSet(s) : p.name = q.name => p = q BY <1>1 DEF ToSet
<1>3. {p.name : p \in R} \subseteq Prevalent(l, content, t)
  <2> SUFFICES ASSUME NEW r \in R PROVE r.name \in Prevalent(l, content, t)
    OBVIOUS
  <2>1. \E p \in ToSet(s) : r.name = p.name BY DEF Drawn
  <2> QED BY <1>1, <2>1
<1>4. ASSUME NEW x \in Prevalent(l, content, t)
      PROVE  \E v \in Commonest(l, content, x) :
               {p.version : p \in {q \in R : q.name = x}} =
                 IF HasNumber(v) THEN {[op |-> "", num |-> v.num]} ELSE {}
  <2>1. PICK p \in ToSet(s) : p.name = x BY <1>1
  <2> DEFINE v == p.version
             n == [op |-> "", num |-> v.num]
             A == {r.version : r \in {q \in R : q.name = x}}
  <2>2. v \in Commonest(l, content, x) BY <1>1, <2>1
  <2>3. \A y : y \in A <=> \E r \in R : r.name = x /\ y = r.version OBVIOUS
  <2>4. ASSUME NEW r \in R, r.name = x PROVE HasNumber(v) /\ r.version = n
    <3>1. PICK q \in ToSet(s) :
            HasNumber(q.version) /\ r.name = q.name /\ r.version = [op |-> "", num |-> q.version.num]
      BY DEF Drawn
    <3>2. q = p BY <1>2, <2>1, <2>4, <3>1
    <3> QED BY <3>1, <3>2
  <2>5. ASSUME HasNumber(v) PROVE \E r \in R : r.name = x /\ r.version = n
    BY <2>1, <2>5 DEF Drawn
  <2> HIDE DEF A, n, v
  <2>6. HasNumber(v) => A = {n} BY <2>3, <2>4, <2>5
  <2>7. ~HasNumber(v) => A = {} BY <2>3, <2>4
  <2>8. A = IF HasNumber(v) THEN {n} ELSE {} BY <2>6, <2>7
  <2> QED BY <2>2, <2>8 DEF A, n
<1> QED BY <1>3, <1>4 DEF Bakes

\* The records of a written manifest.
BakedFile(f, l, content, t) ==
  /\ f.k \in Nat /\ f.k = Cardinality(f.requires)
  /\ f.requires \in SUBSET [name : STRING, version : GoVersions]
  /\ f = [mined_at |-> f.mined_at, threshold |-> t, k |-> f.k, requires |-> f.requires]
  /\ Bakes(f.requires, l, content, t)

LEMMA GoModBakes ==
  ASSUME NEW content, NEW a, NEW t, SelectionOf(a.thresholds[t], "go", content, t)
  PROVE  BakedFile(Manifest("go", a, t), "go", content, t)
<1> DEFINE s == a.thresholds[t]
           f == Manifest("go", a, t)
           h == [k \in 1..Len(s) |-> [name |-> s[k].name, version |-> s[k].version]]
           R == {[name |-> p.name, version |-> p.version] : p \in ToSet(s)}
<1>1. f = [mined_at |-> a.source_mined_at, threshold |-> t, k |-> Len(s), requires |-> R]
  BY DEF Manifest, GoMod
<1> HIDE DEF f, s
<1>2. /\ Len(s) \in Nat /\ DOMAIN s = 1..Len(s)
      /\ \A j, k \in DOMAIN s : s[j].name = s[k].name => j = k
      /\ s \in Seq([name : STRING, repos_count : Nat, version : GoVersions])
      /\ SelectionOf(s, "go", content, t)
  BY DEF SelectionOf, Versions, s
<1>3. Cardinality(R) = Len(s)
  <2> DEFINE D == 1..Len(s)
  <2>1. IsFiniteSet(D) /\ Cardinality(D) = Len(s) BY <1>2, IntervalSize
  <2>2. \A k \in D : h[k] = [name |-> s[k].name, version |-> s[k].version] OBVIOUS
  <2>3. \A k \in D : s[k] \in ToSet(s) BY <1>2 DEF ToSet
  <2>4. h \in [D -> R] BY <2>3
  <2>5. \A r \in R : \E k \in D : h[k] = r
    <3> TAKE r \in R
    <3>1. PICK p \in ToSet(s) : r = [name |-> p.name, version |-> p.version] OBVIOUS
    <3>2. PICK k \in DOMAIN s : p = s[k] BY DEF ToSet
    <3> QED BY <1>2, <2>2, <3>1, <3>2
  <2> HIDE DEF h, R
  <2>6. \A j, k \in D : h[j] = h[k] => j = k
    <3> TAKE j \in D, k \in D
    <3> HAVE h[j] = h[k]
    <3>1. [name |-> s[j].name, version |-> s[j].version] = [name |-> s[k].name, version |-> s[k].version]
      BY <2>2
    <3>2. s[j].name = s[k].name BY <3>1
    <3> QED BY <1>2, <3>2
  <2> HIDE DEF D
  <2> QED BY <2>1, <2>4, <2>5, <2>6, SameSize
<1>4. f.k = Len(s) /\ f.requires = R /\ f.mined_at = a.source_mined_at BY <1>1
<1>5. \A p \in ToSet(s) : p.name \in STRING /\ p.version \in GoVersions
  <2> DEFINE E == [name : STRING, repos_count : Nat, version : GoVersions]
  <2>1. \A p \in E : p.name \in STRING /\ p.version \in GoVersions OBVIOUS
  <2>2. s \in Seq(E) BY <1>2
  <2> HIDE DEF E
  <2>3. \A p \in ToSet(s) : p \in E BY <2>2 DEF ToSet
  <2> QED BY <2>1, <2>3
<1>6. ASSUME NEW v \in GoVersions PROVE HasNumber(v) /\ v = [op |-> "", num |-> v.num]
  BY DEF GoVersions, HasNumber
<1>7. Drawn(R, s)
  <2>1. ASSUME NEW r \in R
        PROVE  \E p \in ToSet(s) :
                 HasNumber(p.version) /\ r.name = p.name /\ r.version = [op |-> "", num |-> p.version.num]
    <3>1. PICK p \in ToSet(s) : r = [name |-> p.name, version |-> p.version] OBVIOUS
    <3>2. r.name = p.name /\ r.version = p.version BY <3>1
    <3>3. HasNumber(p.version) /\ p.version = [op |-> "", num |-> p.version.num] BY <1>5, <1>6
    <3> QED BY <3>2, <3>3
  <2>2. ASSUME NEW p \in ToSet(s)
        PROVE  \E r \in R : r.name = p.name /\ r.version = [op |-> "", num |-> p.version.num]
    <3> DEFINE r == [name |-> p.name, version |-> p.version]
    <3>1. r \in R /\ r.name = p.name /\ r.version = p.version OBVIOUS
    <3>2. p.version = [op |-> "", num |-> p.version.num] BY <1>5, <1>6
    <3> HIDE DEF r, R
    <3> QED BY <3>1, <3>2
  <2> QED BY <2>1, <2>2 DEF Drawn
<1>8. R \in SUBSET [name : STRING, version : GoVersions] BY <1>5
<1> HIDE DEF R
<1>9. Bakes(R, "go", content, t) BY <1>2, <1>7, DrawnBakes
<1>10. BakedFile(f, "go", content, t) BY <1>1, <1>2, <1>3, <1>4, <1>8, <1>9 DEF BakedFile
<1> QED BY <1>10 DEF f

LEMMA CargoTomlBakes ==
  ASSUME NEW content, NEW a, NEW t, SelectionOf(a.thresholds[t], "rust", content, t)
  PROVE  BakedFile(Manifest("rust", a, t), "rust", content, t)
<1> DEFINE s == a.thresholds[t]
           f == Manifest("rust", a, t)
           all == {[name |-> p.name, version |-> NormaliseVersion(p.version)] : p \in ToSet(s)}
           valid == {p \in all : p.version # Star}
<1>1. f = [mined_at |-> a.source_mined_at, threshold |-> t, k |-> Cardinality(valid), requires |-> valid]
  BY DEF Manifest, CargoToml
<1> HIDE DEF f, s
<1>2. /\ s \in Seq([name : STRING, repos_count : Nat, version : Versions("rust")])
      /\ SelectionOf(s, "rust", content, t)
  BY DEF SelectionOf, s
<1>3. \A p \in ToSet(s) : p.name \in STRING /\ p.version \in Versions("rust")
  <2> DEFINE E == [name : STRING, repos_count : Nat, version : Versions("rust")]
  <2>1. \A p \in E : p.name \in STRING /\ p.version \in Versions("rust") OBVIOUS
  <2>2. s \in Seq(E) BY <1>2
  <2> HIDE DEF E
  <2>3. \A p \in ToSet(s) : p \in E BY <2>2 DEF ToSet
  <2> QED BY <2>1, <2>3
<1>4. ASSUME NEW v \in Versions("rust")
      PROVE  /\ HasNumber(v) <=> NormaliseVersion(v) # Star
             /\ HasNumber(v) => /\ NormaliseVersion(v) = [op |-> "", num |-> v.num]
                                /\ [op |-> "", num |-> v.num] \in GoVersions
  <2> DEFINE w == NormaliseVersion(v)
             plain == v.op \in {"", "~", "^", "="} /\ v.num \notin {"", "*"}
             n == [op |-> "", num |-> v.num]
  <2>1. w = IF plain THEN n ELSE Star BY DEF NormaliseVersion
  <2>2. plain => v.num \in STRING \ {"", "*", "git", "path"}
    <3>1. CASE v \in CrateVersions BY <3>1 DEF CrateVersions
    <3>2. CASE v = Sourced("git") \/ v = Sourced("path")
      <4>1. v.op = "<" BY <3>2 DEF Sourced
      <4> QED BY <4>1
    <3> QED BY <3>1, <3>2 DEF Versions
  <2>3. HasNumber(v) <=> plain BY <2>2 DEF HasNumber
  <2>4. n.op = "" /\ n.num = v.num OBVIOUS
  <2>5. plain => n \in GoVersions BY <2>2 DEF GoVersions
  <2>6. Star.num = "*" BY DEF Star
  <2>7. plain => n # Star BY <2>2, <2>4, <2>6
  <2> HIDE DEF w, plain, n
  <2> QED BY <2>1, <2>3, <2>5, <2>7 DEF w, n
<1>5. ASSUME NEW r \in valid
      PROVE  \E p \in ToSet(s) :
               HasNumber(p.version) /\ r.name = p.name /\ r.version = [op |-> "", num |-> p.version.num]
  <2>1. PICK p \in ToSet(s) : r = [name |-> p.name, version |-> NormaliseVersion(p.version)] OBVIOUS
  <2>2. r.name = p.name /\ r.version = NormaliseVersion(p.version) /\ r.version # Star BY <2>1
  <2> HIDE DEF valid, all
  <2> QED BY <1>3, <1>4, <2>2
<1>6. ASSUME NEW p \in ToSet(s), HasNumber(p.version)
      PROVE  \E r \in valid : r.name = p.name /\ r.version = [op |-> "", num |-> p.version.num]
  <2> DEFINE r == [name |-> p.name, version |-> NormaliseVersion(p.version)]
  <2>1. r \in all /\ r.name = p.name /\ r.version = NormaliseVersion(p.version) OBVIOUS
  <2>2. r.version # Star /\ r.version = [op |-> "", num |-> p.version.num] BY <1>3, <1>4, <1>6, <2>1
  <2> HIDE DEF r, all
  <2> QED BY <2>1, <2>2
<1>7. Drawn(valid, s)
  <2> HIDE DEF valid
  <2> QED BY <1>5, <1>6 DEF Drawn
<1>8. IsFiniteSet(valid)
  <2>1. IsFiniteSet(ToSet(s)) BY <1>2, ToSetFinite
  <2> DEFINE h == [p \in ToSet(s) |-> [name |-> p.name, version |-> NormaliseVersion(p.version)]]
  <2>2. h \in [ToSet(s) -> all] /\ \A r \in all : \E p \in ToSet(s) : h[p] = r OBVIOUS
  <2>3. valid \subseteq all OBVIOUS
  <2> HIDE DEF all, h, valid
  <2>4. h \in Surjection(ToSet(s), all) BY <2>2 DEF Surjection
  <2>5. IsFiniteSet(all) BY <2>1, <2>4, FS_Surjection
  <2> QED BY <2>3, <2>5, FS_Subset
<1>9. valid \in SUBSET [name : STRING, version : GoVersions]
  <2> SUFFICES ASSUME NEW r \in valid PROVE r \in [name : STRING, version : GoVersions]
    OBVIOUS
  <2>1. PICK p \in ToSet(s) : r = [name |-> p.name, version |-> NormaliseVersion(p.version)] OBVIOUS
  <2> DEFINE w == NormaliseVersion(p.version)
             x == p.name
  <2>2. r = [name |-> x, version |-> w] /\ r.version # Star BY <2>1
  <2>3. w # Star BY <2>2
  <2>4. w \in GoVersions BY <1>3, <1>4, <2>3
  <2>5. x \in STRING BY <1>3
  <2> HIDE DEF w, x
  <2> QED BY <2>2, <2>4, <2>5
<1> HIDE DEF valid
<1>10. f.k = Cardinality(valid) /\ f.requires = valid /\ f.mined_at = a.source_mined_at BY <1>1
<1>11. Cardinality(valid) \in Nat BY <1>8, FS_CardinalityType
<1>12. Bakes(valid, "rust", content, t) BY <1>2, <1>7, DrawnBakes
<1>13. BakedFile(f, "rust", content, t) BY <1>1, <1>9, <1>10, <1>11, <1>12 DEF BakedFile
<1> QED BY <1>13 DEF f

LEMMA BakedFacts ==
  ASSUME NEW l \in Langs, NEW content, Holds(l, content), NEW t \in Thresholds
  PROVE  BakedFile(Manifest(l, PrevalenceAnalysis(l, content), t), l, content, t)
<1> DEFINE a == PrevalenceAnalysis(l, content)
<1>1. SelectionOf(a.thresholds[t], l, content, t) BY AnalysisSelects
<1> HIDE DEF a
<1>2. CASE l = "go" BY <1>1, <1>2, GoModBakes DEF a
<1>3. CASE l = "rust" BY <1>1, <1>3, CargoTomlBakes DEF a
<1> QED BY <1>2, <1>3 DEF Langs

\* Whatever was mined and analysed: a baked manifest has the prevalent packages of the
\* run it names, each at the number of a version that no other is more common than, or
\* not at all if that is none.
THEOREM BakedVersions == Spec => []BakesCommonestVersions
<1>1. ASSUME MiningInv, NEW l \in Langs, Whole(baked[l])
      PROVE  /\ baked[l].k = Cardinality(baked[l].requires)
             /\ Bakes(baked[l].requires, l, mined[baked[l].mined_at], baked[l].threshold)
  <2> DEFINE content == mined[baked[l].mined_at]
             t == baked[l].threshold
  <2>1. BakedGood(l, baked[l]) BY <1>1 DEF MiningInv, AllGood, Whole
  <2>2. Holds(l, content) /\ t \in Thresholds /\ baked[l] = Manifest(l, PrevalenceAnalysis(l, content), t)
    BY <2>1 DEF BakedGood, Finished
  <2> HIDE DEF content, t
  <2>3. BakedFile(baked[l], l, content, t) BY <2>2, BakedFacts
  <2> QED BY <2>3 DEF BakedFile, content, t
<1>2. MiningInv => BakesCommonestVersions BY <1>1 DEF BakesCommonestVersions, Bakes
<1> QED BY <1>2, MiningInvariant, PTL

-----------------------------------------------------------------------------
(* The types of all that is written.                                       *)

LEMMA PrevTypes ==
  ASSUME NEW l \in Langs, NEW content, Holds(l, content), content.mined_at \in Nat
  PROVE  PrevalenceAnalysis(l, content) \in PrevFiles(l)
<1> DEFINE f == PrevalenceAnalysis(l, content)
           E == Seq([name : STRING, repos_count : Nat, version : Versions(l)])
           n == Normalise(l, content)
           curve == PrevalenceCurve(n)
           a == content.mined_at
           b == n.repos_with_manifest
           th == [t \in Thresholds |-> SubSeq(curve, 1, PrevalenceK(curve, b, t))]
<1>1. f = [source_mined_at |-> a, repos_with_manifest |-> b, thresholds |-> th]
  BY DEF PrevalenceAnalysis
<1>2. b \in Nat
  <2>1. Normal(n, l, content) BY HeldIsNormal
  <2> HIDE DEF n
  <2> QED BY <2>1, FS_CardinalityType DEF Normal
<1> HIDE DEF curve, n, b
<1>3. th = [t \in Thresholds |-> th[t]] OBVIOUS
<1> HIDE DEF th
<1>4. f.thresholds = th BY <1>1
<1> HIDE DEF E
<1>5. ASSUME NEW t \in Thresholds PROVE th[t] \in E
  <2>1. SelectionOf(f.thresholds[t], l, content, t) BY AnalysisSelects
  <2> QED BY <1>4, <2>1 DEF SelectionOf, E
<1>6. th \in [Thresholds -> E] BY <1>3, <1>5
<1>7. PrevFiles(l) = [source_mined_at : Nat, repos_with_manifest : Nat, thresholds : [Thresholds -> E]]
  BY DEF PrevFiles, E
<1> HIDE DEF f, a
<1>8. a \in Nat BY DEF a
<1>9. f \in PrevFiles(l) BY <1>1, <1>2, <1>6, <1>7, <1>8
<1> QED BY <1>9 DEF f

LEMMA CovTypes ==
  ASSUME NEW content, Holds("go", content), content.mined_at \in Nat
  PROVE  CoverageAnalysis(content) \in CovFiles
<1> DEFINE f == CoverageAnalysis(content)
           counts == content.package_counts
           total == content.total_occurrences
           a == content.mined_at
           th == [t \in CoverageThresholds |-> SubSeq(counts, 1, CoverageK(counts, total, t))]
           E == Seq(GoCounts)
<1>1. f = [source_mined_at |-> a, thresholds |-> th] BY DEF CoverageAnalysis
<1>2. PICK records \in Seq(GoodRecords("go")), n \in Nat : content = GoRaw(records, n)
  BY DEF Holds, Output
<1>3. counts \in Seq(GoCounts) /\ total = Len(FlattenSeq(Parts(records))) BY <1>2, GoRawFacts DEF GoFileOf
<1>4. total \in Nat
  <2>1. Parts(records) \in Seq(Seq(GoDeps)) BY GoRecordFields
  <2>2. FlattenSeq(Parts(records)) \in Seq(GoDeps) BY <2>1, FlattenFacts
  <2> QED BY <1>3, <2>2
<1> HIDE DEF counts, total
<1>5. ASSUME NEW t \in CoverageThresholds PROVE th[t] \in E
  <2> DEFINE K == CoverageK(counts, total, t)
  <2>1. t \in Nat BY MiningAssumption DEF MiningAssumption
  <2>2. Least(K, counts, t * total) BY <1>3, <1>4, <2>1, CoverageKFacts
  <2>3. th[t] = SubSeq(counts, 1, K) OBVIOUS
  <2> HIDE DEF K, th
  <2>4. K \in 0..Len(counts) BY <2>2 DEF Least
  <2> QED BY <1>3, <2>3, <2>4
<1>6. th = [t \in CoverageThresholds |-> th[t]] OBVIOUS
<1> HIDE DEF th, E
<1>7. th \in [CoverageThresholds -> E] BY <1>5, <1>6
<1>8. CovFiles = [source_mined_at : Nat, thresholds : [CoverageThresholds -> E]]
  BY DEF CovFiles, E, GoCounts
<1> HIDE DEF f, a
<1>9. a \in Nat BY DEF a
<1>10. f \in CovFiles BY <1>1, <1>7, <1>8, <1>9
<1> QED BY <1>10 DEF f

LEMMA BakedTypes ==
  ASSUME NEW f, NEW l, NEW content, NEW t \in Thresholds, BakedFile(f, l, content, t), f.mined_at \in Nat
  PROVE  f \in BakedFiles
<1> DEFINE a == f.mined_at
           k == f.k
           R == f.requires
           P == SUBSET [name : STRING, version : GoVersions]
<1>1. f = [mined_at |-> a, threshold |-> t, k |-> k, requires |-> R] /\ k \in Nat /\ R \in P /\ a \in Nat
  BY DEF BakedFile
<1>2. BakedFiles = [mined_at : Nat, threshold : Thresholds, k : Nat, requires : P] BY DEF BakedFiles
<1> HIDE DEF a, k, R, P
<1> QED BY <1>1, <1>2

\* Whatever the corpus, the manifests and the order of scripts: the mined files, the
\* analyses and the baked manifests have the types of what their readers expect, files
\* are in directories that exist, an analysis stands beside a mined file, and no miner
\* takes more repositories than it was asked for.
THEOREM MiningTypes == Spec => []TypeOK
<1>1. ASSUME MiningInv PROVE TypeOK
  <2>1. AllGood /\ CorpusInv /\ InPlace /\ MinedHeld BY <1>1 DEF MiningInv, CorpusInv
  <2>2. \A l, n : Finished(l, n) => n \in Nat /\ Holds(l, mined[n])
    BY MiningAssumption DEF MiningAssumption, Finished, Written
  <2>3. ASSUME NEW l \in Langs, NEW d \in Days, Whole(raw[l][d]) PROVE raw[l][d] \in MinedFiles(l)
    <3>1. RawGood(l, raw[l][d]) BY <2>1, <2>3 DEF AllGood
    <3>2. Holds(l, raw[l][d]) BY <2>2, <3>1 DEF RawGood
    <3> QED BY <3>2, HeldIsThere
  <2>4. ASSUME NEW l \in Langs, NEW d \in Days, Whole(prev[l][d]) PROVE prev[l][d] \in PrevFiles(l)
    <3> DEFINE f == prev[l][d]
               c == mined[f.source_mined_at]
    <3>1. PrevGood(l, f) BY <2>1, <2>4 DEF AllGood
    <3>2. Holds(l, c) /\ f = PrevalenceAnalysis(l, c) /\ f.source_mined_at \in Nat
      BY <2>2, <3>1 DEF PrevGood
    <3> HIDE DEF f, c
    <3>3. c.mined_at \in Nat BY <3>2, Stamps
    <3> QED BY <3>2, <3>3, PrevTypes DEF f
  <2>5. ASSUME NEW d \in Days, Whole(cov[d]) PROVE cov[d] \in CovFiles
    <3> DEFINE f == cov[d]
               c == mined[f.source_mined_at]
    <3>1. CovGood(f) BY <2>1, <2>5 DEF AllGood
    <3>2. Holds("go", c) /\ f = CoverageAnalysis(c) /\ f.source_mined_at \in Nat
      BY <2>2, <3>1 DEF CovGood
    <3> HIDE DEF f, c
    <3>3. c.mined_at \in Nat BY <3>2, Stamps
    <3> QED BY <3>2, <3>3, CovTypes DEF f
  <2>6. ASSUME NEW l \in Langs, baked[l] # Missing PROVE baked[l] \in BakedFiles
    <3> DEFINE f == baked[l]
               c == mined[f.mined_at]
               t == f.threshold
    <3>1. BakedGood(l, f) BY <2>1, <2>6 DEF AllGood
    <3>2. /\ Holds(l, c) /\ t \in Thresholds /\ f.mined_at \in Nat
          /\ f = Manifest(l, PrevalenceAnalysis(l, c), t)
      BY <2>2, <3>1 DEF BakedGood
    <3> HIDE DEF f, c, t
    <3>3. BakedFile(f, l, c, t) BY <3>2, BakedFacts
    <3> QED BY <3>2, <3>3, BakedTypes DEF f
  <2>7. ASSUME NEW n \in 0..MaxRuns, mined[n] # Missing
        PROVE  mined[n] \in MinedFiles("go") \cup MinedFiles("rust")
    <3>1. PICK l \in Langs : Holds(l, mined[n]) BY <2>1, <2>7 DEF MinedHeld
    <3>2. mined[n] \in MinedFiles(l) BY <3>1, HeldIsThere
    <3> QED BY <3>2 DEF Langs
  <2> QED BY <2>1, <2>3, <2>4, <2>5, <2>6, <2>7, CorpusTypes DEF TypeOK, InPlace, Whole
<1> QED BY <1>1, MiningInvariant, PTL

-----------------------------------------------------------------------------
\* find_k_at_threshold of the prevalence analysis, for every curve: what a stricter
\* threshold selects is a prefix of what a looser one does.
THEOREM ThresholdsNest ==
  ASSUME NEW curve, NEW n \in Nat, DOMAIN curve = 1..n,
         \A i \in 1..n : curve[i].repos_count \in Nat,
         NEW repos \in Nat, NEW s \in Nat, NEW t \in Nat, s <= t
  PROVE  PrevalenceK(curve, repos, t) <= PrevalenceK(curve, repos, s) /\ PrevalenceK(curve, repos, s) <= n
<1> DEFINE Prefix(u) == {k \in DOMAIN curve :
                           \A i \in 1..k : 100 * curve[i].repos_count >= u * repos}
<1>1. s * repos <= t * repos
  <2>1. t * repos = s * repos + (t - s) * repos OBVIOUS
  <2>2. (t - s) * repos >= 0 /\ s * repos \in Int /\ (t - s) * repos \in Int OBVIOUS
  <2> QED BY <2>1, <2>2
<1>2. Prefix(t) \subseteq Prefix(s)
  <2> SUFFICES ASSUME NEW k \in Prefix(t), NEW i \in 1..k
               PROVE  100 * curve[i].repos_count >= s * repos
    OBVIOUS
  <2>1. i \in 1..n /\ 100 * curve[i].repos_count >= t * repos OBVIOUS
  <2>2. 100 * curve[i].repos_count \in Int /\ s * repos \in Int /\ t * repos \in Int BY <2>1
  <2> QED BY <2>1, <2>2, <1>1
<1>3. IsFiniteSet(1..n) /\ Cardinality(1..n) = n BY FS_Interval
<1>4. IsFiniteSet(Prefix(s)) /\ Cardinality(Prefix(s)) <= n BY <1>3, FS_Subset
<1>5. Cardinality(Prefix(t)) <= Cardinality(Prefix(s)) BY <1>2, <1>4, FS_Subset
<1> QED BY <1>4, <1>5 DEF PrevalenceK
=============================================================================
