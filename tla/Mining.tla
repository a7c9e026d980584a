-------------------------------- MODULE Mining --------------------------------
(***************************************************************************)
(* scripts/mining: the miners (mine_go.py, mine_rust.py) search GitHub for *)
(* the most starred repositories, fetch their manifests and write one file *)
(* of what they depend on into the directory of the day; the analyses      *)
(* (analyze_prevalence.py, analyze.py) read such a file and choose the     *)
(* packages to bake; the generators write the manifest of a sandbox image. *)
(*                                                                         *)
(* Every script is started by hand.  A miner takes long: pages and files   *)
(* are fetched one by one, from repositories whose order and content       *)
(* change meanwhile, and an analysis may run at any moment of it.  An      *)
(* analysis or a generator is one step; a write that is interrupted leaves *)
(* a torn file, and a script that fails before it writes leaves all as is. *)
(***************************************************************************)
EXTENDS Manifests

CONSTANTS
  Repos, RustPrimary, \* the repositories, and those whose primary language is Rust
  Rankings,           \* orders the search may list them in
  Published,          \* Published[l][r]: the manifests r may have, or Missing
  Flaky,              \* the repositories whose manifests may not be fetched
  Subcrates,          \* the Cargo.toml of the members of the Rust repositories
  PerPage, MaxPages,  \* 100 and 10
  CorpusSizes,        \* values of --corpus-size
  Thresholds, CoverageThresholds,  \* of the two analyses, percent
  Shipped,            \* the records of the Go run in testdata/mining: of [repo, text]
  LastDay, MaxRuns,   \* how many days and miner runs are followed
  Missing, Torn       \* a file that is not there; one whose write was interrupted

Langs == {"go", "rust"}
Days == 1..LastDay

GoRecords == [full_name : Repos, has_gomod : BOOLEAN, direct_deps : Seq(GoDeps)]
RustRecords ==
  [repo : Repos, cargo_toml_found : BOOLEAN, source : {"none", "root", "subcrate"},
   direct_deps : Seq([crate : STRING, version : CrateVersions \cup {Sourced("git"), Sourced("path")}])]

GoFiles ==
  [mined_at : Nat, repos_attempted : Nat, repos_with_gomod : Nat, total_occurrences : Nat,
   unique_packages : Nat, repos : Seq(GoRecords),
   package_counts : Seq([name : STRING, repos_count : Nat,
                         most_common_version : GoVersions])]
RustFiles ==
  [mined_at : Nat, corpus_size : Nat, repos_with_cargo_toml : Nat, unique_crates : Nat,
   prevalence : Seq([crate : STRING, repo_count : Nat]), raw : Seq(RustRecords)]

\* What the analyses and the generators write.
Versions(l) == IF l = "go" THEN GoVersions ELSE CrateVersions \cup {Sourced("git"), Sourced("path")}
PrevFiles(l) ==
  [source_mined_at : Nat, repos_with_manifest : Nat,
   thresholds : [Thresholds -> Seq([name : STRING, repos_count : Nat, version : Versions(l)])]]
CovFiles ==
  [source_mined_at : Nat,
   thresholds : [CoverageThresholds ->
     Seq([name : STRING, repos_count : Nat, most_common_version : GoVersions])]]
BakedFiles ==
  [mined_at : Nat, threshold : Thresholds, k : Nat,
   requires : SUBSET [name : STRING, version : GoVersions]]

ASSUME MiningAssumption ==
  /\ LastDay \in Nat \ {0} /\ MaxRuns \in Nat /\ PerPage \in Nat \ {0} /\ MaxPages \in Nat
  /\ CorpusSizes \subseteq Nat /\ RustPrimary \subseteq Repos
  /\ Thresholds \subseteq Nat /\ CoverageThresholds \subseteq 1..100
  /\ \A order \in Rankings : order \in Seq(Repos) /\ IsInjective(order)
  /\ Torn # Missing /\ Missing \notin GoFiles /\ Missing \notin RustFiles

\* The manifests are what their readers can make of a file.
ASSUME PublishedAssumption ==
  /\ Shipped \in Seq([repo : Repos, text : {Missing} \cup Seq(GoModLines)])
  /\ \A r \in Repos :
       /\ \A text \in Published["go"][r] : text \in {Missing} \cup Seq(GoModLines)
       /\ \A doc \in Published["rust"][r] \ {Missing} :
            /\ doc \in CargoTomls /\ (~doc.workspace => doc.wsDeps = <<>> /\ doc.members = <<>>)
            /\ \A m \in ToSet(doc.members) : m.path = "glob" \/ m.doc \in DOMAIN Subcrates
  /\ \A c \in DOMAIN Subcrates : Subcrates[c] \in CargoTomls

VARIABLES
  today,  \* the UTC date
  made,   \* the dated directories that exist
  run,    \* the miner that is running
  runs,   \* miners started; the number of a run stands for its mined_at
  raw,    \* raw[l][d]: <language>-raw.json of day d
  prev,   \* prev[l][d]: <language>-prevalence-analysis.json
  cov,    \* cov[d]: go-analysis.json
  baked,  \* baked[l]: images/go/go.mod and images/rust/Cargo.toml
  mined   \* mined[n]: what run n has written, or Missing (history)

vars == <<today, made, run, runs, raw, prev, cov, baked, mined>>

Idle == [step |-> "idle", lang |-> "go", size |-> 0, page |-> 0, repos |-> <<>>,
         records |-> <<>>, day |-> 0]
Whole(file) == file \notin {Missing, Torn}

-----------------------------------------------------------------------------
(* The records of the miners and what they aggregate.                      *)

GoRecord_EveryRequire(r, text) ==
  [full_name |-> r, has_gomod |-> text # Missing,
   direct_deps |-> IF text = Missing THEN <<>> ELSE ParseGoMod(text)]

\* One vote per package: the first version named.  A file that is not there and
\* one that could not be fetched give the same record.  (The file lists them by
\* name, which decides only how the prevalence analysis ranks ties.)
GoRecord(r, text) ==
  [full_name |-> r, has_gomod |-> text # Missing,
   direct_deps |-> IF text = Missing THEN <<>> ELSE FirstOfName(ParseGoMod(text))]

Modal(votes, name) ==
  Head(MostCommon(Project(Kept(votes, LAMBDA v : v.name = name), "version")))

GoRaw(records, n) ==
  LET votes == FlattenSeq(Project(records, "direct_deps"))
      names == Project(votes, "name")
      Counted(name) == [name |-> name, repos_count |-> Count(names, name),
                        most_common_version |-> Modal(votes, name)]
      ranked == MostCommon(names)
  IN [mined_at |-> n, repos_attempted |-> Len(records),
      repos_with_gomod |-> Count(Project(records, "has_gomod"), TRUE),
      total_occurrences |-> Len(votes), unique_packages |-> Len(ranked),
      package_counts |-> [i \in DOMAIN ranked |-> Counted(ranked[i])], repos |-> records]

\* sub is what the fetch of the guessed member gave; its dependencies are used
\* when there are any.
RustRecord(r, doc, sub) ==
  LET root == ParseCargo(doc)
      inner == IF root.needsSubcrate /\ sub # Missing THEN ParseCargo(sub).deps ELSE <<>>
  IN IF doc = Missing
     THEN [repo |-> r, cargo_toml_found |-> FALSE, source |-> "none", direct_deps |-> <<>>]
     ELSE [repo |-> r, cargo_toml_found |-> TRUE,
           source |-> IF inner = <<>> THEN "root" ELSE "subcrate",
           direct_deps |-> IF inner = <<>> THEN root.deps ELSE inner]

\* repo_has_crate holds sets: a repository listed twice votes once.
RustRaw(records, n) ==
  LET Mentions(rec) ==
        [j \in DOMAIN rec.direct_deps |-> [crate |-> rec.direct_deps[j].crate, repo |-> rec.repo]]
      mentions == FlattenSeq([i \in DOMAIN records |-> Mentions(records[i])])
      votes == Firsts(mentions)
      names == Project(votes, "crate")
      ranked == MostCommon(names)
  IN [mined_at |-> n, corpus_size |-> Len(records),
      repos_with_cargo_toml |-> Count(Project(records, "cargo_toml_found"), TRUE),
      unique_crates |-> Len(ranked),
      prevalence |-> [i \in DOMAIN ranked |->
                        [crate |-> ranked[i], repo_count |-> Count(names, ranked[i])]],
      raw |-> records]

-----------------------------------------------------------------------------
(* The analyses.                                                           *)

\* normalise: the names of the two schemas made one.  It asks every record for a
\* "repo", and uses it no further.
Readable(l, content) ==
  l = "go" => \A i \in DOMAIN content.repos : "repo" \in DOMAIN content.repos[i]

Normalise(l, content) ==
  IF l = "go"
  THEN [repos_attempted |-> content.repos_attempted,
        repos_with_manifest |-> content.repos_with_gomod,
        direct_deps |-> Project(content.repos, "direct_deps"),
        package_counts |-> content.package_counts]
  ELSE [repos_attempted |-> content.corpus_size,
        repos_with_manifest |-> content.repos_with_cargo_toml,
        direct_deps |-> [i \in DOMAIN content.raw |->
          LET deps == content.raw[i].direct_deps
          IN [j \in DOMAIN deps |-> [name |-> deps[j].crate, version |-> deps[j].version]]],
        package_counts |-> <<>>]

PrevalenceCurve(n) ==
  LET votes == FlattenSeq([i \in DOMAIN n.direct_deps |-> FirstOfName(n.direct_deps[i])])
      names == Project(votes, "name")
      ranked == MostCommon(names)
      Known(name) == {p \in ToSet(n.package_counts) : p.name = name}
      Version(name) == IF Known(name) = {} THEN Modal(votes, name)
                       ELSE (CHOOSE p \in Known(name) : TRUE).most_common_version
  IN [i \in DOMAIN ranked |->
        [name |-> ranked[i], repos_count |-> Count(names, ranked[i]), version |-> Version(ranked[i])]]

PrevalenceK_Over(curve, repos, t) ==
  Cardinality({k \in DOMAIN curve : \A i \in 1..k : 100 * curve[i].repos_count > t * repos})

\* The length of the longest prefix that is as prevalent as the threshold.
PrevalenceK(curve, repos, t) ==
  Cardinality({k \in DOMAIN curve : \A i \in 1..k : 100 * curve[i].repos_count >= t * repos})

PrevalenceAnalysis(l, content) ==
  LET n == Normalise(l, content)
      curve == PrevalenceCurve(n)
  IN [source_mined_at |-> content.mined_at, repos_with_manifest |-> n.repos_with_manifest,
      thresholds |-> [t \in Thresholds |->
        SubSeq(curve, 1, PrevalenceK(curve, n.repos_with_manifest, t))]]

Covered(counts, k) == FoldLeft(LAMBDA sum, p : sum + p.repos_count, 0, SubSeq(counts, 1, k))

CoverageK_Next(counts, total, t) ==
  Cardinality({k \in DOMAIN counts : 100 * Covered(counts, k) <= t * total})

\* The smallest K whose packages cover the threshold, or all of them.
CoverageK(counts, total, t) ==
  Min({k \in DOMAIN counts : 100 * Covered(counts, k) >= t * total} \cup {Len(counts)})

CoverageAnalysis(content) ==
  [source_mined_at |-> content.mined_at,
   thresholds |-> [t \in CoverageThresholds |->
     SubSeq(content.package_counts, 1,
            CoverageK(content.package_counts, content.total_occurrences, t))]]

-----------------------------------------------------------------------------
(* The generated manifests: the header's "Mined", its threshold and K, and *)
(* a requirement per package.                                              *)

GoMod(analysis, t) ==
  [mined_at |-> analysis.source_mined_at, threshold |-> t, k |-> Len(analysis.thresholds[t]),
   requires |-> {[name |-> p.name, version |-> p.version] : p \in ToSet(analysis.thresholds[t])}]

\* Crates whose version comes out as "*" are skipped, and K counts the others.
CargoToml(analysis, t) ==
  LET all == {[name |-> p.name, version |-> NormaliseVersion(p.version)] :
                p \in ToSet(analysis.thresholds[t])}
      valid == {p \in all : p.version # Star}
  IN [mined_at |-> analysis.source_mined_at, threshold |-> t, k |-> Cardinality(valid),
      requires |-> valid]

Manifest(l, analysis, t) == IF l = "go" THEN GoMod(analysis, t) ELSE CargoToml(analysis, t)

-----------------------------------------------------------------------------
\* The repository as it was before its Rust run: one Go run, with its analysis (by a
\* script that could still read it) and the go.mod made from that.
ShippedRaw == GoRaw([i \in DOMAIN Shipped |-> GoRecord(Shipped[i].repo, Shipped[i].text)], 0)

Init ==
  /\ today = 1 /\ made = {1} /\ run = Idle /\ runs = 0
  /\ mined = [n \in 0..MaxRuns |-> IF n = 0 THEN ShippedRaw ELSE Missing]
  /\ raw = [l \in Langs |-> [d \in Days |-> IF l = "go" /\ d = 1 THEN mined[0] ELSE Missing]]
  /\ prev = [l \in Langs |-> [d \in Days |->
               IF l = "go" /\ d = 1 THEN PrevalenceAnalysis("go", mined[0]) ELSE Missing]]
  /\ cov = [d \in Days |-> Missing]
  /\ \E t \in Thresholds :
       baked = [l \in Langs |-> IF l = "go" THEN GoMod(prev["go"][1], t) ELSE Missing]

Midnight ==
  /\ today < LastDay /\ today' = today + 1
  /\ UNCHANGED <<made, run, runs, raw, prev, cov, baked, mined>>

-----------------------------------------------------------------------------
(* A miner's run.                                                          *)

\* mine_go.py makes the directory of the day it starts on before anything else.
Start(l) ==
  /\ run = Idle /\ runs < MaxRuns
  /\ runs' = runs + 1
  /\ \E size \in CorpusSizes :
       run' = [Idle EXCEPT !.step = "search", !.lang = l, !.size = size, !.page = 1, !.day = today]
  /\ made' = IF l = "go" THEN made \cup {today} ELSE made
  /\ UNCHANGED <<today, raw, prev, cov, baked, mined>>

PagesNeeded(size) == Min({MaxPages, (size + PerPage - 1) \div PerPage})

Page(order, p) == SubSeq(order, (p - 1) * PerPage + 1, Min({p * PerPage, Len(order)}))

SearchPage ==
  /\ run.step = "search" /\ run.page <= PagesNeeded(run.size) /\ Len(run.repos) < run.size
  /\ \E order \in Rankings :
       run' = [run EXCEPT !.page = @ + 1, !.repos = @ \o Page(order, run.page)]
  /\ UNCHANGED <<today, made, runs, raw, prev, cov, baked, mined>>

SearchEnds_Untruncated ==
  /\ run.step = "search"
  /\ run.page > PagesNeeded(run.size) \/ Len(run.repos) >= run.size
  /\ run' = [run EXCEPT !.step = "fetch"]
  /\ UNCHANGED <<today, made, runs, raw, prev, cov, baked, mined>>

\* The corpus is full, or the last page has been read.  Rust drops repositories
\* whose primary language is another.
SearchEnds ==
  /\ run.step = "search"
  /\ run.page > PagesNeeded(run.size) \/ Len(run.repos) >= run.size
  /\ run' = [run EXCEPT !.step = "fetch",
       !.repos = Kept(SubSeq(@, 1, Min({run.size, Len(@)})),
                           LAMBDA r : run.lang = "go" \/ r \in RustPrimary)]
  /\ UNCHANGED <<today, made, runs, raw, prev, cov, baked, mined>>

\* What the second request of a workspace's guessed member may give.  (The first
\* one's answer is not looked at.)
SubcrateText(doc) ==
  IF doc # Missing /\ ParseCargo(doc).needsSubcrate /\ WorkspaceMembers(doc) # <<>>
  THEN {Subcrates[GuessPrimary(WorkspaceMembers(doc)).doc], Missing} ELSE {Missing}

FetchRepo ==
  /\ run.step = "fetch" /\ Len(run.records) < Len(run.repos)
  /\ LET r == run.repos[Len(run.records) + 1] IN
     \E text \in Published[run.lang][r] \cup (IF r \in Flaky THEN {Missing} ELSE {}) :
       \E rec \in IF run.lang = "go" THEN {GoRecord(r, text)}
                  ELSE {RustRecord(r, text, sub) : sub \in SubcrateText(text)} :
         run' = [run EXCEPT !.records = Append(@, rec)]
  /\ UNCHANGED <<today, made, runs, raw, prev, cov, baked, mined>>

\* The output is opened, which empties the file of an earlier run of the day.
\* mine_rust.py takes the date, and makes the directory, only now.
OpenOutput ==
  /\ run.step = "fetch" /\ Len(run.records) = Len(run.repos)
  /\ LET day == IF run.lang = "go" THEN run.day ELSE today IN
     /\ run' = [run EXCEPT !.step = "dump", !.day = day]
     /\ made' = made \cup {day}
     /\ raw' = [raw EXCEPT ![run.lang][day] = Torn]
  /\ UNCHANGED <<today, runs, prev, cov, baked, mined>>

Dump ==
  /\ run.step = "dump" /\ run' = Idle
  /\ mined' = [mined EXCEPT ![runs] = IF run.lang = "go" THEN GoRaw(run.records, runs)
                                      ELSE RustRaw(run.records, runs)]
  /\ raw' = [raw EXCEPT ![run.lang][run.day] = mined'[runs]]
  /\ UNCHANGED <<today, made, runs, prev, cov, baked>>

\* A search request fails, which ends the miner, or somebody ends it.
MinerDies ==
  /\ run # Idle /\ run' = Idle
  /\ UNCHANGED <<today, made, runs, raw, prev, cov, baked, mined>>

-----------------------------------------------------------------------------
(* The other scripts, on the latest directory or on the one they are       *)
(* given, once what they read is there and whole.                          *)

\* The last of the directories made, or any of them that --mining-dir names.
MiningDir(d) == d \in made

\* The chart, which fails on an empty curve, comes after the file.
AnalyzePrevalence(l, d) ==
  /\ Whole(raw[l][d]) /\ Readable(l, raw[l][d])
  /\ \E file \in {PrevalenceAnalysis(l, raw[l][d]), Torn} : prev' = [prev EXCEPT ![l][d] = file]
  /\ UNCHANGED <<today, made, run, runs, raw, cov, baked, mined>>

\* Go's schema only, an absolute --mining-dir, and at least one package.
AnalyzeCoverage(d) ==
  /\ Whole(raw["go"][d]) /\ raw["go"][d].package_counts # <<>>
  /\ \E file \in {CoverageAnalysis(raw["go"][d]), Torn} : cov' = [cov EXCEPT ![d] = file]
  /\ UNCHANGED <<today, made, run, runs, raw, prev, baked, mined>>

Generate_NamesNewest(l, d) ==
  /\ Whole(prev[l][d]) /\ Whole(raw[l][d])
  /\ \E t \in Thresholds :
       /\ Manifest(l, prev[l][d], t).requires # {}
       /\ baked' = [baked EXCEPT ![l] = [Manifest(l, prev[l][d], t) EXCEPT !.mined_at = raw[l][d].mined_at]]
  /\ UNCHANGED <<today, made, run, runs, raw, prev, cov, mined>>

\* Neither generator writes a manifest without a requirement: one says so when the
\* selection is empty, and both take the longest of the names they are to write.
Generate(l, d) ==
  /\ Whole(prev[l][d])
  /\ \E t \in Thresholds :
       /\ Manifest(l, prev[l][d], t).requires # {}
       /\ baked' = [baked EXCEPT ![l] = Manifest(l, prev[l][d], t)]
  /\ UNCHANGED <<today, made, run, runs, raw, prev, cov, mined>>

-----------------------------------------------------------------------------
Miner ==
  \/ \E l \in Langs : Start(l)
  \/ SearchPage \/ SearchEnds \/ FetchRepo \/ OpenOutput \/ Dump \/ MinerDies

Next ==
  \/ Midnight \/ Miner
  \/ \E d \in Days :
       /\ MiningDir(d)
       /\ \/ AnalyzeCoverage(d)
          \/ \E l \in Langs : AnalyzePrevalence(l, d) \/ Generate(l, d)

Spec == Init /\ [][Next]_vars
=============================================================================
