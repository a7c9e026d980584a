-------------------------- MODULE MiningProperties --------------------------
(* What must hold of the mined files, of the analyses made from them and of *)
(* the manifests baked into the images.                                     *)
EXTENDS Mining

CONSTANT ShortGoMods  \* the go.mod files the reader is compared on

ASSUME ShortGoModsAssumption ==
  \A text \in ShortGoMods : text \in Seq(GoModLines) /\ WellFormed(text)

-----------------------------------------------------------------------------
(* A second reading of a mined file, by its records alone.                 *)

Records(l, content) == IF l = "go" THEN content.repos ELSE content.raw
Repo(l, rec) == IF l = "go" THEN rec.full_name ELSE rec.repo
Found(l, rec) == IF l = "go" THEN rec.has_gomod ELSE rec.cargo_toml_found

NameOf(l, dep) == IF l = "go" THEN dep.name ELSE dep.crate
Uses(l, rec, name) == \E dep \in ToSet(rec.direct_deps) : NameOf(l, dep) = name

MinedFiles(l) == IF l = "go" THEN GoFiles ELSE RustFiles

Names(l, content) ==
  UNION {{NameOf(l, dep) : dep \in ToSet(rec.direct_deps)} : rec \in ToSet(Records(l, content))}

\* Listings of the corpus, and repositories in it, that use a package.
Users(l, content, name) ==
  {i \in DOMAIN Records(l, content) : Uses(l, Records(l, content)[i], name)}
UserRepos(l, content, name) ==
  {Repo(l, Records(l, content)[i]) : i \in Users(l, content, name)}
WithManifest(l, content) ==
  {i \in DOMAIN Records(l, content) : Found(l, Records(l, content)[i])}

\* What a miner counted for a package: its votes.
Votes(l, content) ==
  IF l = "go" THEN {<<p.name, p.repos_count>> : p \in ToSet(content.package_counts)}
  ELSE {<<p.crate, p.repo_count>> : p \in ToSet(content.prevalence)}

\* Packages that so many percent of the listings with a manifest use.
Prevalent(l, content, t) ==
  {name \in Names(l, content) :
     100 * Cardinality(Users(l, content, name)) >= t * Cardinality(WithManifest(l, content))}

\* Listings whose record gives a package a version, in its first entry of it.
Givers(l, content, name, version) ==
  {i \in DOMAIN Records(l, content) :
     LET deps == Records(l, content)[i].direct_deps IN
     \E j \in DOMAIN deps :
       /\ NameOf(l, deps[j]) = name /\ deps[j].version = version
       /\ \A h \in 1..(j - 1) : NameOf(l, deps[h]) # name}

\* The versions of a package that no other is more common than.
Commonest(l, content, name) ==
  LET given == {e.version : e \in {d \in UNION {ToSet(rec.direct_deps) :
                                               rec \in ToSet(Records(l, content))} :
                                   NameOf(l, d) = name}}
      support(v) == Cardinality(Givers(l, content, name, v))
  IN {v \in given : \A w \in given : support(w) <= support(v)}

\* A requirement by a number, with no operator but those that single one out.
HasNumber(v) == v.op \in {"", "~", "^", "="} /\ v.num \notin {"", "*", "git", "path"}

-----------------------------------------------------------------------------
\* The types of what is in the files; files are in directories that exist, an analysis
\* stands beside a mined file, and no miner takes more repositories than asked for.
TypeOK ==
  /\ today \in Days /\ runs \in 0..MaxRuns /\ made \subseteq 1..today
  /\ run.step \in {"idle", "search", "fetch", "dump"} /\ run.day \in 0..today
  /\ run.step # "search" => Len(run.repos) <= run.size
  /\ \A l \in Langs : \A d \in Days :
       /\ raw[l][d] \in {Missing, Torn} \cup MinedFiles(l)
       /\ prev[l][d] \in {Missing, Torn} \cup PrevFiles(l)
       /\ raw[l][d] # Missing => d \in made
       /\ prev[l][d] # Missing => raw[l][d] # Missing
  /\ \A d \in Days : cov[d] \in {Missing, Torn} \cup CovFiles
  /\ \A l \in Langs : baked[l] \in {Missing} \cup BakedFiles
  /\ \A n \in 0..MaxRuns : mined[n] \in {Missing} \cup MinedFiles("go") \cup MinedFiles("rust")

\* "Parse go.mod, extract direct requires (excluding // indirect)" (mine_go.py): for
\* every short go.mod, nothing is extracted that Go does not take for a direct
\* requirement, and nothing is left out unless a comment confuses the reader.
\* A statement on the reader alone, evaluated where a behaviour begins.
GoRequirementsRead ==
  runs = 0 /\ today = 1 =>
    \A text \in ShortGoMods :
      /\ ToSet(ParseGoMod(text)) \subseteq DirectRequires(text)
      /\ Plain(text) => ToSet(ParseGoMod(text)) = DirectRequires(text)

\* "one vote per package per repo" (mine_go.py) and "prevalence = fraction of repos
\* that use a crate" (mine_rust.py): a mined file counts for every package those whose
\* record lists it, never more of them than have a manifest.  Rust counts repositories;
\* Go counts listings, so that a repository that came up on two pages has two votes.
OneVotePerRepo ==
  \A l \in Langs : \A d \in Days : Whole(raw[l][d]) =>
    LET content == raw[l][d] IN
    /\ {v[1] : v \in Votes(l, content)} = Names(l, content)
    /\ \A v \in Votes(l, content) :
         /\ v[2] <= Cardinality(WithManifest(l, content))
         /\ v[2] = IF l = "go" THEN Cardinality(Users(l, content, v[1]))
                   ELSE Cardinality(UserRepos(l, content, v[1]))

\* "Smallest K such that all packages ranked <= K have prevalence >= threshold": an
\* analysis selects exactly the packages that the share of the listings with a manifest
\* calls for, by the records of the run it names, whatever order ties are ranked in,
\* and a stricter threshold selects a part of them.
SelectionIsExact ==
  \A l \in Langs : \A d \in Days : Whole(prev[l][d]) =>
    LET content == mined[prev[l][d].source_mined_at]
        selected(t) == {p.name : p \in ToSet(prev[l][d].thresholds[t])}
    IN \A t \in Thresholds :
         /\ selected(t) = Prevalent(l, content, t)
         /\ \A s \in Thresholds : s <= t => selected(t) \subseteq selected(s)

\* "Smallest K such that cumulative_coverage[K-1] >= threshold" (analyze.py): the
\* selected packages cover the threshold of all direct requirements in the records,
\* and no smaller set of packages does.
CoverageIsMinimal ==
  \A d \in Days : Whole(cov[d]) =>
    LET content == mined[cov[d].source_mined_at]
        Share(S) == MapThenSumSet(LAMBDA name : Cardinality(Users("go", content, name)), S)
        all == Share(Names("go", content))
    IN \A t \in CoverageThresholds :
         LET selected == {p.name : p \in ToSet(cov[d].thresholds[t])} IN
         /\ 100 * Share(selected) >= t * all
         /\ \A S \in SUBSET Names("go", content) :
              Cardinality(S) < Cardinality(selected) => 100 * Share(S) < t * all

\* "comment with prevalence for traceability" and "Mined:" in a generated manifest: what
\* is on disk is what one finished run has mined, an analysis is the analysis of the
\* run it names, and a baked manifest follows from the run its header's "Mined" names,
\* whatever has been mined, torn or analysed again since.
Traceable ==
  \A l \in Langs :
    /\ \A d \in Days :
         /\ Whole(raw[l][d]) => raw[l][d] = mined[raw[l][d].mined_at]
         /\ Whole(prev[l][d]) =>
              prev[l][d] = PrevalenceAnalysis(l, mined[prev[l][d].source_mined_at])
    /\ Whole(baked[l]) =>
         baked[l] = Manifest(l, PrevalenceAnalysis(l, mined[baked[l].mined_at]), baked[l].threshold)

\* "we want the most common version to be the floor, allowing compatible updates"
\* (generate_cargo_toml.py): by the records of the run it names, a baked manifest has
\* each prevalent package once, at the number of the version most often given for it,
\* or not at all if that is no number ("Filter out path/git-only deps"), and its K
\* counts what it has.  An operator before the number is dropped: "~2.7.0", which the
\* same docstring says is kept, becomes 2.7.0 and so ^2.7.0.
BakesCommonestVersions ==
  \A l \in Langs : Whole(baked[l]) =>
    LET content == mined[baked[l].mined_at]
        prevalent == Prevalent(l, content, baked[l].threshold)
    IN /\ baked[l].k = Cardinality(baked[l].requires)
       /\ {p.name : p \in baked[l].requires} \subseteq prevalent
       /\ \A name \in prevalent : \E v \in Commonest(l, content, name) :
            {p.version : p \in {q \in baked[l].requires : q.name = name}} =
              IF HasNumber(v) THEN {[op |-> "", num |-> v.num]} ELSE {}

-----------------------------------------------------------------------------
(* Statements of the source that the model refutes.                        *)

\* analyze_prevalence.py:13 "Supports both Go and Rust mining output schemas": it can
\* read every file a miner has finished.
BothSchemasSupported ==
  \A l \in Langs : \A d \in Days : Whole(raw[l][d]) => Readable(l, raw[l][d])
=============================================================================
