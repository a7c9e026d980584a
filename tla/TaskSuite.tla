------------------------------ MODULE TaskSuite ------------------------------
(***************************************************************************)
(* scripts/task_suite: the split of the task sources into a training and a *)
(* held-out file (02_build_split.py) and its verification (03_verify.py).  *)
(* The scripts are run by hand, one at a time; a build can be interrupted  *)
(* between and inside its writes, and the sources change between builds.   *)
(* The random generator is seeded: what it draws depends on nothing but    *)
(* the number of ids it shuffles, so its draws are chosen once, in Init.   *)
(***************************************************************************)
EXTENDS Lists

CONSTANTS
  Releases,  \* states of the sources, their lines in order: mbpp, of [uid, fn];
             \* he, of [uid]; hex, of [uid, fn, doc, solutions, crates]
  HECount,   \* number of HumanEval problems (164)
  KnownCollisions, KnownPairs, KnownBuggy,  \* what 03_verify.py has cleared or bans
  Torn,      \* a line that does not parse
  Missing,   \* a file nobody has written
  MaxBuilds  \* how many builds are followed

Uids(lines) == [i \in DOMAIN lines |-> lines[i].uid]

ASSUME SuiteAssumption ==
  /\ HECount \in Nat /\ MaxBuilds \in Nat
  /\ \A r \in Releases : \A src \in {"mbpp", "he", "hex"} :
       /\ r[src] \in Seq(ToSet(r[src])) /\ IsInjective(Uids(r[src]))
       /\ \A p \in ToSet(r[src]) : p.uid \in Int
  /\ \A r \in Releases : \A p \in ToSet(r.hex) : p.solutions \subseteq {"canonical", "buggy"}
  /\ \A pair \in KnownPairs : \E a, b \in pair : pair = {a, b}

\* int(n * (1 - HELD_RATIO)): how many of n ids go to train.
Cut(n) == (8 * n) \div 10

VARIABLES
  heTrain, \* he_train_ids
  drawn,   \* drawn[n]: the positions the shuffle of n sorted MBPP ids puts in train
  files,   \* task_suite/ on disk: the lines of each file
  input,   \* the sources the last build has read
  next,    \* the write the build is at, 0 when none is running
  builds,  \* builds begun
  built,   \* how the last build ended: "no" (it did not), "ok", "leak" (history)
  verdict  \* what 03_verify.py said of the files as they are: "none", "pass", "fail"

suiteVars == <<heTrain, drawn, files, input, next, builds, built, verdict>>

\* The order of the writes; the copy of MultiPL-E's HumanEval and the manifest,
\* the first and the last, are read by nothing.
Writes == <<"mbpp", "hex", "train", "heldout">>
Lengths == {Len(r.mbpp) : r \in Releases}

SuiteInit ==
  /\ heTrain \in {S \in SUBSET (0..(HECount - 1)) : Cardinality(S) = Cut(HECount)}
  /\ drawn \in {d \in [Lengths -> SUBSET UNION {1..n : n \in Lengths}] :
                  \A n \in Lengths : d[n] \subseteq 1..n /\ Cardinality(d[n]) = Cut(n)}
  /\ files = [f \in ToSet(Writes) |-> Missing]
  /\ input \in Releases /\ next = 0 /\ builds = 0 /\ built = "no" /\ verdict = "none"

-----------------------------------------------------------------------------
(* 02_build_split.py                                                       *)

MbppIds_FileOrder(r) == Uids(r.mbpp)

\* The MBPP ids, sorted before they are shuffled.
MbppIds(r) == Sorted(Uids(r.mbpp), LAMBDA x, y : x < y)

MbppTrain(r) == {MbppIds(r)[i] : i \in drawn[Len(r.mbpp)]}

Record(src, family, p, train) ==
  [source |-> src, family |-> family, problem |-> p,
   split |-> IF p.uid \in train THEN "train" ELSE "heldout"]

Records(src, family, lines, train) ==
  [i \in DOMAIN lines |-> Record(src, family, lines[i], train)]

HeRecords_All(r) == Records("multipl-e-humaneval", "humaneval", r.he, ToSet(Uids(r.he)))

\* MultiPL-E renderings of held-out problems are dropped.
HeRecords(r) ==
  Records("multipl-e-humaneval", "humaneval",
          Kept(r.he, LAMBDA p : p.uid \in heTrain), heTrain)

Combined(r) ==
  Records("multipl-e-mbpp", "mbpp", r.mbpp, MbppTrain(r))
    \o HeRecords(r) \o Records("humaneval-x", "humaneval", r.hex, heTrain)

\* The order of the ids ("<source>/<name>"): by source, then by problem.
Rank(rec) == CHOOSE i \in 1..3 :
  rec.source = <<"humaneval-x", "multipl-e-humaneval", "multipl-e-mbpp">>[i]
Before(a, b) == Rank(a) < Rank(b) \/ (Rank(a) = Rank(b) /\ a.problem.uid < b.problem.uid)

Side_Both(r, split) == Sorted(Combined(r), Before)

\* One of the lists train and heldout, sorted by id.
Side(r, split) == Sorted(Kept(Combined(r), LAMBDA rec : rec.split = split), Before)

Contents(f) == IF f \in {"mbpp", "hex"} THEN input[f] ELSE Side(input, f)

BuildReads ==
  /\ next = 0 /\ next' = 1
  /\ builds < MaxBuilds /\ builds' = builds + 1
  /\ input' \in Releases
  /\ built' = "no"
  /\ UNCHANGED <<heTrain, drawn, files, verdict>>

BuildWrites ==
  /\ next \in DOMAIN Writes /\ next' = next + 1
  /\ files' = [files EXCEPT ![Writes[next]] = Contents(Writes[next])]
  /\ verdict' = "none"
  /\ UNCHANGED <<heTrain, drawn, input, builds, built>>

\* What a write leaves that is interrupted: some first lines, perhaps a torn one.
Partial(lines) ==
  UNION {{SubSeq(lines, 1, k), Append(SubSeq(lines, 1, k), Torn)} : k \in 0..(Len(lines) - 1)}

\* Interrupted before a write or inside it, or before the assertions.
BuildDies ==
  /\ next > 0 /\ next' = 0
  /\ \/ UNCHANGED <<files, verdict>>
     \/ /\ next \in DOMAIN Writes
        /\ \E part \in Partial(Contents(Writes[next])) :
             files' = [files EXCEPT ![Writes[next]] = part]
        /\ verdict' = "none"
  /\ UNCHANGED <<heTrain, drawn, input, builds, built>>

UnderlyingIds(lines, family) ==
  {rec.problem.uid : rec \in {x \in ToSet(lines) : x.family = family}}

Leaks(train, heldout) ==
  \E fam \in {"humaneval", "mbpp"} :
    UnderlyingIds(train, fam) \cap UnderlyingIds(heldout, fam) # {}

\* The assertions that end the build, on the lists it has in memory.
BuildEnds ==
  /\ next = Len(Writes) + 1 /\ next' = 0
  /\ built' = IF Leaks(Side(input, "train"), Side(input, "heldout")) THEN "leak" ELSE "ok"
  /\ UNCHANGED <<heTrain, drawn, files, input, builds, verdict>>

-----------------------------------------------------------------------------
(* 03_verify.py                                                            *)

\* split_of: the HumanEval-X problems it finds in the held-out file.
HeldHex ==
  {rec.problem.uid : rec \in {x \in ToSet(files["heldout"]) : x.source = "humaneval-x"}}

HexCopy == ToSet(files["hex"])

\* The groups of problems of the source copy that share a docstring.
Suspects ==
  {ids \in {{p.uid : p \in {x \in HexCopy : x.doc = q.doc}} : q \in HexCopy} :
     Cardinality(ids) > 1}

NewCollision ==
  ({p.fn : p \in HexCopy} \cap {p.fn : p \in ToSet(files["mbpp"])}) \ KnownCollisions # {}
GroupHeldOut == \E ids \in Suspects : ids \subseteq HeldHex
NewGroup == Suspects \ KnownPairs # {}
BuggyLeaked == KnownBuggy \cap HeldHex # {}

Problem_OnlyNew == NewCollision \/ NewGroup \/ BuggyLeaked
Problem == NewCollision \/ GroupHeldOut \/ NewGroup \/ BuggyLeaked

\* A missing file or a torn line raises an exception.
Verify ==
  /\ next = 0 /\ verdict = "none"
  /\ verdict' = IF \/ \E f \in ToSet(Writes) : files[f] = Missing \/ Torn \in ToSet(files[f])
                   \/ Problem
                THEN "fail" ELSE "pass"
  /\ UNCHANGED <<heTrain, drawn, files, input, next, builds, built>>

SuiteNext == BuildReads \/ BuildWrites \/ BuildDies \/ BuildEnds \/ Verify

-----------------------------------------------------------------------------
\* The assertions that end a build, "no underlying HE id appears in both splits"
\* and the same for MBPP, never fail and hold of the files it wrote: they have
\* every MBPP and HumanEval-X problem exactly once, and of a held-out HumanEval
\* problem nothing but the HumanEval-X rendering.
SplitIsClean ==
  built # "no" =>
    LET all == files["train"] \o files["heldout"]
        Of(src) == Kept(all, LAMBDA rec : rec.source = src)
        Problems(src) == [i \in DOMAIN Of(src) |-> Of(src)[i].problem]
    IN /\ ~Leaks(files["train"], files["heldout"])
       /\ \A f \in {"mbpp", "hex"} :
            LET src == IF f = "hex" THEN "humaneval-x" ELSE "multipl-e-mbpp"
            IN ToSet(Problems(src)) = ToSet(input[f]) /\ IsInjective(Problems(src))
       /\ \A i \in DOMAIN files["heldout"] :
            files["heldout"][i].source # "multipl-e-humaneval"

\* "the split does not depend on jsonl line order", "stable ordering for
\* reproducible file output" (02_build_split.py): a build from the same problems
\* in another order writes the same two files.
SplitIgnoresLineOrder ==
  built = "ok" => \A r \in Releases :
    (\A src \in {"mbpp", "he", "hex"} : ToSet(r[src]) = ToSet(input[src]))
      => Side(r, "train") = files["train"] /\ Side(r, "heldout") = files["heldout"]

\* The problems of both files are among those of the copied sources beside them,
\* as a complete build leaves it and an interrupted one may.
MadeOfCopies ==
  \A rec \in ToSet(files["train"] \o files["heldout"]) :
    /\ rec.source = "humaneval-x" => rec.problem \in HexCopy
    /\ rec.family = "mbpp" => rec.problem \in ToSet(files["mbpp"])

\* A held-out file that passed the verification has no known-buggy problem, by
\* whatever builds its four files were left; and when they fit together, it has no
\* two problems of one docstring and none that shares an uncleared function name
\* with an MBPP problem, in either file.
VerifiedHeldoutIsSound ==
  verdict = "pass" =>
    LET held == {rec.problem : rec \in {x \in ToSet(files["heldout"]) : x.source = "humaneval-x"}}
    IN /\ built = "ok" => MadeOfCopies
       /\ \A p \in held : p.uid \notin KnownBuggy
       /\ MadeOfCopies =>
            /\ \A p, q \in held : p.doc = q.doc => p.uid = q.uid
            /\ \A p \in held : \A rec \in ToSet(files["train"] \o files["heldout"]) :
                 rec.family = "mbpp" /\ rec.problem.fn = p.fn => p.fn \in KnownCollisions
=============================================================================
