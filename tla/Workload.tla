------------------------------- MODULE Workload -------------------------------
(***************************************************************************)
(* From a task-suite file to the jobs of a bench: aicv gen-bench (main.go) *)
(* converts its records into known-answer cases (internal/dataset) and     *)
(* writes one job spec per case, and aicv bench reads the specs back and   *)
(* turns each into a job or an error (job.go).  Both run between builds of *)
(* the suite; the spec file at the start may be written by hand.           *)
(***************************************************************************)
EXTENDS TaskSuite

CONSTANTS
  HandWritten, \* spec files that gen-bench has not written, one of which is there at first
  GenTTLs,     \* the values of gen-bench's --ttl flag, seconds
  DefaultTTL,  \* the value of bench's --ttl flag, seconds
  Text         \* the strings a job spec can have

\* jobSpec, the files by their names.
JobSpec ==
  [id : Int \X Text, lang : Text, files : SUBSET Text, crates : SUBSET Text,
   ttl : Int, expected : Text]

ASSUME WorkloadAssumption ==
  /\ GenTTLs \subseteq Int /\ DefaultTTL \in Int
  /\ \A lines \in HandWritten : lines \in Seq(JobSpec \cup {Torn})
  /\ {"rust", "canonical", "buggy", "pass", "fail"} \subseteq Text
  /\ \A r \in Releases : \A p \in ToSet(r.hex) : p.crates \subseteq Text

VARIABLES
  ttlFlag, \* gen-bench's --ttl
  specs,   \* the job-spec file: its lines in order
  origin,  \* the file gen-bench has converted to its end into specs, or "none" (history)
  jobs,    \* bench: for each spec, in order, its job or an error
  refused  \* bench: the spec file was not accepted

vars == <<suiteVars, ttlFlag, specs, origin, jobs, refused>>

Init ==
  /\ SuiteInit
  /\ ttlFlag \in GenTTLs /\ specs \in HandWritten /\ origin = "none"
  /\ jobs = <<>> /\ refused = FALSE

-----------------------------------------------------------------------------
(* internal/dataset                                                        *)

Builtins == {"std", "core", "alloc", "crate", "self", "super"}

\* The roots of the `use` statements, those of the language left out.
DetectCrates(uses) == uses \ Builtins

Case(p, kind, expected) ==
  [id |-> <<p.uid, kind>>, lang |-> "rust", files |-> {kind}, crates |-> DetectCrates(p.crates),
   ttl |-> ttlFlag, expected |-> expected]

Both(p) == <<Case(p, "canonical", "pass"), Case(p, "buggy", "fail")>>

Convert_AlwaysBoth(rec) == IF rec.source = "humaneval-x" THEN Both(rec.problem) ELSE <<>>

\* Canonical first; a solution that is empty gives no case.
Convert(rec) ==
  IF rec.source = "humaneval-x"
  THEN Kept(Both(rec.problem), LAMBDA c : c.files \subseteq rec.problem.solutions)
  ELSE <<>>

-----------------------------------------------------------------------------
(* gen-bench: the output is truncated, and grows until a record that does  *)
(* not parse is fatal; what has been written stays.                        *)

Parsed(lines) ==
  IF Torn \in ToSet(lines) THEN SubSeq(lines, 1, SelectInSeq(lines, LAMBDA l : l = Torn) - 1)
  ELSE lines

GenBench(f) ==
  /\ next = 0 /\ files[f] # Missing
  /\ specs' = FlattenSeq([i \in DOMAIN Parsed(files[f]) |-> Convert(files[f][i])])
  /\ origin' = IF Torn \in ToSet(files[f]) THEN "none" ELSE f
  /\ jobs' = <<>> /\ refused' = FALSE
  /\ UNCHANGED <<suiteVars, ttlFlag>>

-----------------------------------------------------------------------------
(* bench: job.go                                                           *)

ParseLang(name) ==
  CASE name \in {"rust", "rs", ""} -> "Rust"
    [] name \in {"go", "golang"} -> "Go"
    [] OTHER -> "unknown"

JobTTL(spec) == IF spec.ttl > 0 THEN spec.ttl ELSE DefaultTTL

\* jobSpec.job: an error for an unknown language or a spec without files.
Job(spec) ==
  [ok |-> ParseLang(spec.lang) # "unknown" /\ spec.files # {},
   lang |-> ParseLang(spec.lang), ttl |-> JobTTL(spec)]

ReadJobSpecs_SkipsBad(lines) == Kept(lines, LAMBDA s : s # Torn)

\* One bad line and there are no specs.
ReadJobSpecs(lines) == IF Torn \in ToSet(lines) THEN <<>> ELSE lines

\* A bench without specs is refused.
BenchReads ==
  /\ next = 0
  /\ refused' = (ReadJobSpecs(specs) = <<>>)
  /\ jobs' = [i \in DOMAIN ReadJobSpecs(specs) |-> Job(ReadJobSpecs(specs)[i])]
  /\ UNCHANGED <<suiteVars, ttlFlag, specs, origin>>

\* A write to the suite: what specs were made of is no longer there.
Suite ==
  /\ SuiteNext
  /\ origin' = IF files' = files THEN origin ELSE "none"
  /\ UNCHANGED <<ttlFlag, specs, jobs, refused>>

Next ==
  \/ Suite \/ BenchReads
  \/ \E f \in {"train", "heldout"} : GenBench(f)

Spec == Init /\ [][Next]_vars

-----------------------------------------------------------------------------
\* Types: a file of the suite is not there or has lines of one kind, a split file
\* records of its own side only, whatever build wrote it; a spec file has specs and
\* torn lines, and a bench's jobs have a language it knows or none.
TypeOK ==
  /\ heTrain \subseteq 0..(HECount - 1) /\ \A n \in Lengths : drawn[n] \subseteq 1..n
  /\ input \in Releases /\ next \in 0..(Len(Writes) + 1) /\ builds \in 0..MaxBuilds
  /\ built \in {"no", "ok", "leak"} /\ verdict \in {"none", "pass", "fail"}
  /\ \A f \in {"mbpp", "hex"} :
       files[f] = Missing \/ \E r \in Releases : files[f] \in Seq(ToSet(r[f]) \cup {Torn})
  /\ \A f \in {"train", "heldout"} :
       files[f] = Missing \/ \A l \in ToSet(files[f]) : l = Torn \/ l.split = f
  /\ ttlFlag \in GenTTLs /\ origin \in {"none", "train", "heldout"} /\ refused \in BOOLEAN
  /\ specs \in Seq(JobSpec \cup {Torn})
  /\ jobs \in Seq([ok : BOOLEAN, lang : {"Rust", "Go", "unknown"}, ttl : Int])

\* From the suite to the bench no case is lost or invented: of a file converted to
\* its end, each solution of each HumanEval-X problem is one spec, a canonical one
\* expected to pass and a buggy one to fail, no spec is there twice, and a bench
\* that has read them has a Rust job for each.  Of any spec file a bench runs every
\* line or none, and no job is without a limit while it has one to give.
EveryCaseIsRun ==
  /\ jobs # <<>> => DOMAIN jobs = DOMAIN specs
  /\ \A i \in DOMAIN jobs :
       /\ origin # "none" => jobs[i].ok /\ jobs[i].lang = "Rust"
       /\ DefaultTTL > 0 => jobs[i].ttl > 0
  /\ origin # "none" =>
       LET solved == {rec.problem : rec \in {x \in ToSet(files[origin]) : x.source = "humaneval-x"}}
           Answer(s) == IF s = "canonical" THEN "pass" ELSE "fail"
       IN /\ IsInjective([i \in DOMAIN specs |-> specs[i].id])
          /\ {<<specs[i].id, specs[i].expected>> : i \in DOMAIN specs} =
               UNION {{<< <<p.uid, s>>, Answer(s)>> : s \in p.solutions} : p \in solved}
=============================================================================
