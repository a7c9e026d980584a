-------------------------------- MODULE Bench --------------------------------
(***************************************************************************)
(* cmd/aicv bench: a dispatcher feeds the job indices to a fixed number of *)
(* workers over an unbuffered channel, each worker verifies its job and    *)
(* writes the job's own slot of the results, and the summary grades them   *)
(* once every worker has exited (main.go, job.go).  Env.Verify is one step *)
(* here with any outcome; module Service models what happens inside it.    *)
(***************************************************************************)
EXTENDS Integers, FiniteSets

CONSTANTS
  Workers,   \* the worker goroutines
  N,         \* number of job specs (bench refuses an empty file)
  Expectations, \* what specs may give as "expected": any string, "" when left out
  Unset      \* a slot of the results nobody has written

ASSUME BenchAssumption ==
  /\ IsFiniteSet(Workers) /\ Workers # {} /\ N \in Nat \ {0}
  /\ Expectations \subseteq STRING

VARIABLES
  specs,    \* what each line of the file asks for: a runnable job or not, and
            \* the verdict it expects, which nothing checks to be "pass" or "fail"
  sent,     \* number of indices the dispatcher has sent
  open,     \* idxs has not been closed
  at,       \* at[w]: the index worker w is verifying, 0 while it receives
  exited,   \* the workers that have seen the channel closed
  results,  \* the results slice
  main      \* cmdBench: "running", "summary" (runBench returned), "closed"

vars == <<specs, sent, open, at, exited, results, main>>

Jobs == 1..N
Outcomes == {"passed", "compile_error", "runtime_error", "test_failed"}
Specs == [runnable : BOOLEAN, expected : Expectations]
Results == [id : Jobs, outcome : Outcomes \cup {"error"}, expected : Expectations \cup {""},
            graded : BOOLEAN, correct : BOOLEAN]

ASSUME UnsetIsNoResult == Unset \notin Results

Init ==
  /\ specs \in [Jobs -> Specs]
  /\ sent = 0 /\ open = TRUE
  /\ at = [w \in Workers |-> 0] /\ exited = {}
  /\ results = [i \in Jobs |-> Unset]
  /\ main = "running"

Dispatch_PastEnd(w) ==
  /\ sent <= N /\ at[w] = 0 /\ sent' = sent + 1 /\ at' = [at EXCEPT ![w] = sent + 1]
  /\ UNCHANGED <<specs, open, exited, results, main>>

\* A send meets a worker that is receiving.
Dispatch(w) ==
  /\ sent < N /\ at[w] = 0
  /\ sent' = sent + 1
  /\ at' = [at EXCEPT ![w] = sent + 1]
  /\ UNCHANGED <<specs, open, exited, results, main>>

CloseIdxs_Forgotten == sent = N /\ open /\ UNCHANGED vars

CloseIdxs ==
  /\ sent = N /\ open /\ open' = FALSE
  /\ UNCHANGED <<specs, sent, at, exited, results, main>>

ScoreCorrect_NotFailed(expected, outcome) ==
  IF expected = "pass" THEN outcome # "test_failed" ELSE outcome # "passed"

\* "any rejection counts" for a case that is expected to fail.
ScoreCorrect(expected, outcome) ==
  IF expected = "pass" THEN outcome = "passed" ELSE outcome # "passed"

\* A job that could not be run or verified carries no grade.
ErrorResult(i) == [id |-> i, outcome |-> "error", expected |-> "",
                   graded |-> FALSE, correct |-> FALSE]

VerdictResult(i, outcome) ==
  LET expected == specs[i].expected
      graded == expected # ""
  IN [id |-> i, outcome |-> outcome, expected |-> expected, graded |-> graded,
      correct |-> graded /\ ScoreCorrect(expected, outcome)]

\* What verifyOne may return: an error for a spec that is no job, a verdict or
\* an error of Env.Verify for one that is.
VerifyOne(i) ==
  {ErrorResult(i)}
    \cup {VerdictResult(i, o) : o \in IF specs[i].runnable THEN Outcomes ELSE {}}

Verify_LastSlot(w) ==
  /\ at[w] # 0
  /\ \E r \in VerifyOne(at[w]) : results' = [results EXCEPT ![sent] = r]
  /\ at' = [at EXCEPT ![w] = 0]
  /\ UNCHANGED <<specs, sent, open, exited, main>>

Verify(w) ==
  /\ at[w] # 0
  /\ \E r \in VerifyOne(at[w]) : results' = [results EXCEPT ![at[w]] = r]
  /\ at' = [at EXCEPT ![w] = 0]
  /\ UNCHANGED <<specs, sent, open, exited, main>>

WorkerExit(w) ==
  /\ at[w] = 0 /\ ~open /\ w \notin exited
  /\ exited' = exited \cup {w}
  /\ UNCHANGED <<specs, sent, open, at, results, main>>

RunBenchReturns_NoWait ==
  /\ main = "running" /\ ~open
  /\ main' = "summary"
  /\ UNCHANGED <<specs, sent, open, at, exited, results>>

\* wg.Wait
RunBenchReturns ==
  /\ main = "running" /\ exited = Workers
  /\ main' = "summary"
  /\ UNCHANGED <<specs, sent, open, at, exited, results>>

\* The deferred Env.Close, after the results and the summary are written.
CloseEnv ==
  /\ main = "summary" /\ main' = "closed"
  /\ UNCHANGED <<specs, sent, open, at, exited, results>>

Next ==
  \/ \E w \in Workers : Dispatch(w) \/ Verify(w) \/ WorkerExit(w)
  \/ CloseIdxs \/ RunBenchReturns \/ CloseEnv

Spec == Init /\ [][Next]_vars

\* The goroutines run, and Env.Verify returns.
FairSpec == Spec /\ WF_vars(Next)

-----------------------------------------------------------------------------
(* printSummary                                                            *)

Finished == {i \in Jobs : results[i].outcome # "error"}
Graded == {i \in Jobs : results[i].graded}
Correct == {i \in Graded : results[i].correct}
FalsePos == {i \in Graded : results[i].expected = "fail" /\ results[i].outcome = "passed"}
FalseNeg == {i \in Graded : results[i].expected = "pass" /\ results[i].outcome # "passed"}

\* The 0-based index of the 95th percentile of n sorted numbers.
P95Index_Interpolated(n) == (95 * (n - 1)) \div 100
P95Index(n) ==
  LET idx == (95 * n) \div 100 IN IF idx >= n THEN n - 1 ELSE idx

-----------------------------------------------------------------------------
\* Types of the variables.
TypeOK ==
  /\ specs \in [Jobs -> Specs] /\ sent \in 0..N /\ open \in BOOLEAN
  /\ at \in [Workers -> 0..N] /\ exited \subseteq Workers
  /\ results \in [Jobs -> Results \cup {Unset}]
  /\ main \in {"running", "summary", "closed"}

\* Workers share the results slice without a lock: no job is with two workers,
\* and a slot that has been written is never with one again.
OneWriterPerSlot ==
  /\ \A v, w \in Workers : v # w /\ at[v] # 0 => at[v] # at[w]
  /\ \A w \in Workers : at[w] # 0 => results[at[w]] = Unset

\* The summary sees every job's own result, and no worker still uses the
\* environment once it is closed.
SummarySeesAll ==
  main # "running" => /\ \A i \in Jobs : results[i] # Unset /\ results[i].id = i
                      /\ exited = Workers

\* Index P95Index(n) exists among n sorted numbers, and at least 95% of them are
\* at it or before it.
Covers(n) == P95Index(n) \in 0..(n - 1) /\ 100 * (P95Index(n) + 1) >= 95 * n

\* Accepted jobs whose expectation is neither word the summary knows: graded as
\* incorrect, in neither of its two counters.
Misworded ==
  {i \in Jobs : specs[i].expected \notin {"", "pass", "fail"} /\ results[i].outcome = "passed"}

\* The printed numbers add up, but for misworded jobs: a finished job with any
\* expectation is graded, and is correct, a false positive, a false negative or
\* misworded; every solution expected to "fail" that the verifier accepted is among
\* the false positives; and the percentile is one of the finished jobs' latencies,
\* at or above 95% of them.
SummaryBalances ==
  main # "running" =>
    /\ Graded = {i \in Finished : specs[i].expected # ""}
    /\ Cardinality(Graded) = Cardinality(Correct) + Cardinality(FalsePos)
                               + Cardinality(FalseNeg) + Cardinality(Misworded)
    /\ FalsePos = {i \in Jobs : specs[i].expected = "fail" /\ results[i].outcome = "passed"}
    /\ Finished # {} => Covers(Cardinality(Finished))

\* A bench run ends with the environment closed: no worker and no dispatcher
\* waits for ever on the channel.
BenchEnds == <>(main = "closed")
=============================================================================
