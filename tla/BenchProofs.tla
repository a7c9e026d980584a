----------------------------- MODULE BenchProofs -----------------------------
(***************************************************************************)
(* The percentile of cmd/aicv bench for every number of finished jobs, and *)
(* the ownership of the results slice for every number of workers and jobs.*)
(***************************************************************************)
EXTENDS Bench, SequenceLemmas

\* For any number of jobs the 95th percentile index lies in the slice, covers at
\* least 95% of it, and the cap after the division never applies.
THEOREM PercentileIndex == \A n \in Nat \ {0} : Covers(n) /\ P95Index(n) = (95 * n) \div 100
<1> SUFFICES ASSUME NEW n \in Nat \ {0} PROVE Covers(n) /\ P95Index(n) = (95 * n) \div 100
  OBVIOUS
<1> DEFINE q == (95 * n) \div 100
<1>1. q \in Nat /\ 100 * q <= 95 * n /\ 95 * n < 100 * q + 100 OBVIOUS
<1> HIDE DEF q
<1>2. q < n BY <1>1
<1>3. P95Index(n) = q BY <1>2, <1>1 DEF P95Index, q
<1> QED BY <1>1, <1>2, <1>3 DEF Covers, q

-----------------------------------------------------------------------------
(* What the rendezvous on idxs and the wait group guarantee.               *)

\* Each worker is at an index that has been sent, and at one nobody else is at.
Exclusive ==
  /\ \A w \in Workers : at[w] <= sent
  /\ \A v, w \in Workers : v # w /\ at[v] # 0 => at[v] # at[w]

\* A slot holds its own job's result exactly when its index has been sent and
\* no worker is at it any more.
SlotsFollow ==
  \A i \in Jobs :
    IF i <= sent /\ \A w \in Workers : at[w] # i
    THEN results[i] # Unset /\ results[i].id = i
    ELSE results[i] = Unset

\* The order of the shutdown: all sent, channel closed, workers gone, returned.
ShutdownOrder ==
  /\ ~open => sent = N
  /\ exited # {} => ~open
  /\ \A w \in exited : at[w] = 0
  /\ main # "running" => exited = Workers

BenchInv == TypeOK /\ Exclusive /\ SlotsFollow /\ ShutdownOrder

\* What verifyOne returns is a result of the job it was given.
LEMMA VerifyOneResult ==
  ASSUME NEW i \in Jobs, specs \in [Jobs -> Specs], NEW r \in VerifyOne(i)
  PROVE  r \in Results /\ r.id = i /\ r # Unset
<1>1. specs[i] \in Specs OBVIOUS
<1>2. CASE r = ErrorResult(i)
  <2>1. r \in Results /\ r.id = i BY <1>2 DEF ErrorResult, Results
  <2> QED BY <2>1, UnsetIsNoResult
<1>3. CASE \E o \in Outcomes : r = VerdictResult(i, o)
  <2>1. PICK o \in Outcomes : r = VerdictResult(i, o) BY <1>3
  <2> DEFINE e == specs[i].expected
             g == e # ""
             k == g /\ ScoreCorrect(e, o)
  <2>2. e \in Expectations BY <1>1 DEF Specs
  <2>3. g \in BOOLEAN /\ k \in BOOLEAN BY DEF ScoreCorrect
  <2>4. r = [id |-> i, outcome |-> o, expected |-> e, graded |-> g, correct |-> k]
    BY <2>1 DEF VerdictResult
  <2> HIDE DEF e, g, k
  <2>5. r \in Results /\ r.id = i BY <2>2, <2>3, <2>4 DEF Results
  <2> QED BY <2>5, UnsetIsNoResult
<1> QED BY <1>2, <1>3 DEF VerifyOne

\* The state runBench starts from.
LEMMA BenchInvInit == Init => BenchInv
BY BenchAssumption
DEF Init, BenchInv, TypeOK, Exclusive, SlotsFollow, ShutdownOrder, Jobs

\* Every step of the dispatcher, of a worker and of the main goroutine preserves
\* the invariant.
LEMMA BenchInvStep == BenchInv /\ [Next]_vars => BenchInv'
<1> SUFFICES ASSUME BenchInv, [Next]_vars PROVE BenchInv' OBVIOUS
<1> USE BenchAssumption DEF BenchInv, TypeOK, Jobs
<1>1. ASSUME NEW w \in Workers, Dispatch(w) PROVE BenchInv'
  <2> USE <1>1 DEF Dispatch
  <2>1. TypeOK' OBVIOUS
  <2>2. Exclusive' BY DEF Exclusive
  <2>3. SlotsFollow' BY DEF SlotsFollow, Exclusive
  <2>4. ShutdownOrder' BY DEF ShutdownOrder
  <2> QED BY <2>1, <2>2, <2>3, <2>4
<1>2. ASSUME NEW w \in Workers, Verify(w) PROVE BenchInv'
  <2>1. PICK r \in VerifyOne(at[w]) : results' = [results EXCEPT ![at[w]] = r]
    BY <1>2 DEF Verify
  <2>2. at[w] \in Jobs BY <1>2 DEF Verify
  <2>3. r \in Results /\ r.id = at[w] /\ r # Unset BY <2>1, <2>2, VerifyOneResult
  <2> USE <1>2, <2>1, <2>2, <2>3 DEF Verify
  <2>4. TypeOK' OBVIOUS
  <2>5. Exclusive' BY DEF Exclusive
  <2>6. SlotsFollow' BY DEF SlotsFollow, Exclusive
  <2>7. ShutdownOrder' BY DEF ShutdownOrder
  <2> QED BY <2>4, <2>5, <2>6, <2>7
<1>3. ASSUME NEW w \in Workers, WorkerExit(w) PROVE BenchInv'
  BY <1>3 DEF WorkerExit, Exclusive, SlotsFollow, ShutdownOrder
<1>4. CASE CloseIdxs
  BY <1>4 DEF CloseIdxs, Exclusive, SlotsFollow, ShutdownOrder
<1>5. CASE RunBenchReturns
  BY <1>5 DEF RunBenchReturns, Exclusive, SlotsFollow, ShutdownOrder
<1>6. CASE CloseEnv
  BY <1>6 DEF CloseEnv, Exclusive, SlotsFollow, ShutdownOrder
<1>7. CASE UNCHANGED vars
  BY <1>7 DEF vars, Exclusive, SlotsFollow, ShutdownOrder
<1> QED BY <1>1, <1>2, <1>3, <1>4, <1>5, <1>6, <1>7 DEF Next

\* No two workers write the same slot of the results slice, and none writes a
\* slot twice: the slice needs no lock (runBench).
THEOREM OneWriter == Spec => []OneWriterPerSlot
<1>1. BenchInv => OneWriterPerSlot
  BY DEF BenchInv, TypeOK, Exclusive, SlotsFollow, OneWriterPerSlot, Jobs
<1> QED BY BenchInvInit, BenchInvStep, <1>1, PTL DEF Spec

\* When runBench returns every job's own result is in its slot and no worker
\* still uses the environment.
THEOREM SummaryComplete == Spec => []SummarySeesAll
<1>1. BenchInv => SummarySeesAll
  BY BenchAssumption DEF BenchInv, TypeOK, SlotsFollow, ShutdownOrder, SummarySeesAll, Jobs
<1> QED BY BenchInvInit, BenchInvStep, <1>1, PTL DEF Spec

-----------------------------------------------------------------------------
(* What printSummary adds up.                                              *)

\* Every slot that has been written holds what verifyOne may return for its job.
Recorded == \A i \in Jobs : results[i] # Unset => results[i] \in VerifyOne(i)

\* Only a worker that has verified its job writes, and what a job asks for does
\* not change.
LEMMA RecordedInvariant == Spec => []Recorded
<1>1. Init => Recorded BY DEF Init, Recorded
<1>2. BenchInv /\ Recorded /\ [Next]_vars => Recorded'
  <2> SUFFICES ASSUME BenchInv, Recorded, [Next]_vars PROVE Recorded' OBVIOUS
  <2>1. specs' = specs
    BY DEF Next, Dispatch, Verify, WorkerExit, CloseIdxs, RunBenchReturns, CloseEnv, vars
  <2>2. \A i : VerifyOne(i)' = VerifyOne(i)
    BY <2>1 DEF VerifyOne, VerdictResult
  <2>3. CASE results' = results BY <2>2, <2>3 DEF Recorded
  <2>4. CASE \E w \in Workers : Verify(w)
    <3>1. PICK w \in Workers : Verify(w) BY <2>4
    <3>2. PICK r \in VerifyOne(at[w]) : results' = [results EXCEPT ![at[w]] = r]
      BY <3>1 DEF Verify
    <3>3. \A i \in Jobs : results'[i] = IF i = at[w] THEN r ELSE results[i]
      BY <3>2 DEF BenchInv, TypeOK
    <3> QED BY <2>2, <3>2, <3>3 DEF Recorded
  <2> QED BY <2>3, <2>4
        DEF Next, Dispatch, WorkerExit, CloseIdxs, RunBenchReturns, CloseEnv, vars
<1> QED BY BenchInvInit, BenchInvStep, <1>1, <1>2, PTL DEF Spec

\* A result is an error, which is not graded, or a verdict graded by its job's
\* expectation: a "pass" by acceptance, any other word by rejection.
GradedByJob(i) ==
  /\ results[i].outcome = "error" => ~results[i].graded
  /\ results[i].outcome # "error" =>
       /\ results[i].expected = specs[i].expected
       /\ results[i].graded <=> specs[i].expected # ""
  /\ results[i].graded =>
       /\ results[i].expected = specs[i].expected /\ specs[i].expected # ""
       /\ results[i].correct <=> IF results[i].expected = "pass"
                                THEN results[i].outcome = "passed"
                                ELSE results[i].outcome # "passed"

\* verifyOne grades by the job's expectation.
LEMMA VerifyOneGrades ==
  ASSUME specs \in [Jobs -> Specs], NEW i \in Jobs, results[i] \in VerifyOne(i)
  PROVE  GradedByJob(i)
<1>1. CASE results[i] = ErrorResult(i)
  <2> DEFINE r == results[i]
  <2>1. r = [id |-> i, outcome |-> "error", expected |-> "", graded |-> FALSE,
             correct |-> FALSE]
    BY <1>1 DEF ErrorResult
  <2> HIDE DEF r
  <2>2. r.outcome = "error" /\ r.graded = FALSE BY <2>1
  <2> QED BY <2>2 DEF GradedByJob, r
<1>2. CASE \E o \in Outcomes : results[i] = VerdictResult(i, o)
  <2>1. PICK o \in Outcomes : results[i] = VerdictResult(i, o) BY <1>2
  <2> DEFINE e == specs[i].expected
             r == results[i]
  <2>2. r = [id |-> i, outcome |-> o, expected |-> e, graded |-> e # "",
             correct |-> e # "" /\ ScoreCorrect(e, o)]
    BY <2>1 DEF VerdictResult
  <2>3. o # "error" BY DEF Outcomes
  <2> HIDE DEF e, r
  <2>5. r.outcome = o /\ r.expected = e BY <2>2
  <2>6. r.graded <=> e # "" BY <2>2
  <2>7. r.correct <=> e # "" /\ ScoreCorrect(e, o) BY <2>2
  <2>8. ScoreCorrect(e, o) <=> IF e = "pass" THEN o = "passed" ELSE o # "passed"
    BY DEF ScoreCorrect
  <2> QED BY <2>3, <2>5, <2>6, <2>7, <2>8 DEF GradedByJob, e, r
<1> QED BY <1>1, <1>2 DEF VerifyOne

\* The graded jobs are the correct, the falsely accepted, the falsely refused and the
\* misworded ones, for any number of jobs and workers and whatever the jobs expect,
\* and the percentile is a latency.
THEOREM SummaryAddsUp == Spec => []SummaryBalances
<1>1. BenchInv /\ Recorded => SummaryBalances
  <2> SUFFICES ASSUME BenchInv, Recorded, main # "running"
               PROVE  /\ Graded = {i \in Finished : specs[i].expected # ""}
                      /\ Cardinality(Graded) = Cardinality(Correct) + Cardinality(FalsePos)
                                                + Cardinality(FalseNeg) + Cardinality(Misworded)
                      /\ FalsePos = {i \in Jobs : specs[i].expected = "fail"
                                                    /\ results[i].outcome = "passed"}
                      /\ Finished # {} => Covers(Cardinality(Finished))
    BY DEF SummaryBalances
  <2>1. \A i \in Jobs : results[i] # Unset
    BY BenchAssumption
    DEF BenchInv, TypeOK, SlotsFollow, ShutdownOrder, Jobs
  <2>2. \A i \in Jobs : GradedByJob(i)
    BY <2>1, VerifyOneGrades DEF BenchInv, TypeOK, Recorded
  <2>4. Graded = {i \in Finished : specs[i].expected # ""}
    BY <2>2 DEF GradedByJob, Graded, Finished
  <2>5. FalsePos = {i \in Jobs : specs[i].expected = "fail" /\ results[i].outcome = "passed"}
    BY <2>2 DEF GradedByJob, FalsePos, Graded
  <2>6. IsFiniteSet(Jobs) BY BenchAssumption, IntervalSize DEF Jobs
  <2>7. /\ IsFiniteSet(Correct) /\ IsFiniteSet(FalsePos) /\ IsFiniteSet(FalseNeg)
        /\ IsFiniteSet(Misworded) /\ IsFiniteSet(Finished)
    <3>1. /\ Correct \in SUBSET Jobs /\ FalsePos \in SUBSET Jobs /\ FalseNeg \in SUBSET Jobs
          /\ Misworded \in SUBSET Jobs /\ Finished \in SUBSET Jobs
      BY DEF Correct, FalsePos, FalseNeg, Misworded, Finished, Graded
    <3> QED BY <2>6, <3>1, FS_Subset
  <2>8. Graded = ((Correct \cup FalsePos) \cup FalseNeg) \cup Misworded
    <3>1. ASSUME NEW i \in Graded PROVE i \in ((Correct \cup FalsePos) \cup FalseNeg) \cup Misworded
      BY <2>2 DEF GradedByJob, Graded, Correct, FalsePos, FalseNeg, Misworded
    <3>2. Misworded \subseteq Graded BY <2>4 DEF Misworded, Finished
    <3> QED BY <3>1, <3>2 DEF Correct, FalsePos, FalseNeg
  <2>9. /\ Correct \cap FalsePos = {} /\ (Correct \cup FalsePos) \cap FalseNeg = {}
        /\ ((Correct \cup FalsePos) \cup FalseNeg) \cap Misworded = {}
    BY <2>2 DEF GradedByJob, Graded, Correct, FalsePos, FalseNeg, Misworded
  <2>10. Cardinality(Graded) = Cardinality(Correct) + Cardinality(FalsePos)
                                 + Cardinality(FalseNeg) + Cardinality(Misworded)
    <3>1. /\ IsFiniteSet(Correct \cup FalsePos)
          /\ Cardinality(Correct \cup FalsePos) = Cardinality(Correct) + Cardinality(FalsePos)
      BY <2>7, <2>9, DisjointSum
    <3>2. /\ IsFiniteSet((Correct \cup FalsePos) \cup FalseNeg)
          /\ Cardinality((Correct \cup FalsePos) \cup FalseNeg) =
               Cardinality(Correct \cup FalsePos) + Cardinality(FalseNeg)
      BY <2>7, <2>9, <3>1, DisjointSum
    <3>3. Cardinality(((Correct \cup FalsePos) \cup FalseNeg) \cup Misworded) =
            Cardinality((Correct \cup FalsePos) \cup FalseNeg) + Cardinality(Misworded)
      BY <2>7, <2>9, <3>2, DisjointSum
    <3> QED BY <2>8, <3>1, <3>2, <3>3
  <2>11. ASSUME Finished # {} PROVE Covers(Cardinality(Finished))
    <3>1. Cardinality(Finished) \in Nat \ {0} BY <2>7, <2>11, FS_CardinalityType, FS_EmptySet
    <3> QED BY <3>1, PercentileIndex
  <2> QED BY <2>4, <2>5, <2>10, <2>11
<1> QED BY BenchInvInit, BenchInvStep, RecordedInvariant, <1>1, PTL DEF Spec
=============================================================================
