# TLA+ models of the AI coding verifier

A verification development for the Go service under `src/`: it compiles and
tests submissions in a pool of reusable containers, reaps jobs that hang, and
grades what happened; scripts beside it build the tasks it is benchmarked on and
choose the packages its sandbox images carry. The modules here are checked with TLC
on small instances, and every safety property TLC checks is also proved with TLAPS for
every value of the constants.

## The system

| Part | State it keeps | Operations | Talks to |
|---|---|---|---|
| Container pool (`internal/pool`) | `idle` channel, `done` channel, `all`, `count`, `closed` under `mu`; `state` and `jobs` of each container without a lock | `New`, `Acquire`, `Release`, `RemoveByID`, `Close`, `Stats` | backend: `Create`, `Start`, `Remove` |
| TTL reaper (`internal/ttl`) | `deadlines` under `mu`; the sweep goroutine | `Track`, `Untrack`, `Start`, `sweepOnce`, `Wait` | `kill` callback = `pool.RemoveByID` |
| Pipeline (`internal/pipeline`) | none across jobs | `Run`: Acquire, Track, compile, execute, rm, Untrack, Release | pool, reaper, sandbox |
| Sandbox run (`internal/sandbox`) | none | `Run`: mkdir, copy, exec with a limit; timeout detection | runtime client |
| Environment (`pkg/api`) | pool, reaper, cancel function | `NewEnv`, `Verify`, `Close` | all of the above |
| Runtime client (`internal/dockercli`) | the runtime's containers | `Create`, `Start`, `Exec`, `CopyIn`, `Kill`, `Remove` | Docker API |
| Verdict, reward (`internal/verdict`, `internal/reward`) | none | `Classify`, `Compute` | the pipeline's `Result` |
| Diagnostics (`internal/verifier`) | none | `ParseRust`, `ParseGo` | compiler output |
| Bench driver (`cmd/aicv`) | results slice, index channel, wait group | `runBench`, `verifyOne`, `printSummary`, `verify`, `gen-bench` | `Env.Verify` |
| Dataset (`internal/dataset`) | none | `Convert`, `DetectCrates` | bench |
| Task suite (`scripts/task_suite`) | the files of `task_suite/` | `02_build_split.py`, `03_verify.py`, run by hand | the sources it copies; `gen-bench` reads its output |
| Mining scripts (`scripts/mining`) | a directory per day with a raw file and its analyses; `images/go/go.mod`, `images/rust/Cargo.toml` | `mine_go.py`, `mine_rust.py`, `analyze_prevalence.py`, `analyze.py`, `generate_gomod.py`, `generate_cargo_toml.py`, run by hand | GitHub; the images are built from the two manifests |
| Images, seccomp (`images/`) | configuration | none | runtime |

**What is hard.** Every client of the pool is a goroutine; the sweeper is another
and the caller of `Close` a third. `Acquire` and `Release` read a flag under the
lock and act on it after unlocking; the channel, the map and the counter are
updated at different moments; the sweeper kills outside its own lock and calls
into the pool; every backend call may fail, and the errors of most removals are
dropped; three different limits (the in-container timeout, the API context, the
reaper's deadline) race with each other. A compiler may be killed in the middle of
a line of the output that is parsed afterwards, and a build of the task suite
between two of its files. A miner reads page after page of a ranking that changes
meanwhile, works past midnight on files named by the day, and may be killed while it
writes over an earlier run; manifests come in forms that two hand-written readers
must get right. `PROJECT.json` lists the hazards line
by line.

**What makes each part correct.** Pool: one owner per container, the accounting,
no forgotten container, callers are served, close is final. Reaper: it collects
only what is overdue, everything that is overdue, and `Wait` means it is quiet.
Environment: only the job that owns a container has a deadline on it, the reaper
collects it only when that deadline is used up, a hung job ends, `Close` returns. Grading: a
timeout is told from an OOM kill, the verdict names the stage that decided it, reward and
verdict agree (so compile failures rank last), every compiler error is counted once
and its fix kept. Bench: each result is
written once by one worker, and the summary adds up. Task suite and workload: no
problem on both sides of the split, a verified held-out set is clean, no case is
lost or invented on the way to a bench. Mining: a package is counted by the
repositories that use it, a selection is what its threshold calls for, every file
follows from one finished run, and a baked manifest has the version each package is
most often given.

## Modules

| Module | Models | Interacts with |
|---|---|---|
| `Pool` | `pool.go`, with `dockercli.Client` as an unreliable backend | |
| `Lease` | abstract specification: what the pool promises its callers | refined by `Pool` (`PoolProperties!ImplementsLease`) |
| `PoolProperties` | the properties of the pool and the refinement mapping | extends `Pool`, instantiates `Lease` |
| `MCPool` | instances for TLC | extends `PoolProperties` |
| `PoolProofs` | proofs: types, ownership, a closed pool, the refinement of `Lease`, recycling, nothing forgotten, capacity, `Stats`, who waits | extends `PoolProperties`, `SequenceLemmas` |
| `Reaper` | `ttl/manager.go` | |
| `Service` | `env.go` and `pipeline.Run` over the pool and the reaper | instantiates `PoolProperties` and `Reaper` |
| `ServiceProofs` | proofs about the service and its reaper | extends `Service`, `SequenceLemmas` |
| `Lists` | filtering and sorting a list, for the modules below | |
| `Diagnostics` | `verifier.go`: which compiler lines become diagnostics | |
| `Grading`, `MCGrading` | `capture.go`, the `Result` of `pipeline.Run`, `verdict.go`, `reward.go` | extends `Diagnostics` |
| `GradingProofs` | proofs about `Grading` and `Diagnostics` | extends `Grading`, `SequenceLemmas` |
| `TaskSuite` | `02_build_split.py`, `03_verify.py` | |
| `Workload`, `MCWorkload` | `gen-bench`, `dataset.go`, `job.go` | extends `TaskSuite` |
| `SuiteProofs` | proofs about `TaskSuite` and `Workload` | extends `Workload`, `SequenceLemmas` |
| `Manifests` | the readers of `go.mod` and `Cargo.toml`, the counting they feed | |
| `Mining` | the two miners, the two analyses, the two generators | extends `Manifests` |
| `MiningProperties` | a second reading of the mined files, and the properties | extends `Mining` |
| `MCMining` | instances for TLC | extends `MiningProperties` |
| `ManifestProofs` | proofs: the `go.mod` reader, what a mined file says of its records | extends `MiningProperties`, `SequenceLemmas` |
| `MiningProofs` | proofs: what is on disk, what the analyses select, what is baked | extends `ManifestProofs` |
| `Bench` | `runBench`, `verifyOne`, the grading in `printSummary` | |
| `BenchProofs` | proofs about `Bench` | extends `Bench`, `SequenceLemmas` |
| `SequenceLemmas` | lemmas: queues, filtering and sorting, concatenation, sizes, induction and recursion over finite sets | extends `Lists` |

An operator written `X_Why` is the definition `X` with a plausible bug. No action
uses it: the mutants of `PROJECT.json` substitute it to show that a property
notices.

### Pool

A step is what a goroutine does between two points where another can get in: a
critical section of `p.mu`, a channel operation, or a backend call. `pc[c]` is
where client `c` is inside `Acquire` or `Release`:

    out -> fast -> holding                              (idle container)
    out -> fast -> reserve -> create -> start -> register -> holding   (grow)
    create/start fail -> undo -> unreserve -> out
    reserve -> select -> wait -> holding | out          (at capacity)
    holding -> park | discard -> remove -> out          (Release)

| Action | Code |
|---|---|
| `Warm`, `WarmFails`, `NewReturns` | `New`: nobody else has the pool yet, so one step per pre-warm iteration; a failing one leads to `CloseMark` |
| `AcquireCheck`, `AcquireFast` | the closed check under the lock, then the non-blocking receive |
| `Reserve`, `Create`, `Start`, `Undo`, `Unreserve`, `Register` | `grow` and `create` |
| `Select`, `WaitExpires` | the blocking select |
| `ReleaseCheck`, `Park`, `Discard`, `RemoveDiscarded` | `Release`, `discard` |
| `RemoveByID`, `ReapDiscard`, `ReapRemove` | `RemoveByID`, `discard`, one sweeper |
| `CloseMark`, `CloseSignal`, `CloseRemove` | `Close` up to the unlock, `close(done)`, the removals |

The idle channel is a FIFO buffer plus the queue of clients parked on it: a send
on a Go channel with a parked receiver goes straight to the longest waiting one,
and this is what makes waiting fair. `used`, `live` and `leaked` belong to the
backend: every id ever created, the containers that exist, those whose `Remove`
failed. Ids are never reused, as in the runtime; when the small instance runs out
of them `Create` fails. `Container.jobs` saturates at `MaxJobs`, since it is only
compared with it.

In `MCPool`'s instances `RemoveByID` may hit any registered container at any time
(more than `Service` allows), so what holds there does not depend on the reaper.

### Reaper

Deadlines are ticks left, 0 when passed, so time needs no bound. A sweep is
`SweepRead` (the clock is read before the lock), `SweepCollect` (the critical
section), then `KillBegin`/`KillEnd` per id, outside the lock, and `SweepEnd`.
`due` is what the clock reading makes overdue; a `Track` after it takes the id
out again because the new deadline is later than the instant that was read. `Exit`
is enabled between sweeps only; a cancelled goroutine may still choose a pending
tick, as a Go select may.

### Service

Adds to the two modules the stage of every client's job and the order of
`pipeline.Run`'s deferred calls and of `Env.Close`. `KillBegin` starts the
reaper's kill and the pool's `RemoveByID` together (or finds the id gone), and
`KillEnd` waits for it. An exec under a TTL ends within `TTL + Overrun` ticks, or
with an error when its container disappears; mkdir, the file copy and rm have no
limit and may take any time on a live container.

### Diagnostics and Grading

`Diagnostics` translates the parsers over classes of lines. A line of cargo's
output is text, broken JSON (the last line of a compiler that was killed), a record
of another kind, or a compiler message with a level, its suggested replacements
and children of the same form; a line of `go build` is a located error, a located
continuation of one, or text. Codes, texts and spans are copied by the code and
left out.

`Grading` has two steps, compile and execute, each with every exit code that
matters, every duration in half-seconds around the limit, and whether the wrapper
killed it; the compile step also has an output, whatever the exit code, except
that a compiler that exits with 0 has compiled all its command covers and printed
no error. Which of the submission's two parts, program and tests, do not compile
is chosen at the start, as is the language. What busybox `timeout`, cargo and go
do is external (`Runs`, `Compilations`). Rewards are in hundredths, so that the
comparison of the arms is exact.

### Bench

The dispatcher, the workers, the unbuffered channel (a send and a receive are one
step), the results slice and the wait group. `Env.Verify` is one step with any
outcome or an error; what happens inside it is `Service`.

### TaskSuite and Workload

`TaskSuite` keeps `task_suite/` as four files of lines, or missing. A build reads
one of several `Releases` of the sources, writes its files in the code's order and
ends with its assertions; it can die before a write or after any number of lines
of it, the last one torn. The seeded generator draws the same positions whenever
it shuffles as many ids, so a draw per length is chosen once, any draw. A record
has its problem's number, function name, docstring and solutions; ids are compared
by source and number, which stands for the order of the strings. The copy of
MultiPL-E's HumanEval, the manifest and the console summary are read by nothing and
left out. `Verify` is `03_verify.py` on the files as they are.

`Workload` adds `gen-bench` and the reading of the specs by `aicv bench`. Each is one
step, since both are run by hand on files nobody else writes meanwhile. A
`jobs[i]` that is not `ok` is what `Bench` gets as a job in error.

### Manifests and Mining

A `go.mod` is a sequence of lines of the kinds the readers tell apart: a line that
opens a `require` block, opens another block, closes one, is an entry, is a `require`
of its own, or is anything else, with a comment that is none, `// indirect`, another
one, or one that only mentions the word. `ParseGoMod` is the miner's reader and
`DirectRequires` is Go's (external). A `Cargo.toml` is the list of its dependencies,
each with a version or without, as a table or a string, with its workspace's
dependencies and members; a version is an operator and a number. Counters keep the
order of first appearance, since `most_common` breaks ties by it and the first
package below a threshold ends a selection.

`Mining` keeps every file by day, missing, torn (its write was interrupted) or whole.
`run` is the miner that is running:

    idle -> search -> fetch -> dump -> idle      (Start, SearchEnds, OpenOutput, Dump)

with one `SearchPage` per page, which may see another ranking each time, and one
`FetchRepo` per repository, which reads one of the manifests the repository may have
at that moment, or none when the request is throttled. `OpenOutput` empties the file
an earlier run of the day has left; `MinerDies` may come anywhere. The Go miner takes
the date when it starts and the Rust miner when it writes. `AnalyzePrevalence`,
`AnalyzeCoverage` and `Generate` are one step each, at any moment of a miner's run,
and the analyses may be interrupted. The number of a run stands for its `mined_at`;
`mined` is a history variable: what each finished run has written. `Init` is the
repository before its Rust run: a Go run in the first directory, its analysis and the
`go.mod` generated from it.

`MiningProperties` does not look at what the miners counted to say what they should
have: `Users`, `WithManifest` and `Names` count again from the records.

## Checks

| Run | Instance | Shows |
|---|---|---|
| `PoolFull` | 3 clients, 3 ids, 2 slots, 1 pre-warmed, 2 jobs per container; all faults, contexts expire, anything may be reaped | `TypeOK`, `SingleOwner`, `CapacityLedger`, `RecycleLimit`, `NoLeak`, `OnlySurplusWaits`, `StatsExact`, `ParkHasRoom`, refinement of `Lease` |
| `PoolClose` | 2 clients, 2 ids, 1 slot, all faults, reaper; fairness | `ClosedIsFinal`, `DrainAfterClose`, `WaiterServedOrSlotFreed` |
| `Service` | 2 clients, 2 ids, 1 slot, failing grows, TTL 1, grace 1; fairness | `TypeOK`, `TrackedIsOwned`, `NoReapOnClosedPool`, `DeadlineIsSpent`, the reaper's `CollectsOverdueOnly`, `HungJobEnds`, `CloseReturns` |
| `Grading` | limits 0, 0.5, 1.5 and 2 s; exit codes 0, 1, 101, 134, 137, 143; both languages; outputs with up to 6 errors, with and without fixes three levels down, and one line of every kind of noise before, among or after them | `TypeOK`, `TimeoutIsTheLimit`, `OutcomeNamesStage`, `RewardFollowsVerdict`, `EveryErrorIsKept` |
| `Bench` | 2 workers, 3 jobs, expecting `pass`, `fail`, nothing or another word; fairness | `OneWriterPerSlot`, `SummarySeesAll`, `SummaryBalances`, `BenchEnds` |
| `Workload` | 2 builds from 4 releases: one, the same in another order, one with a name on both sides, one with three problems of one docstring; 6 HumanEval ids, every draw; two hand-written spec files, one torn | `TypeOK`, `SplitIsClean`, `SplitIgnoresLineOrder`, `VerifiedHeldoutIsSound`, `EveryCaseIsRun` |
| `Mining` | 2 runs over 2 days beside the shipped one; 4 repositories of which 3 are asked for, 2 rankings, pages of 2, one repository that may not be fetched; thresholds 34 and 50, coverage 50 and 75; every `go.mod` of up to 4 lines | `TypeOK`, `GoRequirementsRead`, `OneVotePerRepo`, `SelectionIsExact`, `CoverageIsMinimal`, `Traceable`, `BakesCommonestVersions` |

Violation runs, each refuting a sentence of the source:

- `PoolClosedHandout`: Close falls between Acquire's check and its receive, so a
  closed pool does hand out a container (`pool.go:87`). `ClosedIsFinal` says what
  is true instead: an Acquire that *begins* after Close fails.
- `PoolLostWakeup`: with recycling, a caller parked at capacity is not woken when
  `discard` frees a slot, and may wait for ever below capacity (`pool.go:84`).
  `WaiterServedOrSlotFreed` is what is true instead.
- `ServiceStaleKill`: the sweeper collects an id, its job ends and re-parks the
  container, and the kill then removes a parked container (`pool.go:139`).
- `ServiceEarlyReap`: TTL 4 and grace 2, half of it as in the shipped defaults (60 s and
  30 s): a compilation and a test run, each within its own limit, use up the one
  deadline of TTL + grace, and the reaper removes the container of a job that never hung
  (`pipeline.go:71`, and `pipeline.go:43` on the backstop). `DeadlineIsSpent` is what is
  true instead, at any grace: a job is collected only when TTL + grace can be accounted
  for, in its limited execs or in calls without a limit.
- `MiningGoSchema`: `analyze_prevalence.py:88` reads `repo` of every Go record, which
  `mine_go.py` writes as `full_name`, so the Go analysis ends in an error on every
  file with a repository (`analyze_prevalence.py:13` says that both schemas are
  supported). The shipped Go analysis was made by an earlier script.

Observed on the way and visible in the models, without a run of their own:

- `count` goes to -1 when `Close` resets it while a grow is in flight whose create
  then fails (`TypeOK` has `count \in Int` for that reason).
- More than `MaxSize` containers are live while a discarded one is being removed,
  since the slot is freed first (`pool.go:258`), although `pool.go:30` calls it a "hard
  cap on live containers"; `CapacityLedger` bounds those the pool has not given up.
- With the stale kill above, the channel keeps a removed container while its slot
  is given away, and the branch of `Release` that "should never happen" is
  reachable; `ParkHasRoom` shows that it is reachable in no other way. `Stats`
  counts such a container as idle and then reports one busy too few; `StatsExact`
  says by how much.
- `isCrash` is `exitCode >= 128`, and `cargo test` exits with 101 on a panic, so a
  panic is never `Crashed` although `result.go:59` says so.
- A compile that times out has usually printed no diagnostics and then gets the
  best compile score of the structured arm; so does one whose output has no
  diagnostic (a bad manifest).
- A continuation line of `go build` has a location and counts as an error.
- A spec may expect any word (`job.go:97`), and any word but none is graded
  (`main.go:265`), but `printSummary` knows two: an accepted job that expects `FAIL` is
  incorrect and neither a false positive nor a false negative (`main.go:332`, `335`), so
  that the printed numbers do not add up. `SummaryBalances` says by how much.
- `go build` leaves `_test.go` files out, so Go tests that do not compile pass the
  compile stage and count as failed tests (compare `pipeline.go:83`);
  `OutcomeNamesStage` therefore speaks of Rust where it speaks of the tests.
- `03_verify.py` passes the files of two builds mixed by an interruption, and an empty
  held-out file: it does not compare ids. What a verified held-out set is good for
  even then is `VerifiedHeldoutIsSound`; `SplitIsClean` speaks of builds that ended.
- `gen-bench` leaves the specs of the records before one that does not parse, and a
  bench runs them as if they were all.
- A repository that slides from one page to the next while the miner searches is
  listed twice, and in a Go run it then votes twice and counts twice in the
  denominator; the Rust miner counts its packages once and the repository twice. One
  that slides the other way is missed. `OneVotePerRepo` says what each counts: listings
  in Go (against `mine_go.py`'s "one vote per package per repo"), repositories in Rust.
- Mining again on the same day empties that day's file before the new one is written,
  so an interruption destroys the earlier run; its analysis stays beside the torn file.
- A throttled request for a manifest is recorded as a repository without one.
- `require ( // note` is not taken for a block, and a comment that contains
  `indirect` anywhere excludes a direct requirement (`Plain` says which files are
  read exactly).
- `mine_rust.py` looks at a workspace's own dependencies only when the root has none
  (docstring at 136), and dependencies that say `workspace = true` count as some, with
  no version: these crates are then left out of the image.
- A version `~2.7.0` is stripped to `2.7.0` (`generate_cargo_toml.py:64`), which Cargo
  takes for `^2.7.0`, though line 50 says "keep as-is (tilde requirement)", and `=1.2`
  likewise; `BakesCommonestVersions` states what is written, the bare number; one that starts with `>=` comes out as `*` and is left out as
  "path/git-only" (line 103).
- `analyze.py` reads Go files only and fails on a relative `--mining-dir`, which its
  usage shows; it fails on a run without packages. Both generators fail before they
  write when the selection is empty. The latest directory may be empty or hold only
  the other language: the scripts then stop with an error.

**Bounds.** Two slots with three clients is the smallest pool in which one client
waits while two others interleave a hand-over, a discard and a grow; three ids let
two containers be replaced or one be recycled with another in flight. Two jobs per
container reach the recycling limit after one reuse. One slot makes every client
of `Service` compete for the container the other's job or the reaper holds; a
TTL and a grace of one tick are enough because only the order of limit, deadline and
sweep matters. Only grows fail there: starts and removals that fail are the pool's
matter (`PoolFull`), and with removals that fail a hung job is freed by nobody. Six HumanEval ids are the fewest of which the 80% cut holds two out, as a
pair with one docstring needs, and of two MBPP problems it holds one out; a second
build finds what a first one left. Three of four repositories in pages of two fill a
corpus from two pages with one to spare, and the second ranking moves a repository
across the page boundary both ways; of three votes the thresholds 34 and 50 ask for
two, and shares of one third fall below both. Two runs and two days are the fewest in
which a run overwrites another, crosses midnight, or is analysed after a later one.
Four lines hold a block, its entry, its end and a line after it. Half-second steps are the resolution of
`timedOut`'s margin. Symmetry is used in a safety run only, `PoolFull`.

**Deadlock** is not checked where the system may stop: after `Close`, after the
last grade, after the bench, when the days and runs of the mining instance are used up.

**Fairness.** A goroutine in a call goes on (weak fairness per client for the steps
inside `Acquire` and `Release`; a job that holds a container ends, because
`pipeline.Run` always reaches its deferred `Release` if its calls end). Nobody is
forced to call `Acquire`, `Close` or `RemoveByID`, and no context has to expire.
The ticker fires and time passes; a select with several ready cases chooses
fairly, hence strong fairness of `Exit`. In `Service`, an exec under a limit ends,
a call on a container that is gone ends, and a mkdir, copy or rm on a live
container need not: that is what `HungJobEnds` is about. It assumes that removals
succeed.

## Proofs

Every invariant of the passing runs and every action property is a theorem; what is
left to TLC is liveness. The theorems hold for any finite set of clients, any ids, any
configuration and any set of failing calls (pool and service), any TTL, grace and
overrun (service), any number of workers and jobs (bench), any limits, durations, exit
codes and outputs (grading), any sources, releases and draws and any number of
interrupted builds (task suite and workload), and any repositories, manifests,
rankings, thresholds, days and runs (mining). They rest on the assumptions the modules
make of their constants, which TLC evaluates on every run:

| Assumption | Says |
|---|---|
| `ConfigAssumption`, `PoolAssumption` | what `pool.go:62` makes of a configuration, what an id is; the same for the service's pool |
| `ServiceAssumption` | TTL, grace and overrun are numbers of ticks, the first two not 0 |
| `BenchAssumption`, `UnsetIsNoResult` | there are workers and jobs; an unwritten slot can be told from a result |
| `MessagesAssumption`, `GradingAssumption` | compiler messages are finite trees; exit codes are bytes, outputs are lines |
| `WorkloadAssumption` | hand-written spec files are lists of specs and torn lines |
| `SuiteAssumption` | a release lists each problem of a source once, with solutions of the two kinds; a known pair is of two problems at most |
| `MiningAssumption`, `PublishedAssumption`, `ShortGoModsAssumption` | coverage thresholds are percentages (`analyze.py:23`), rankings list a repository once, manifests are lines of the modelled kinds |

| Theorem | Says | Inductive invariant |
|---|---|---|
| `PoolProofs!TypeCorrect` | `[]TypeOK`: the idle channel never holds more than `MaxSize` containers | `OwnerInv` |
| `PoolProofs!SingleOwnership` | `[]SingleOwner` | `OwnerInv` |
| `PoolProofs!CloseIsFinal` | `ClosedIsFinal` | `OwnerInv`, `ShutOut` |
| `PoolProofs!Refinement` | `ImplementsLease` | `OwnerInv` |
| `PoolProofs!Recycling` | `[]RecycleLimit` | `OwnerInv`, `JobsLeft` |
| `PoolProofs!NothingForgotten` | `[]NoLeak` | `OwnerInv`, `Accounted` |
| `PoolProofs!Capacity` | `[]CapacityLedger` | `OwnerInv`, `LedgerInv`, `Accounted` |
| `PoolProofs!NoOverflow` | `[]ParkHasRoom` | `OwnerInv`, `LedgerInv` |
| `PoolProofs!StatsCount` | `[]StatsExact` | the same, `PlacedInv` |
| `PoolProofs!NoNeedlessWait` | `[]OnlySurplusWaits` | the same, `RoomInv` |
| `ServiceProofs!Composition` | a behaviour of the service is one of its pool and one of its reaper | `Queues`, `Jobs` |
| `ServiceProofs!Tracking` | `[]TrackedIsOwned` | `Queues`, `Jobs`, `Deadlines` |
| `ServiceProofs!NoLateReap` | `[]NoReapOnClosedPool` | `CloseInv` |
| `ServiceProofs!OnlyOverdue` | `CollectsOverdueOnly` | `Deadlines`, `DueIsPast` |
| `ServiceProofs!TypeCorrect` | `[]TypeOK` | `Queues`, `Jobs`, `Types` |
| `ServiceProofs!DeadlineSpent` | `DeadlineIsSpent` | all but `CloseInv`, and `Paced` |
| `GradingProofs!GradingTypeSafe` | `[]TypeOK` | `GradingInv` |
| `GradingProofs!TimeoutExact` | `[]TimeoutIsTheLimit` | `GradingInv` |
| `GradingProofs!OutcomeExact` | `[]OutcomeNamesStage` | `GradingInv` |
| `GradingProofs!RewardExact` | `[]RewardFollowsVerdict` | `GradingInv`, the counting of errors |
| `GradingProofs!ErrorsKept` | `[]EveryErrorIsKept` | `GradingInv`, the two parsers |
| `BenchProofs!OneWriter` | `[]OneWriterPerSlot` | `BenchInv` |
| `BenchProofs!SummaryComplete` | `[]SummarySeesAll` | `BenchInv` |
| `BenchProofs!SummaryAddsUp` | `[]SummaryBalances` | `BenchInv`, `Recorded` |
| `BenchProofs!PercentileIndex` | the p95 index is in range and covers 95% | arithmetic |
| `SuiteProofs!WorkloadTypes` | `[]TypeOK`: the draws, the suite's files, the specs, the jobs | `SuiteInv`, `ToolTypes`, `BenchTypes` |
| `SuiteProofs!CleanSplit` | `[]SplitIsClean` | `SuiteInv` |
| `SuiteProofs!LineOrder` | `[]SplitIgnoresLineOrder` | `SuiteInv` |
| `SuiteProofs!HeldoutSound` | `[]VerifiedHeldoutIsSound` | `SuiteInv` |
| `SuiteProofs!EveryCase` | `[]EveryCaseIsRun` | `SuiteInv`, `JobsOfSpecs`, `SpecsOfFile` |
| `ManifestProofs!RequirementsRead` | `[]GoRequirementsRead` | along the lines: `InStep`, `ReadSoFar` |
| `MiningProofs!MiningTypes` | `[]TypeOK`: the contents of every file | `MiningInv`, what the scripts make of their inputs |
| `MiningProofs!Traceability` | `[]Traceable` | `MiningInv` |
| `MiningProofs!VotesAreRepositories` | `[]OneVotePerRepo` | `MiningInv`, the counting of records |
| `MiningProofs!SelectionByPrevalence` | `[]SelectionIsExact` | the same, ranked prefixes |
| `MiningProofs!SmallestCover` | `[]CoverageIsMinimal` | the same, weights |
| `MiningProofs!BakedVersions` | `[]BakesCommonestVersions` | the same, votes by version |
| `MiningProofs!ThresholdsNest` | a stricter threshold selects a prefix of what a looser one does | arithmetic, cardinalities |

**Ownership.** `SingleOwner` alone is not inductive: a step that takes or gives a
container needs to know that the container is nowhere else. `OwnerInv` adds
`Placement` (a client has a container exactly at the positions of `HasCtrAt`;
everything in the channel, the map and Close's snapshot has been created, so a
fresh id collides with nothing) and `WaitersWait` (the receive queue holds parked
clients, each once, so a hand-over reaches a client without a container).
`OwnerInvStep` has one step per action; steps of the same shape share a lemma
(`MoveKeepsOwnership`, `DropKeepsOwnership`, `TakeIdleKeepsOwnership`, ...), and
`SequenceLemmas` says what `Tail`, `Append` and `RemoveAt` do to sequences without
repetition.

**A closed pool.** `ClosedIsFinal` speaks of what follows a state, so it needs a fact
that stays true from there on: `ShutOut(c)`, Close has begun and `c` is outside. The
only step that could bring `c` in without `c` calling is a hand-over, and the queue
holds parked clients only (`WaitersWait`); if `c` calls, it fails the check.

**Accounting.** Each of the three invariants is inductive relative to `OwnerInv`.
`JobsLeft` follows a container through the places between two loans (about to be
parked, in the channel, in creation), where its count must already be below the
limit. `Accounted` adds that Close's snapshot is empty until Close takes it:
otherwise `CloseMark` would forget what was in it. `LedgerInv` adds that a
container being created is not registered yet (else registering it would not
grow `all`), that `all` is finite, and that `New` is alone while it pre-warms, so
that it cannot pass `MaxSize` although it does not test for it.

**Registered containers.** `PlacedInv` says where they are while the pool is open:
in the channel or with the client that owns them, never with one that removes them.
Its hard cases are `Register` (the reaper must not hold the id that is registered,
or its removal would hit a container it has not seen) and the hand-over of `Park`. With
it the ledger can be split into containers in use and parked ones, which is `Stats`;
and since no container is in two places, one that is about to be parked has a slot in
the channel. `RoomInv` counts clients: once somebody queues, there are no more parked
containers than clients free to take one, because a client queues only after it found
the channel empty and every container parked since has freed the client that parked
it. A client that finds the pool full then counts one client for each of the `MaxSize`
slots, and none of those queues.

**Refinement.** `LeaseStep` maps each action to the lease: receives are `Borrow`,
`Register` is `Supply`, a failed start is `Spoil`, a send is `Return` or `PassOn`,
the start of a discard (or a release of a container the reaper took) is `Retire`,
everything else stutters.

**The service.** `Composition` takes the service apart: each of its steps is a step of
the pool, with every id reapable and no caller giving up, or leaves the pool alone,
and the same for the reaper. What is proved of the pool therefore holds in the
service. (A theorem of an instantiated module cannot be cited, so `Queues` states again
the part of `OwnerInv` the jobs need.) `Jobs` ties the stage of a job to the pool: a job
that is running holds its container, since only its own `Release` takes it away. Then
each deadline has its job (`Deadlines`), whatever the order of `Track`, `Untrack`, kill
and hand-over. `CloseInv` orders the shutdown: the pool is closed by `NewEnv`'s failure
path, before there is a reaper, or after the sweeper has exited, and the pool's
`RemoveByID` runs only under a kill. `DueIsPast` is about the clock that is read before
the lock: what was overdue then still is, or has been untracked or given a later
deadline, and then it is no longer among those found. `Paced` accounts for every tick
between `Track` and the deadline: it was spent in one of the two limited execs, or
outside of them.

**Grading.** `GradingInv` says what the `Result` is made from: the last exec was one
under the job's limit (`LastRun`), every field follows from it (`ResultOfLast`), and an
exit with 0 needs parts that compile (`ExitZeroCompiles`, which differs for Rust and Go).
`TimeoutExact` and `OutcomeExact` then split on the stage and on `timedOut`'s margin. For
the diagnostics one has to know what the parsers make of output of any length and of
messages of any depth: `FamilyFacts` and `SuggestionFacts` show that the traversal of a
message reaches the message and all its descendants and keeps their fixes. The function
it is defined by exists and is unique (`SolutionExists`, `SolutionsAgree`), which is
where `MessagesAssumption` is used.

**Bench.** The three counts of the summary and the misworded jobs partition the graded
ones, because every result written is one `verifyOne` may return for that job
(`Recorded`), and `verifyOne` grades by what the job expects (`VerifyOneGrades`), so that
the four sets are disjoint.

**Task suite.** `SuiteInv` follows a build through its interruptions: the files written
so far hold what this build made of its sources (`Written`), each file is the beginning
of what some build made of some release, perhaps of another one each (`OfOneBuild`),
and the verification vouches for the files that are there (`Cleared`). `CleanSplit`
needs that both sides were cut from one list without repetition; `LineOrder` that a
sorted list is determined by its elements (`SortedUnique`); `HeldoutSound` works from
beginnings of files alone, as the verification does. `JobsOfSpecs` and `SpecsOfFile` add
what `gen-bench` and the bench have read. `BenchTypes` adds their types: `gen-bench`
converts the lines before the first torn one, which are records (`ParsedFacts`).

**Reading a manifest.** `GoRequirementsRead` compares the miner's line-by-line reader
with a definition by brackets. `InStep` says that after each line the reader believes to
be in a `require` block only if the last bracket opened one (and exactly then, if no
comment confuses it); `ReadSoFar` that what it has extracted is what is required in the
lines read. Both are shown by induction over the lines.

**Mining.** `Traceable` relates files made at different times and is not inductive: an
analysis must stay true when a later run writes over the file it was made from.
`MiningInv` adds that the output of a run is written once (`WrittenOnce`), that the
miner's state is that of a search (`CorpusInv`, `Tables`), and that every whole file is
what its script makes of the output of a finished run (`RawGood`, `PrevGood`, `CovGood`,
`BakedGood`). That output is in turn what a miner makes of some list of well-formed
records (`Holds`). Nothing else about the records is needed: the remaining theorems are
about operators, for any records. `Tallied` and `RankedBy` say what the two miners'
counters hold, in which order, and `OneVotePerRepo` follows. A selection is a prefix of
the ranking, cut at the first package below the threshold; since the ranking falls, that
is the set of all packages above it. For the coverage, the weight of a set of packages
is the number of pairs of a list and a package it names; the sum of the counts is this
number whatever the order of the summation (`SumsAgree`), no set of `k` packages weighs
more than the first `k` (`TopIsHeaviest`), and `Least` is the point where the
script's loop stops. A baked version is the most frequent one of those its package
is given: `VersionsCounted` says that a version has the votes of the records that name it
first, in Go in the miner's counter and in Rust in the analysis, `ModalIsMostBorne` that
no other has more, and `GoModBakes` and `CargoTomlBakes` what becomes of it in a manifest.

**Induction.** The induction theorems of the library take an operator as a parameter,
which the installed provers cannot instantiate. `SequenceLemmas` states the same facts
with sets: `NatMinimum`, `Induction` and `FiniteInduction` say that a set of numbers (of
parts of a finite set) closed under one more element holds them all, and a proof
collects the indices at which its claim holds in such a set. For what is defined
by folds or recursive functions, the function has first to be shown to exist (`FoldExists`,
`FlattenDef`, `SolutionExists`). Filtering and sorting come from `Lists`, by
arranging positions in order, instead of `SelectSeq` and `SortSeq`: the proof system
knows those by name only.

**Only model-checked.** Liveness: `DrainAfterClose`, `WaiterServedOrSlotFreed`,
`HungJobEnds`, `CloseReturns` and `BenchEnds`. They rest on fairness, so on ENABLED, which
TLAPS does not handle. The violation runs are TLC's as well.

## Not modelled, and the plan

Modelled: the pool and its lease, the reaper, the service, grading with its
diagnostics, the bench, the task suite and the workload, the mining of packages.

What could still be added, in this order:

1. `Service` with TTL 0 (no in-container limit, a deadline of the grace alone).
2. Proofs of the safety halves of liveness: that a closed pool, once drained, stays
   drained; that the jobs a bench still has to do become fewer with each result.
3. `verify` of `aicv`: reading a project directory or a single file into a job.

Left out: the images and the seccomp profile (configuration), the command-line
handling and printing, the tar encoding, `cmd/smoke`. Of the mining: the charts, the
console summaries, percentages rounded for display, `example_repos` and
`version_distribution` (written, read by nothing), a generator interrupted in its one
short write, and two miners at once (in two languages they write disjoint files).
The order of the names within a Go record is that of the `go.mod` here and
alphabetical in the code: it decides only the order of ties, which no property
depends on.
