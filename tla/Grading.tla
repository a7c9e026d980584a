------------------------------- MODULE Grading -------------------------------
(***************************************************************************)
(* How a submission is graded: sandbox.Run's timeout detection             *)
(* (capture.go), pipeline.Run's two-stage Result, verdict.Classify and the *)
(* reward of internal/reward.  Durations are in half-seconds, rewards in   *)
(* hundredths.                                                             *)
(***************************************************************************)
EXTENDS Diagnostics

CONSTANTS
  TTLs,      \* Job.TTL, in half-seconds (0: no limit)
  ExitCodes, \* what a command may exit with on its own or by a signal
  MaxDur,    \* longest unlimited run considered
  RustOutputs, GoOutputs  \* the outputs of the compilers considered

ASSUME GradingAssumption ==
  /\ TTLs \subseteq Nat /\ ExitCodes \subseteq 0..255 /\ {0, 101, 137} \subseteq ExitCodes
  /\ MaxDur \in Nat
  /\ RustOutputs \subseteq Seq(RustLines) /\ GoOutputs \subseteq Seq(GoLines)

VARIABLES
  ttl,    \* Job.TTL
  lang,   \* Job.Lang
  broken, \* the parts of the submission, of "main" and "tests", that do not compile
  stage,  \* "start", then the Result's Stage once a stage has been judged
  res,    \* the Result's Compiled, Passed, ExitCode, TimedOut, Crashed
  output, \* what the compiler printed: CompilerJSON for Rust, CompilerRaw for Go
  last    \* how the last exec really ended: its exit code, its duration and
          \* whether the timeout wrapper killed it

jobVars == <<ttl, lang, broken>>
vars == <<jobVars, stage, res, output, last>>

-----------------------------------------------------------------------------
(* sandbox/capture.go                                                      *)

SIGKILL == 137
SIGTERM == 143

\* wrapWithTimeout: whole seconds, rounded up; 0 leaves the command unlimited.
LimitSecs(t) == (t + 1) \div 2

TimedOut_AnyKill(exit, secs, dur) == secs > 0 /\ exit \in {SIGKILL, SIGTERM}

\* timedOut: killed by a signal within half a second of the limit or later.
TimedOut(exit, secs, dur) ==
  secs > 0 /\ exit \in {SIGKILL, SIGTERM} /\ dur >= 2 * secs - 1

\* What an exec under a limit can do: end by itself before the limit, or be
\* killed by busybox timeout at the limit, reported up to half a second later.
Runs(secs) ==
  LET own == [exit : ExitCodes, killed : {FALSE},
              dur : 0..(IF secs > 0 THEN 2 * secs - 1 ELSE MaxDur)]
      late == [exit : {SIGKILL}, killed : {TRUE}, dur : (2 * secs)..(2 * secs + 1)]
  IN own \cup (IF secs > 0 THEN late ELSE {})

-----------------------------------------------------------------------------
(* pipeline.Run                                                            *)

Init ==
  /\ ttl \in TTLs /\ lang \in {"Rust", "Go"} /\ broken \in SUBSET {"main", "tests"}
  /\ stage = "start" /\ output = <<>>
  /\ res = [compiled |-> FALSE, passed |-> FALSE, exit |-> 0,
            timedOut |-> FALSE, crashed |-> FALSE]
  /\ last = [exit |-> 0, killed |-> FALSE, dur |-> 0]

\* Signal deaths surface as exit codes >= 128.
IsCrash(exit) == exit >= 128

Judged(r) == TimedOut(r.exit, LimitSecs(ttl), r.dur)

\* What the compile command compiles: `cargo test --no-run`, or `go build`,
\* which leaves the _test.go files out.
CompileCommand(l) == IF l = "Go" THEN {"main"} ELSE {"main", "tests"}

\* What a compiler that ends by itself says: it exits with 0 only when all it was
\* given compiles, and reports no error then.  It may fail without a diagnostic
\* (a bad manifest, a missing dependency), and be killed in the middle of a line.
Compilations(secs) ==
  {c \in Runs(secs) \X (IF lang = "Go" THEN GoOutputs ELSE RustOutputs) :
     c[1].exit = 0 => /\ broken \cap CompileCommand(lang) = {}
                      /\ \A diag \in ToSet(DiagnosticsFor(lang, c[2])) : diag.level # "error"}

Compile_SetsExit ==
  /\ stage = "start" /\ stage' = "compile"
  /\ \E c \in Compilations(LimitSecs(ttl)) :
       /\ last' = c[1] /\ output' = c[2]
       /\ res' = [res EXCEPT !.timedOut = Judged(c[1]), !.exit = c[1].exit,
                             !.compiled = ~Judged(c[1]) /\ c[1].exit = 0]
  /\ UNCHANGED jobVars

Compile ==
  /\ stage = "start" /\ stage' = "compile"
  /\ \E c \in Compilations(LimitSecs(ttl)) :
       /\ last' = c[1] /\ output' = c[2]
       /\ res' = [res EXCEPT !.timedOut = Judged(c[1]),
                             !.compiled = ~Judged(c[1]) /\ c[1].exit = 0]
  /\ UNCHANGED jobVars

Passes(r) == r.exit = 0 /\ ~Judged(r)

\* `cargo test` and `go test` build what is not built yet, so they do not exit
\* with 0 either when a part does not compile.
Execute ==
  /\ stage = "compile" /\ res.compiled /\ stage' = "execute"
  /\ \E r \in Runs(LimitSecs(ttl)) :
       /\ r.exit = 0 => broken = {}
       /\ last' = r
       /\ res' = [compiled |-> TRUE, passed |-> Passes(r), exit |-> r.exit,
                  timedOut |-> Judged(r), crashed |-> IsCrash(r.exit)]
  /\ UNCHANGED <<jobVars, output>>

Next == Compile \/ Execute

Spec == Init /\ [][Next]_vars

-----------------------------------------------------------------------------
(* verdict.Classify                                                        *)

Classify_PassFirst(r) ==
  CASE r.timedOut \/ r.crashed -> "RuntimeError"
    [] ~r.compiled -> "CompileError"
    [] r.passed -> "Passed"
    [] OTHER -> "TestFailed"

Classify(r) ==
  CASE ~r.compiled -> "CompileError"
    [] r.compiled /\ r.passed -> "Passed"
    [] r.compiled /\ ~r.passed /\ (r.timedOut \/ r.crashed) -> "RuntimeError"
    [] OTHER -> "TestFailed"

-----------------------------------------------------------------------------
(* internal/reward, in hundredths, with its own classifier.                *)

RewardClassify_TimeoutOnly(r) ==
  CASE ~r.compiled -> "CompileError"
    [] r.compiled /\ r.passed -> "Passed"
    [] r.compiled /\ ~r.passed /\ r.timedOut -> "RuntimeError"
    [] OTHER -> "TestFailed"

RewardClassify(r) ==
  LET fell == r.timedOut \/ r.crashed
  IN CASE ~r.compiled -> "CompileError"
       [] r.compiled /\ r.passed -> "Passed"
       [] r.compiled /\ ~r.passed /\ fell -> "RuntimeError"
       [] OTHER -> "TestFailed"

Saturation == 5  \* errorSaturation

Anchor(outcome) ==
  CASE outcome = "Passed" -> 100
    [] outcome = "TestFailed" -> -30
    [] outcome = "RuntimeError" -> -60
    [] OTHER -> -100

ErrorCount(diags) == Cardinality({i \in DOMAIN diags : diags[i].level = "error"})

\* rewardCompileErr + (compileBandTop - rewardCompileErr) * remaining, where
\* remaining = 1 - clamp01(n / Saturation).
CompileScore_HighBand(n) ==
  -100 + 10 * (Saturation - (IF n < Saturation THEN n ELSE Saturation))
CompileScore(n) == -100 + 7 * (Saturation - (IF n < Saturation THEN n ELSE Saturation))

Reward(r, diags, mode) ==
  IF RewardClassify(r) # "CompileError" THEN Anchor(RewardClassify(r))
  ELSE IF mode = "Coarse" THEN Anchor("CompileError") ELSE CompileScore(ErrorCount(diags))

-----------------------------------------------------------------------------
\* What Env.Verify returns as the verdict's Diagnostics.
Diags == DiagnosticsFor(lang, output)

\* Types; ExitCode, Passed and Crashed belong to the execute stage alone.
TypeOK ==
  /\ stage # "execute" => res.exit = 0 /\ ~res.passed /\ ~res.crashed
  /\ ttl \in TTLs /\ stage \in {"start", "compile", "execute"}
  /\ res \in [compiled : BOOLEAN, passed : BOOLEAN, exit : ExitCodes \cup {SIGKILL},
              timedOut : BOOLEAN, crashed : BOOLEAN]

\* An exec the wrapper killed is reported as timed out, whatever the rounding of
\* the limit and the delay of the report, and "a signal death well before the limit
\* (e.g. an OOM kill) is not misread as a timeout" (capture.go): none that is more
\* than half a second early.
TimeoutIsTheLimit ==
  /\ last.killed => res.timedOut
  /\ res.timedOut => LimitSecs(ttl) > 0 /\ last.dur >= ttl - 1

\* The outcome names the stage that decided it: a submission passes exactly when
\* both stages exited with 0, and a compile stage that was killed or failed is a
\* CompileError whatever else happened.  A Rust submission that does not compile,
\* its tests included, never gets further, and no other ever passes.
OutcomeNamesStage ==
  /\ stage = "compile" /\ ~res.compiled =>
       Classify(res) = "CompileError" /\ (last.exit # 0 \/ last.killed)
  /\ stage = "execute" =>
       /\ Classify(res) # "CompileError"
       /\ Classify(res) = "Passed" <=> last.exit = 0
       /\ last.killed => Classify(res) = "RuntimeError"
       /\ lang = "Rust" \/ Classify(res) = "Passed" => broken = {}

\* The reward of a submission is that of the verdict Env.Verify reports, in both
\* arms, although reward.go classifies the Result by itself: only a compile
\* failure is scored differently by the arms ("The three non-compile outcomes
\* are identical across both arms"), and with however many errors "every compile
\* failure remains worse than any runtime error" and no worse than in the coarse arm.
RewardFollowsVerdict ==
  stage # "start" => \A mode \in {"Coarse", "Structured"} :
    IF Classify(res) = "CompileError"
    THEN Reward(res, Diags, mode) \in Anchor("CompileError")..(Anchor("RuntimeError") - 1)
    ELSE Reward(res, Diags, mode) = Anchor(Classify(res))

\* The errors of a Rust compilation are graded one for one, whatever lines are
\* around them ("A malformed line is not fatal: skip it and keep parsing"): notes,
\* warnings and records that are no compiler message never lower the reward.  And
\* "rustc often puts the actual fix on a child": whatever any descendant of a
\* diagnostic suggests is among the diagnostic's own suggestions.
EveryErrorIsKept ==
  /\ lang = "Rust" => ErrorCount(Diags) =
       Cardinality({i \in DOMAIN output : output[i].form = "json"
                      /\ output[i].reason = "compiler-message"
                      /\ output[i].message # NoMessage /\ output[i].message.level = "error"})
  /\ \A i \in DOMAIN Diags : \A child \in ToSet(Diags[i].children) :
       /\ ToSet(child.suggestions) \subseteq ToSet(Diags[i].suggestions)
       /\ \A grandchild \in ToSet(child.children) :
            ToSet(grandchild.suggestions) \subseteq ToSet(Diags[i].suggestions)
=============================================================================
